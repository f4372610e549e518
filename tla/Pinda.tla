------------------------------- MODULE Pinda --------------------------------
(***************************************************************************)
(* The inductive probe of the printers (parts/components/PINDA.cpp): it    *)
(* follows the positions of the three axes and raises its pin when it is   *)
(* low enough over the bed.  With the steel sheet on the bed that is the   *)
(* height of the mesh at the probe's place; without it, and always on the  *)
(* MK2, the calibration points under the sheet.  All of it runs in the AVR *)
(* thread.                                                                 *)
(*                                                                         *)
(* The bed is a grid of a few places, each a cell of the mesh; how high    *)
(* the zone above a calibration point reaches at a place is a number, low  *)
(* where no point is near.  The offsets of the probe, which the code adds  *)
(* and takes away, are left out.                                           *)
(***************************************************************************)
EXTENDS Integers

CONSTANTS
  PindaXs, PindaYs,   \* the places of the bed, in both directions
  PindaZs,            \* heights
  PindaMesh,          \* the heights of a mesh point
  PindaZones          \* the heights of the zone of a calibration point at a place

ASSUME PindaAssumption ==
  /\ PindaZs \subseteq Int /\ PindaMesh \subseteq Int /\ PindaZones \subseteq Int
  /\ PindaXs # {} /\ PindaYs # {} /\ PindaMesh # {} /\ PindaZones # {}

Places == PindaXs \X PindaYs
NoZone == -1000       \* no calibration point is near: below every height

VARIABLES
  pindaMK2,      \* m_XYCalType is MK2
  pindaSheet,    \* m_bIsSheetPresent
  pindaX, pindaY, pindaZ,   \* m_fPos
  pindaMesh,     \* m_mesh, by place
  pindaZone,     \* the zones of the calibration points, by place
  pindaPin,      \* TRIGGER_OUT
  pindaStale     \* history: since the last move that looks, the probe was moved over the
                 \* sheet, or the sheet or the bed was changed

pindaPos == <<pindaX, pindaY, pindaZ>>
pindaBed == <<pindaMesh, pindaZone>>
pindaVars == <<pindaMK2, pindaSheet, pindaPos, pindaBed, pindaPin, pindaStale>>

PindaInit ==
  /\ pindaMK2 \in BOOLEAN /\ pindaSheet = ~pindaMK2
  /\ pindaX \in PindaXs /\ pindaY \in PindaYs /\ pindaZ = 10
  /\ pindaMesh \in [Places -> PindaMesh] /\ pindaZone \in [Places -> PindaZones \cup {NoZone}]
  /\ pindaPin = 0 /\ pindaStale = FALSE

\* CheckTrigger and CheckTriggerNoSheet: the highest z that triggers at a place.  The first
\* gives up above 5, the second from 10 on; the sheet is 3 higher than the bed it lies on.
Triggers(x, y, z) ==
  IF pindaSheet THEN z <= 5 /\ z <= pindaMesh[<<x, y>>]
  ELSE z < 10 /\ z <= pindaZone[<<x, y>>] + (IF pindaMK2 THEN 0 ELSE 3)

Pin(x, y, z) == IF Triggers(x, y, z) THEN 1 ELSE 0

\* OnXChanged and OnYChanged look only without the sheet, OnZChanged always.
\* (A definition named Mut... is the one after it with a plausible mistake in it.)
MutPindaMoveX(x) ==
  /\ pindaX' = x /\ UNCHANGED <<pindaY, pindaZ>>
  /\ pindaStale' = pindaSheet /\ UNCHANGED pindaPin
PindaMoveX(x) ==
  /\ pindaX' = x /\ UNCHANGED <<pindaY, pindaZ>>
  /\ pindaPin' = (IF pindaSheet THEN pindaPin ELSE Pin(x, pindaY, pindaZ))
  /\ pindaStale' = pindaSheet
PindaMoveY(y) ==
  /\ pindaY' = y /\ UNCHANGED <<pindaX, pindaZ>>
  /\ pindaPin' = (IF pindaSheet THEN pindaPin ELSE Pin(pindaX, y, pindaZ))
  /\ pindaStale' = pindaSheet
PindaMoveZ(z) ==
  /\ pindaZ' = z /\ UNCHANGED <<pindaX, pindaY>>
  /\ pindaPin' = Pin(pindaX, pindaY, z) /\ pindaStale' = FALSE
PindaMove ==
  /\ \/ \E x \in PindaXs : PindaMoveX(x)
     \/ \E y \in PindaYs : PindaMoveY(y)
     \/ \E z \in PindaZs : PindaMoveZ(z)
  /\ UNCHANGED <<pindaMK2, pindaSheet, pindaBed>>

\* ActSetPos raises the three positions one after the other; the last one looks.
PindaSetPos ==
  /\ pindaX' \in PindaXs /\ pindaY' \in PindaYs /\ pindaZ' \in PindaZs
  /\ pindaPin' = Pin(pindaX', pindaY', pindaZ') /\ pindaStale' = FALSE
  /\ UNCHANGED <<pindaMK2, pindaSheet, pindaBed>>

\* ToggleSheet, of the key and of the script, which the MK2 refuses
PindaToggleSheet ==
  /\ ~pindaMK2
  /\ pindaSheet' = ~pindaSheet /\ pindaStale' = TRUE
  /\ UNCHANGED <<pindaMK2, pindaPos, pindaBed, pindaPin>>

\* ActSetMBLPoint and ActSetXYCalPont, within the range of the index
PindaSetBed ==
  /\ \/ /\ \E p \in Places, h \in PindaMesh : pindaMesh' = [pindaMesh EXCEPT ![p] = h]
        /\ UNCHANGED pindaZone
     \/ /\ \E p \in Places, h \in PindaZones \cup {NoZone} :
             pindaZone' = [pindaZone EXCEPT ![p] = h]
        /\ UNCHANGED pindaMesh
  /\ pindaStale' = TRUE
  /\ UNCHANGED <<pindaMK2, pindaSheet, pindaPos, pindaPin>>

PindaNext == PindaMove \/ PindaSetPos \/ PindaToggleSheet \/ PindaSetBed

PindaSpec == PindaInit /\ [][PindaNext]_pindaVars

PindaTypeOK ==
  /\ pindaMK2 \in BOOLEAN /\ pindaSheet \in BOOLEAN
  /\ pindaX \in PindaXs /\ pindaY \in PindaYs /\ pindaZ \in PindaZs \cup {10}
  /\ pindaMesh \in [Places -> PindaMesh] /\ pindaZone \in [Places -> PindaZones \cup {NoZone}]
  /\ pindaPin \in 0..1 /\ pindaStale \in BOOLEAN

-----------------------------------------------------------------------------
\* The pin tells whether the probe triggers where it is, except after the sheet or the bed was
\* changed, or the probe was moved over the sheet without a move of Z: the firmware must move
\* Z before it may believe the pin.  A look from too high never triggers; an MK2 never has a
\* sheet.
PindaHonest ==
  /\ ~pindaStale => pindaPin = Pin(pindaX, pindaY, pindaZ)
  /\ ~pindaStale /\ pindaZ > (IF pindaSheet THEN 5 ELSE 9) => pindaPin = 0
  /\ pindaMK2 => ~pindaSheet
=============================================================================

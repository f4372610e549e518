------------------------------ MODULE MCSdCard ------------------------------
(***************************************************************************)
(* An instance of SdCard for TLC: one image of each kind.                  *)
(***************************************************************************)
EXTENDS SdCard

MCLength ==
  [i \in Images |-> CASE i = "large" -> 4 [] i = "protected" -> 2
                      [] i = "odd" -> 3 [] OTHER -> 0]
=============================================================================

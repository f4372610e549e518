---------------------------- MODULE GCodeSniffer ----------------------------
(***************************************************************************)
(* The part that watches the firmware's serial output for a code at the    *)
(* beginning of a line, such as the T of a tool change, and raises a       *)
(* signal with the number after it (parts/components/GCodeSniffer.cpp).    *)
(* A number is kept as the text it was read from.                          *)
(***************************************************************************)
EXTENDS Naturals, Sequences, SequencesExt

CONSTANTS
  SnifIntDigits,         \* the digits that an int has room for
  SnifMaxBytes           \* bound: bytes of output

ASSUME GCodeSnifferAssumption == SnifIntDigits \in Nat /\ SnifMaxBytes \in Nat

SnifDigits == {"1", "2"}
\* "blank" is white space that ends no word here: a tab or a carriage return.  A code in
\* the middle of a line stands for any byte that is of no number.
SnifBytes == SnifDigits \cup {"code", "space", "newline", "blank", "minus"}

VARIABLES
  snifNewLine, snifCapture,      \* m_bNewLine, m_bCapture
  snifLine,              \* m_strLine
  snifOut,               \* the last value raised
  snifEnded,             \* stoi() threw, and nothing catches it
  snifText               \* history: the bytes of the firmware

snifVars == <<snifNewLine, snifCapture, snifLine, snifOut, snifEnded, snifText>>

SnifInit ==
  /\ snifNewLine = FALSE /\ snifCapture = FALSE /\ snifLine = <<>>
  /\ snifOut = <<>> /\ snifEnded = FALSE /\ snifText = <<>>

\* stoi: blanks, a sign and the digits as far as they go are the number, and what
\* follows is left aside; it throws when there is no digit, or more than fit.
SnifNumber(s) ==
  LET Number(b, e) ==
        LET d == IF s[b] = "minus" THEN b + 1 ELSE b
        IN  /\ \A i \in 1..(b - 1) : s[i] = "blank"
            /\ d <= e /\ e < d + SnifIntDigits
            /\ \A i \in d..e : s[i] \in SnifDigits
            /\ e < Len(s) => s[e + 1] \notin SnifDigits
  IN {SubSeq(s, be[1], be[2]) : be \in {x \in (1..Len(s)) \X (1..Len(s)) : Number(x[1], x[2])}}

\* OnByteIn.  The byte of the code leaves m_bNewLine as it is.
SnifCode(c) ==
  /\ snifNewLine /\ c = "code"
  /\ snifCapture' = TRUE
  /\ UNCHANGED <<snifNewLine, snifLine, snifOut, snifEnded>>

\* (A definition named Mut... is the one after it with a plausible mistake in it.)
MutSnifByte(c) ==
  /\ ~(snifNewLine /\ c = "code")
  /\ snifNewLine' = (snifNewLine \/ c = "newline")
  /\ ~snifCapture
  /\ UNCHANGED <<snifCapture, snifLine, snifOut, snifEnded>>

SnifByte(c) ==
  /\ ~(snifNewLine /\ c = "code")
  /\ snifNewLine' = (c = "newline")
  /\ ~snifCapture
  /\ UNCHANGED <<snifCapture, snifLine, snifOut, snifEnded>>

SnifDigit(c) ==
  /\ ~(snifNewLine /\ c = "code")
  /\ snifNewLine' = (c = "newline")
  /\ snifCapture
  /\ IF c \notin {"space", "newline"}
     THEN snifLine' = Append(snifLine, c) /\ UNCHANGED <<snifCapture, snifOut, snifEnded>>
     ELSE /\ snifCapture' = FALSE
          /\ \/ /\ SnifNumber(snifLine) = {}
                /\ snifEnded' = TRUE /\ UNCHANGED <<snifLine, snifOut>>
             \/ /\ snifOut' \in SnifNumber(snifLine)
                /\ snifLine' = <<>> /\ UNCHANGED snifEnded

SnifOnByteIn(c) ==
  /\ ~snifEnded /\ Len(snifText) < SnifMaxBytes
  /\ snifText' = Append(snifText, c)
  /\ SnifCode(c) \/ SnifByte(c) \/ SnifDigit(c)

SnifNext == \E c \in SnifBytes : SnifOnByteIn(c)

SnifSpec == SnifInit /\ [][SnifNext]_snifVars
-----------------------------------------------------------------------------
SnifTypeOK ==
  /\ {snifNewLine, snifCapture, snifEnded} \subseteq BOOLEAN
  /\ snifLine \in Seq(SnifBytes) /\ snifOut \in Seq(SnifBytes)
  /\ snifText \in Seq(SnifBytes) /\ Len(snifText) <= SnifMaxBytes

\* What a value is, by the text alone: a line that is not the first begins with the
\* code, once or more, and the number that follows, up to a space or the line's end,
\* is the value; if stoi takes none from it the program ends.
SnifLineOf(t) ==      \* the last complete word of the last line, with its beginning
  LET n == CHOOSE k \in 1..(Len(t) - 1) :
             t[k] = "newline" /\ "newline" \notin ToSet(SubSeq(t, k + 1, Len(t) - 1))
  IN SubSeq(t, n + 1, Len(t) - 1)
SnifExpected(t) ==
  LET l == SnifLineOf(t)
      k == CHOOSE i \in 0..Len(l) : /\ \A j \in 1..i : l[j] = "code"
                                    /\ i < Len(l) => l[i + 1] # "code"
  IN SnifNumber(SubSeq(l, k + 1, Len(l)))

\* Codes in the middle of a line, before the first newline, or after the first word
\* are never taken, and a value is the number that the firmware printed.
SnifFaithful ==
  [][snifText' # snifText =>
       LET t == snifText'
           ends == t[Len(t)] \in {"space", "newline"}
           begun == "newline" \in ToSet(snifText)
           first == begun /\ SnifLineOf(t) # <<>> /\ SnifLineOf(t)[1] = "code"
                      /\ "space" \notin ToSet(SnifLineOf(t))
       IN IF ends /\ first
          THEN IF SnifExpected(t) = {} THEN snifEnded' ELSE snifOut' \in SnifExpected(t) /\ ~snifEnded'
          ELSE UNCHANGED <<snifOut, snifEnded>>]_snifVars
=============================================================================

----------------------------- MODULE MCArrayPipe -----------------------------
(***************************************************************************)
(* Small instances of ArrayPipe for TLC.  A byte carries two payload bits  *)
(* and a long has seven, so counts, lengths and sizes take one to four     *)
(* bytes as in the code they take one to ten.                              *)
(***************************************************************************)
EXTENDS ArrayPipe

\* An empty item, one whose length prefix and payload are both one byte, and
\* one long enough that its length takes two bytes.
ThreeItems == {<< >>, <<5>>, <<1, 2>>}

\* The field before the array.
OneField == <<2>>

\* The powers of Base = 4 up to MaxLen = 4.
PowersOfFour == [i \in 0 .. 4 |-> 4 ^ i]
=============================================================================

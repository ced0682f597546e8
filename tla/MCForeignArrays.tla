--------------------------- MODULE MCForeignArrays ---------------------------
(***************************************************************************)
(* Every array of up to two blocks of up to three items each, with sizes     *)
(* right, or one byte too small or too large.                              *)
(***************************************************************************)
EXTENDS ForeignArrays

TwoItems == {<< >>, <<1, 2>>}
OffByOne == {-1, 0, 1}
PowersOfFour == [i \in 0 .. 4 |-> 4 ^ i]
=============================================================================

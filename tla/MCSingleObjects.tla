--------------------------- MODULE MCSingleObjects ---------------------------
(***************************************************************************)
(* Two schemas, the magic and the fingerprints of two bytes each.  Every   *)
(* byte of the header occurs as a length or in a payload as well.          *)
(***************************************************************************)
EXTENDS SingleObjects, TLC

CONSTANTS mine, other

Fingerprints == (mine :> <<3, 2>>) @@ (other :> <<2, 3>>)
TwoBytes == <<2, 1>>
ThreeItems == {<< >>, <<1>>, <<2, 1>>}
PowersOfFour == [i \in 0 .. 4 |-> 4 ^ i]
=============================================================================

----------------------------- MODULE MCTokenizer -----------------------------
(***************************************************************************)
(* Every file of up to four runes, and longer ones out of fewer runes:     *)
(* comments with something after them, numbers and strings.  Letters take  *)
(* two bytes and runes of no use three.                                    *)
(***************************************************************************)
EXTENDS Tokenizer

Sizes == [rune \in Runes |-> CASE rune = "letter" -> 2 [] rune = "other" -> 3 [] OTHER -> 1]

After2(first, class, n) == {first \o s : s \in BoundedSeq(class, n)}

SomeFiles ==
  BoundedSeq(Runes, 3)
    \cup BoundedSeq(Runes \ {"space", "at", "symbol", "backslash"}, 4)
    \cup After2(<<"slash", "star">>, {"star", "slash", "newline", "letter"}, 6)
    \cup After2(<<"slash", "star", "star", "slash">>, {"star", "slash", "letter"}, 5)
    \cup After2(<<"quote">>, {"quote", "backslash", "letter", "newline"}, 5)
    \cup BoundedSeq({"minus", "dot", "digit", "letter"}, 5)
=============================================================================

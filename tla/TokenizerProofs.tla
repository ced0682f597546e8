-------------------------- MODULE TokenizerProofs --------------------------
(***************************************************************************)
(* Proof that idl.Tokenize loses nothing of any file: between its tokens   *)
(* there is only white space, and when they end without an error, so does  *)
(* the file, or a comment that never ends.                                 *)
(*                                                                         *)
(* NothingIsLost speaks of the tokens yielded.  The invariant adds what    *)
(* each tokenizerAction relies on of the runes read for the next one.      *)
(*                                                                         *)
(* And what it yields as a string, a comment, an identifier, a number ...  *)
(* is one, ended as such a token ends, at the position it is given but for *)
(* the columns that block comments cost.                                   *)
(***************************************************************************)
EXTENDS Tokenizer, FiniteSetTheorems, SequenceTheorems, WellFoundedInduction, TLAPS

WhiteSpace == {"space", "newline"}

\* The first rune that is in no token yet.
Rest == FirstAfter(Len(tokens))

BlankUpTo(n) == \A i \in Rest .. n : file[i] \in WhiteSpace

Between ==
  \A k \in 1 .. Len(tokens) :
    \A i \in FirstAfter(k - 1) .. tokens[k].from - 1 : file[i] \in WhiteSpace

\* The end of the file is reached, or a comment has none.
Exhausted ==
  \E n \in Rest .. Len(file) + 1 :
    /\ BlankUpTo(n - 1)
    /\ n = Len(file) + 1 \/ OpenComment(Text(n, Len(file)))

\* What the action relies on of the runes read for its token.
Started ==
  /\ start.at \in Rest .. read
  /\ BlankUpTo(start.at - 1)
  /\ action = "comment" => read = start.at /\ file[start.at] = "slash"
  /\ action \in {"line", "block"} =>
       /\ read = start.at + 1
       /\ file[start.at] = "slash"
       /\ file[read] = IF action = "line" THEN "slash" ELSE "star"

Begun ==
  /\ action = "idl" => read = Rest - 1
  /\ action \in {"identifier", "number"} => Rest <= read + 1 /\ BlankUpTo(read)
  /\ action \in {"annotation", "string", "symbol", "comment", "line", "block"} => Started
  /\ action = "end" /\ errors = << >> => Exhausted

Lexemes ==
  \A k \in 1 .. Len(tokens) :
    tokens[k].from \in 1 .. Len(file) + 1 /\ tokens[k].to \in 0 .. Len(file)

ScanInv ==
  /\ file \in Seq(Runes)
  /\ read \in 0 .. Len(file)
  /\ \E S : tokens \in Seq(S)
  /\ Lexemes
  /\ Between
  /\ Begun

-----------------------------------------------------------------------------
\* A nonempty set of numbers has a least one, so Min is that number.
LEMMA MinIsLeast ==
  ASSUME NEW S \in SUBSET Nat, S # {}
  PROVE  Min(S) \in S /\ \A n \in S : Min(S) <= n
<1> DEFINE Less == OpToRel(<, Nat)
<1>1. \A a, b \in Nat : a < b => <<a, b>> \in Less
  BY DEF OpToRel
<1>2. IsWellFoundedOn(Less, Nat)
  BY NatLessThanWellFounded
<1> HIDE DEF Less
<1>3. PICK m \in S : \A n \in S : <<n, m>> \notin Less
  BY <1>2, WFMin
<1>4. \A n \in S : m <= n
  <2> TAKE n \in S
  <2>1. ~(n < m)
    BY <1>1, <1>3
  <2> QED
    BY <2>1
<1>5. \E k \in S : \A n \in S : k <= n
  BY <1>4
<1> QED
  BY <1>5 DEF Min

\* copyIf reads on over runes of the class, and stops at the end or before
\* one that is not.
LEMMA LastOfClass ==
  ASSUME file \in Seq(Runes), read \in 0 .. Len(file), NEW class
  PROVE  /\ LastOf(class) \in read .. Len(file)
         /\ \A i \in read + 1 .. LastOf(class) : file[i] \in class
<1> DEFINE stops == {i \in read + 1 .. Len(file) : file[i] \notin class}
<1>1. Len(file) \in Nat /\ read \in Nat
  OBVIOUS
<1>2. CASE stops = {}
  <2>1. LastOf(class) = Len(file)
    BY <1>2 DEF LastOf
  <2> QED
    BY <1>1, <1>2, <2>1
<1>3. CASE stops # {}
  <2>1. stops \in SUBSET Nat
    BY <1>1
  <2>2. LastOf(class) = Min(stops) - 1
    BY <1>3 DEF LastOf
  <2>3. Min(stops) \in stops /\ \A n \in stops : Min(stops) <= n
    BY <1>3, <2>1, MinIsLeast
  <2> QED
    BY <1>1, <2>2, <2>3
<1> QED
  BY <1>2, <1>3

\* Where the rest begins.
LEMMA RestIsPlace ==
  ASSUME ScanInv
  PROVE  Rest \in 1 .. Len(file) + 1 /\ Len(file) \in Nat /\ Len(tokens) \in Nat /\ read \in Nat
<1>1. Len(tokens) \in Nat /\ Len(file) \in Nat /\ read \in Nat
  BY DEF ScanInv
<1>2. CASE Len(tokens) = 0
  BY <1>1, <1>2 DEF Rest, FirstAfter
<1>3. CASE Len(tokens) # 0
  <2>1. tokens[Len(tokens)].to \in 0 .. Len(file)
    BY <1>1, <1>3 DEF ScanInv, Lexemes
  <2> QED
    BY <1>1, <1>3, <2>1 DEF Rest, FirstAfter
<1> QED
  BY <1>1, <1>2, <1>3

\* A token is yielded, of the runes from s.at to n.
LEMMA YieldKeeps ==
  ASSUME ScanInv, NEW s, NEW type, NEW n \in 0 .. Len(file), NEW after,
         YieldFrom(s, type, n, after), file' = file, read' = n,
         s.at \in Rest .. n + 1, BlankUpTo(s.at - 1),
         after = "idl" \/ (after = "end" /\ n = Len(file))
  PROVE  ScanInv'
<1> DEFINE t == [type |-> type, from |-> s.at, to |-> n, pos |-> s.pos]
           N == Len(tokens)
<1>1. /\ tokens' = Append(tokens, t) /\ action' \in {after, "stopped"} /\ errors' = errors
      /\ t.from = s.at /\ t.to = n
  BY DEF YieldFrom
<1>2. Rest \in 1 .. Len(file) + 1 /\ Len(file) \in Nat /\ N \in Nat /\ n \in Nat
  BY RestIsPlace
<1>3. PICK S : tokens \in Seq(S)
  BY DEF ScanInv
<1> HIDE DEF t
<1>4. tokens' \in Seq(S \cup {t})
  BY <1>1, <1>3
<1>5. /\ Len(tokens') = N + 1
      /\ tokens'[N + 1] = t
      /\ \A k \in 1 .. N : tokens'[k] = tokens[k]
  BY <1>1, <1>3
<1> HIDE DEF N
<1>6. Lexemes'
  <2>1. \A k \in 1 .. N :
          tokens[k].from \in 1 .. Len(file) + 1 /\ tokens[k].to \in 0 .. Len(file)
    BY DEF ScanInv, Lexemes, N
  <2>2. t.from \in 1 .. Len(file) + 1 /\ t.to \in 0 .. Len(file)
    BY <1>1, <1>2
  <2>3. ASSUME NEW k \in 1 .. N + 1
        PROVE  tokens'[k].from \in 1 .. Len(file) + 1 /\ tokens'[k].to \in 0 .. Len(file)
    <3>1. k = N + 1 \/ k \in 1 .. N
      BY <1>2
    <3> QED
      BY <1>5, <2>1, <2>2, <3>1
  <2>4. Len(file') = Len(file)
    OBVIOUS
  <2> QED
    BY <1>5, <2>3, <2>4 DEF Lexemes
<1>7. \A k \in 0 .. N : FirstAfter(k)' = FirstAfter(k)
  BY <1>2, <1>5 DEF FirstAfter
<1>8. Between'
  <2> SUFFICES ASSUME NEW k \in 1 .. N + 1, NEW i \in FirstAfter(k - 1)' .. tokens'[k].from - 1
               PROVE  file[i] \in WhiteSpace
    BY <1>5 DEF Between, WhiteSpace
  <2>1. FirstAfter(k - 1)' = FirstAfter(k - 1)
    BY <1>2, <1>7
  <2>2. CASE k = N + 1
    <3>1. FirstAfter(k - 1) = Rest
      BY <1>2, <2>2 DEF Rest, N
    <3> QED
      BY <1>1, <1>5, <2>1, <2>2, <3>1 DEF BlankUpTo
  <2>3. CASE k # N + 1
    <3>1. k \in 1 .. N /\ tokens'[k] = tokens[k]
      BY <1>2, <1>5, <2>3
    <3> QED
      BY <2>1, <3>1 DEF ScanInv, Between, N
  <2> QED
    BY <2>2, <2>3
<1>9. Rest' = n + 1
  BY <1>1, <1>2, <1>5 DEF Rest, FirstAfter
<1>10. Begun'
  <2>1. CASE action' = "idl"
    BY <1>2, <1>9, <2>1 DEF Begun
  <2>2. CASE action' = "end"
    <3>1. n = Len(file)
      BY <1>1, <2>2
    <3>2. Exhausted'
      BY <1>2, <1>9, <3>1 DEF Exhausted, BlankUpTo
    <3> QED
      BY <2>2, <3>2 DEF Begun
  <2>3. CASE action' = "stopped"
    BY <2>3 DEF Begun
  <2> QED
    BY <1>1, <2>1, <2>2, <2>3
<1> QED
  BY <1>4, <1>6, <1>8, <1>10 DEF ScanInv

\* No token is yielded.
LEMMA QuietKeeps ==
  ASSUME ScanInv, tokens' = tokens, file' = file, read' \in 0 .. Len(file), Begun'
  PROVE  ScanInv'
BY DEF ScanInv, Lexemes, Between, FirstAfter

\* An error is yielded, and no token after it.
LEMMA FailKeeps ==
  ASSUME ScanInv, NEW errs, errs # << >>, FailWith(errs), file' = file,
         read' \in 0 .. Len(file)
  PROVE  ScanInv'
<1>1. Begun'
  BY DEF FailWith, Begun
<1> QED
  BY <1>1, QuietKeeps DEF FailWith

\* The tokens end without an error.
LEMMA EndKeeps ==
  ASSUME ScanInv, EndQuietly, file' = file, read' \in 0 .. Len(file), Exhausted
  PROVE  ScanInv'
<1>1. Exhausted'
  BY DEF EndQuietly, Exhausted, BlankUpTo, Rest, FirstAfter, Text
<1>2. Begun'
  BY <1>1 DEF EndQuietly, Begun
<1> QED
  BY <1>2, QuietKeeps DEF EndQuietly

LEMMA IDLKeeps ==
  ASSUME ScanInv, TokenizeIDL
  PROVE  ScanInv'
<1>1. PICK n : n = LastOf({"space", "newline"})
  OBVIOUS
<1>2. PICK rune : rune = file[n + 1]
  OBVIOUS
<1>3. file \in Seq(Runes) /\ read \in 0 .. Len(file) /\ read = Rest - 1 /\ file' = file
  BY DEF TokenizeIDL, ScanInv, Begun
<1>4. Rest \in 1 .. Len(file) + 1 /\ Len(file) \in Nat
  BY RestIsPlace
<1>5. n \in read .. Len(file) /\ \A i \in read + 1 .. n : file[i] \in WhiteSpace
  BY <1>1, <1>3, LastOfClass DEF WhiteSpace
<1>6. BlankUpTo(n)
  BY <1>3, <1>4, <1>5 DEF BlankUpTo
<1>7. CASE AtEnd(n)
  <2>1. EndQuietly /\ read' = n
    BY <1>1, <1>7 DEF TokenizeIDL, ReadTo
  <2>2. Exhausted
    BY <1>4, <1>6, <1>7 DEF Exhausted, AtEnd
  <2> QED
    BY <1>3, <1>4, <1>5, <2>1, <2>2, EndKeeps
<1>8. CASE ~AtEnd(n)
  <2>1. n + 1 \in 1 .. Len(file)
    BY <1>3, <1>4, <1>5, <1>8 DEF AtEnd
  <2>2. read' = IF StaysRead(rune) THEN n + 1 ELSE n
    BY <1>1, <1>2, <1>8 DEF TokenizeIDL, ReadTo
  <2>3. read' \in 0 .. Len(file)
    BY <1>3, <1>4, <1>5, <2>1, <2>2
  <2>4. CASE rune \in {"space", "newline", "star", "backslash", "dot", "other"}
    <3>1. FailWith(<<"unexpectedCharacter">>)
      BY <1>1, <1>2, <1>8, <2>4 DEF TokenizeIDL
    <3> QED
      BY <1>3, <2>3, <3>1, FailKeeps
  <2>5. CASE rune \notin {"space", "newline", "star", "backslash", "dot", "other"}
    <3>1. start'.at = n + 1 /\ tokens' = tokens /\ errors' = errors
      BY <1>1, <1>2, <1>8, <2>5 DEF TokenizeIDL
    <3>2. Rest' = Rest /\ BlankUpTo(n)'
      BY <1>3, <1>6, <3>1 DEF Rest, BlankUpTo, FirstAfter
    <3>3. rune \in Runes
      BY <1>2, <1>3, <2>1
    <3> DEFINE next == CASE rune = "at" -> "annotation"
                         [] rune = "slash" -> "comment"
                         [] rune = "quote" -> "string"
                         [] rune = "symbol" -> "symbol"
                         [] rune = "letter" -> "identifier"
                         [] rune \in {"minus", "digit"} -> "number"
    <3>4. action' = next
      BY <1>1, <1>2, <1>8, <2>5 DEF TokenizeIDL
    <3>5. CASE rune \in {"letter", "minus", "digit"}
      <4>1. read' = n /\ action' \in {"identifier", "number"}
        BY <2>2, <3>5, <3>4 DEF StaysRead
      <4>2. Begun'
        BY <1>3, <1>4, <1>5, <3>2, <4>1 DEF Begun
      <4> QED
        BY <1>3, <2>3, <3>1, <4>2, QuietKeeps
    <3>6. CASE rune \notin {"letter", "minus", "digit"}
      <4>1. read' = n + 1
        BY <2>2, <3>6 DEF StaysRead
      <4>2. rune \in {"at", "slash", "quote", "symbol"}
        BY <2>5, <3>3, <3>6 DEF Runes
      <4>3. /\ action' \in {"annotation", "comment", "string", "symbol"}
            /\ action' = "comment" => rune = "slash"
        BY <3>4, <4>2
      <4>4. Started'
        <5>1. start'.at \in Rest .. read' /\ start'.at - 1 = n
          BY <1>3, <1>4, <1>5, <3>1, <4>1
        <5>2. action' = "comment" => read' = start'.at /\ file[start'.at] = "slash"
          BY <1>2, <3>1, <4>1, <4>3
        <5>3. BlankUpTo(start.at - 1)'
          BY <1>3, <1>6, <3>2, <5>1 DEF BlankUpTo
        <5> QED
          BY <1>3, <3>2, <4>3, <5>1, <5>2, <5>3 DEF Started
      <4>5. Begun'
        BY <4>3, <4>4 DEF Begun
      <4> QED
        BY <1>3, <2>3, <3>1, <4>5, QuietKeeps
    <3> QED
      BY <3>5, <3>6
  <2> QED
    BY <2>4, <2>5
<1> QED
  BY <1>7, <1>8

\* What an action past the first rune of its token starts from.
LEMMA StartedFacts ==
  ASSUME ScanInv, action \in {"annotation", "string", "symbol", "comment", "line", "block"}
  PROVE  /\ Started
         /\ Rest \in 1 .. Len(file) + 1 /\ Len(file) \in Nat /\ read \in 0 .. Len(file)
         /\ start.at \in 1 .. read /\ file \in Seq(Runes)
<1>1. Started /\ read \in 0 .. Len(file) /\ file \in Seq(Runes)
  BY DEF ScanInv, Begun
<1>2. Rest \in 1 .. Len(file) + 1 /\ Len(file) \in Nat
  BY RestIsPlace
<1> QED
  BY <1>1, <1>2 DEF Started

LEMMA StartedYieldKeeps ==
  ASSUME ScanInv, action \in {"annotation", "string", "symbol", "comment", "line", "block"},
         NEW type, NEW n \in read .. Len(file), NEW after, YieldThen(type, n, after),
         file' = file, read' = n, after = "idl" \/ (after = "end" /\ n = Len(file))
  PROVE  ScanInv'
<1>1. /\ Started /\ Rest \in 1 .. Len(file) + 1 /\ Len(file) \in Nat
      /\ read \in 0 .. Len(file) /\ start.at \in 1 .. read
  BY StartedFacts
<1>2. n \in 0 .. Len(file) /\ start.at \in Rest .. n + 1 /\ BlankUpTo(start.at - 1)
  BY <1>1 DEF Started
<1> QED
  BY <1>2, YieldKeeps DEF YieldThen

LEMMA SymbolKeeps ==
  ASSUME ScanInv, TokenizeSymbol
  PROVE  ScanInv'
<1>1. YieldThen("symbol", read, "idl") /\ file' = file /\ read' = read /\ action = "symbol"
  BY DEF TokenizeSymbol
<1>2. read \in read .. Len(file)
  BY <1>1, StartedFacts
<1> QED
  BY <1>1, <1>2, StartedYieldKeeps

LEMMA CommentKeeps ==
  ASSUME ScanInv, TokenizeComment
  PROVE  ScanInv'
<1>1. action = "comment" /\ file' = file
  BY DEF TokenizeComment
<1>2. /\ Started /\ Rest \in 1 .. Len(file) + 1 /\ Len(file) \in Nat
      /\ read \in 0 .. Len(file) /\ start.at \in 1 .. read
  BY <1>1, StartedFacts
<1>3. CASE AtEnd(read)
  <2>1. FailWith(<<"eof", "unexpectedCharacter">>) /\ read' = read
    BY <1>3 DEF TokenizeComment
  <2> QED
    BY <1>1, <1>2, <2>1, FailKeeps
<1>4. CASE ~AtEnd(read)
  <2>1. read' = read + 1 /\ read' \in 0 .. Len(file)
    BY <1>2, <1>4 DEF TokenizeComment, ReadTo, AtEnd
  <2>2. CASE file[read + 1] \in {"slash", "star"}
    <3>1. /\ action' = IF file[read + 1] = "slash" THEN "line" ELSE "block"
          /\ start' = start /\ tokens' = tokens
      BY <1>4, <2>2 DEF TokenizeComment
    <3>2. Rest' = Rest
      BY <3>1 DEF Rest, FirstAfter
    <3>3. BlankUpTo(start.at - 1)'
      BY <1>1, <1>2, <3>1, <3>2 DEF Started, BlankUpTo
    <3>4. read = start.at /\ file[start.at] = "slash"
      BY <1>1, <1>2 DEF Started
    <3>5. start.at \in Rest .. read'
      BY <1>2, <2>1 DEF Started
    <3>6. file[read'] = IF action' = "line" THEN "slash" ELSE "star"
      BY <2>1, <2>2, <3>1
    <3>7. Started'
      BY <1>1, <2>1, <3>1, <3>2, <3>3, <3>4, <3>5, <3>6 DEF Started
    <3>8. Begun'
      BY <3>1, <3>7 DEF Begun
    <3> QED
      BY <1>1, <2>1, <3>1, <3>8, QuietKeeps
  <2>3. CASE file[read + 1] \notin {"slash", "star"}
    <3>1. FailWith(<<"unexpectedCharacter">>)
      BY <1>4, <2>3 DEF TokenizeComment
    <3> QED
      BY <1>1, <2>1, <3>1, FailKeeps
  <2> QED
    BY <2>2, <2>3
<1> QED
  BY <1>3, <1>4

\* The text of the last token is what lies between its start and the end.
LEMMA TextFacts ==
  ASSUME file \in Seq(Runes), NEW from \in 1 .. Len(file)
  PROVE  /\ Text(from, Len(file)) \in Seq(Runes)
         /\ Len(Text(from, Len(file))) = Len(file) - from + 1
         /\ \A i \in 1 .. Len(file) - from + 1 : Text(from, Len(file))[i] = file[from + i - 1]
<1>1. Len(file) \in Nat /\ from \in Nat /\ from >= 1 /\ from <= Len(file)
  OBVIOUS
<1>2. \A i \in from .. Len(file) : file[i] \in Runes
  BY <1>1
<1> QED
  BY <1>1, <1>2 DEF Text

\* A // comment that no newline ends.
LEMMA LineStaysOpen ==
  ASSUME file \in Seq(Runes), NEW from \in 1 .. Len(file) - 1,
         file[from] = "slash", file[from + 1] = "slash",
         \A i \in from + 2 .. Len(file) : file[i] # "newline"
  PROVE  OpenComment(Text(from, Len(file)))
<1> DEFINE s == Text(from, Len(file))
<1>1. Len(file) \in Nat /\ from \in 1 .. Len(file)
  OBVIOUS
<1>2. /\ s \in Seq(Runes) /\ Len(s) = Len(file) - from + 1
      /\ \A i \in 1 .. Len(s) : s[i] = file[from + i - 1]
  BY <1>1, TextFacts
<1> HIDE DEF s
<1>3. Len(s) >= 2 /\ s[1] = "slash" /\ s[2] = "slash"
  BY <1>1, <1>2
<1>4. IsPrefix(<<"slash", "slash">>, s)
  BY <1>2, <1>3 DEF IsPrefix
<1>5. ~Contains(s, "newline")
  <2> SUFFICES ASSUME NEW i \in 1 .. Len(s)
               PROVE  s[i] # "newline"
    BY DEF Contains
  <2>1. CASE i \in {1, 2}
    BY <1>3, <2>1
  <2>2. CASE i \notin {1, 2}
    <3>1. from + i - 1 \in from + 2 .. Len(file)
      BY <1>1, <1>2, <2>2
    <3> QED
      BY <1>2, <3>1
  <2> QED
    BY <2>1, <2>2
<1> QED
  BY <1>4, <1>5 DEF OpenComment, s

\* A block comment without a closing.
LEMMA BlockStaysOpen ==
  ASSUME file \in Seq(Runes), NEW from \in 1 .. Len(file) - 1,
         file[from] = "slash", file[from + 1] = "star",
         \A i \in from + 3 .. Len(file) : ~(file[i - 1] = "star" /\ file[i] = "slash")
  PROVE  OpenComment(Text(from, Len(file)))
<1> DEFINE s == Text(from, Len(file))
           rest == Tail(Tail(s))
<1>1. Len(file) \in Nat /\ from \in 1 .. Len(file)
  OBVIOUS
<1>2. /\ s \in Seq(Runes) /\ Len(s) = Len(file) - from + 1
      /\ \A i \in 1 .. Len(s) : s[i] = file[from + i - 1]
  BY <1>1, TextFacts
<1> HIDE DEF s
<1>3. Len(s) >= 2 /\ s[1] = "slash" /\ s[2] = "star"
  BY <1>1, <1>2
<1>4. IsPrefix(<<"slash", "star">>, s)
  BY <1>2, <1>3 DEF IsPrefix
<1>5. /\ Tail(s) \in Seq(Runes) /\ Len(Tail(s)) = Len(s) - 1
      /\ \A i \in 1 .. Len(s) - 1 : Tail(s)[i] = s[i + 1]
  BY <1>2, <1>3
<1>6. /\ rest \in Seq(Runes) /\ Len(rest) = Len(s) - 2
      /\ \A i \in 1 .. Len(s) - 2 : rest[i] = s[i + 2]
  <2>1. PICK t : t = Tail(s)
    OBVIOUS
  <2>2. t \in Seq(Runes) /\ Len(t) = Len(s) - 1 /\ Len(s) \in Nat /\ Len(t) >= 1
    BY <1>2, <1>3, <1>5, <2>1
  <2>3. /\ Tail(t) \in Seq(Runes) /\ Len(Tail(t)) = Len(t) - 1
        /\ \A i \in 1 .. Len(t) - 1 : Tail(t)[i] = t[i + 1]
    BY <2>2
  <2>4. \A i \in 1 .. Len(s) - 2 : t[i + 1] = s[i + 2]
    <3> TAKE i \in 1 .. Len(s) - 2
    <3>1. i + 1 \in 1 .. Len(s) - 1 /\ (i + 1) + 1 = i + 2
      BY <2>2
    <3> QED
      BY <1>5, <2>1, <3>1
  <2>5. rest = Tail(t)
    BY <2>1
  <2> HIDE DEF rest
  <2> QED
    BY <2>2, <2>3, <2>4, <2>5
<1> HIDE DEF rest
<1>7. HasNoClosing(rest)
  <2> SUFFICES ASSUME NEW i \in 1 .. Len(rest) - 1, rest[i] = "star", rest[i + 1] = "slash"
               PROVE  FALSE
    BY DEF HasNoClosing
  <2>1. rest[i] = file[from + i + 1] /\ rest[i + 1] = file[from + i + 2]
    <3>1. i \in 1 .. Len(s) - 2 /\ i + 1 \in 1 .. Len(s) - 2
      BY <1>2, <1>3, <1>6
    <3>2. rest[i] = s[i + 2] /\ rest[i + 1] = s[i + 3]
      BY <1>6, <3>1
    <3>3. i + 2 \in 1 .. Len(s) /\ i + 3 \in 1 .. Len(s)
      BY <1>2, <1>3, <3>1
    <3>4. from + (i + 2) - 1 = from + i + 1 /\ from + (i + 3) - 1 = from + i + 2
      BY <1>1, <3>1
    <3> QED
      BY <1>2, <3>2, <3>3, <3>4
  <2>2. from + i + 2 \in from + 3 .. Len(file)
    BY <1>1, <1>2, <1>6
  <2>3. (from + i + 2) - 1 = from + i + 1
    BY <1>1
  <2> QED
    BY <2>1, <2>2, <2>3
<1> QED
  BY <1>4, <1>7 DEF OpenComment, rest, s

LEMMA LineCommentKeeps ==
  ASSUME ScanInv, TokenizeLineComment
  PROVE  ScanInv'
<1>1. PICK n : n = LastOf(Runes \ {"newline"})
  OBVIOUS
<1>2. action = "line" /\ file' = file /\ read' = n
  BY <1>1 DEF TokenizeLineComment, ReadTo
<1>3. /\ Started /\ Rest \in 1 .. Len(file) + 1 /\ Len(file) \in Nat
      /\ read \in 0 .. Len(file) /\ start.at \in 1 .. read /\ file \in Seq(Runes)
  BY <1>2, StartedFacts
<1>4. n \in read .. Len(file) /\ \A i \in read + 1 .. n : file[i] # "newline"
  BY <1>1, <1>3, LastOfClass
<1>5. CASE AtEnd(n)
  <2>1. EndQuietly
    BY <1>1, <1>5 DEF TokenizeLineComment
  <2>2. n = Len(file) /\ read = start.at + 1 /\ file[start.at] = "slash" /\ file[read] = "slash"
    BY <1>2, <1>3, <1>5 DEF AtEnd, Started
  <2>3. start.at \in 1 .. Len(file) - 1
    BY <1>3, <2>2
  <2>4. OpenComment(Text(start.at, Len(file)))
    BY <1>3, <1>4, <2>2, <2>3, LineStaysOpen
  <2>5. Exhausted
    BY <1>3, <2>3, <2>4 DEF Started, Exhausted
  <2>6. read' \in 0 .. Len(file)
    BY <1>2, <1>3, <1>4
  <2> QED
    BY <1>2, <2>1, <2>5, <2>6, EndKeeps
<1>6. CASE ~AtEnd(n)
  <2>1. YieldThen("comment", n, "idl")
    BY <1>1, <1>6 DEF TokenizeLineComment
  <2> QED
    BY <1>2, <1>4, <2>1, StartedYieldKeeps
<1> QED
  BY <1>5, <1>6

LEMMA BlockCommentKeeps ==
  ASSUME ScanInv, TokenizeBlockComment
  PROVE  ScanInv'
<1>1. action = "block" /\ file' = file
  BY DEF TokenizeBlockComment
<1>2. /\ Started /\ Rest \in 1 .. Len(file) + 1 /\ Len(file) \in Nat
      /\ read \in 0 .. Len(file) /\ start.at \in 1 .. read /\ file \in Seq(Runes)
  BY <1>1, StartedFacts
<1>3. CASE Closings = {}
  <2>1. EndQuietly /\ read' = Len(file)
    BY <1>3 DEF TokenizeBlockComment, ReadTo
  <2>2. read = start.at + 1 /\ file[start.at] = "slash" /\ file[read] = "star"
    BY <1>1, <1>2 DEF Started
  <2>3. start.at \in 1 .. Len(file) - 1
    BY <1>2, <2>2
  <2>4. \A i \in start.at + 3 .. Len(file) : ~(file[i - 1] = "star" /\ file[i] = "slash")
    <3> TAKE i \in start.at + 3 .. Len(file)
    <3>1. i \in read + 2 .. Len(file)
      BY <1>2, <2>2
    <3> QED
      BY <1>3, <3>1 DEF Closings
  <2>5. OpenComment(Text(start.at, Len(file)))
    BY <1>2, <2>2, <2>3, <2>4, BlockStaysOpen
  <2>6. Exhausted
    BY <1>2, <2>3, <2>5 DEF Started, Exhausted
  <2> QED
    BY <1>1, <1>2, <2>1, <2>6, EndKeeps
<1>4. CASE Closings # {}
  <2>1. PICK n : n = Min(Closings)
    OBVIOUS
  <2>2. n \in read .. Len(file)
    <3>1. Closings \in SUBSET Nat
      BY <1>2 DEF Closings
    <3>2. n \in Closings
      BY <1>4, <2>1, <3>1, MinIsLeast
    <3> QED
      BY <1>2, <3>2 DEF Closings
  <2>3. PICK type : type = IF IsDoc(n) THEN "doc" ELSE "comment"
    OBVIOUS
  <2>4. YieldThen(type, n, "idl") /\ read' = n
    BY <1>4, <2>1, <2>3 DEF TokenizeBlockComment, ReadTo
  <2> QED
    BY <1>1, <2>2, <2>4, StartedYieldKeeps
<1> QED
  BY <1>3, <1>4

\* Identifiers and numbers start at the rune after those read.
LEMMA HereYieldKeeps ==
  ASSUME ScanInv, action \in {"identifier", "number"}, NEW type, NEW n \in read .. Len(file),
         YieldFrom(Here, type, n, After(n)), file' = file, read' = n
  PROVE  ScanInv'
<1>1. /\ Rest \in 1 .. Len(file) + 1 /\ Len(file) \in Nat /\ read \in Nat
      /\ Rest <= read + 1 /\ BlankUpTo(read)
  BY RestIsPlace DEF ScanInv, Begun
<1>2. Here.at = read + 1
  BY DEF Here
<1>3. PICK s : s = Here
  OBVIOUS
<1>4. PICK after : after = After(n)
  OBVIOUS
<1>5. n \in 0 .. Len(file) /\ s.at \in Rest .. n + 1
  BY <1>1, <1>2, <1>3
<1>6. (s.at) - 1 = read
  BY <1>1, <1>2, <1>3
<1>7. BlankUpTo(s.at - 1)
  BY <1>1, <1>6
<1>8. after = "idl" \/ (after = "end" /\ n = Len(file))
  BY <1>4 DEF After, AtEnd
<1>9. YieldFrom(s, type, n, after)
  BY <1>3, <1>4
<1> QED
  BY <1>5, <1>7, <1>8, <1>9, YieldKeeps

LEMMA IdentifierKeeps ==
  ASSUME ScanInv, TokenizeIdentifier
  PROVE  ScanInv'
<1>1. PICK n : n = LastOf({"letter", "digit", "dot"})
  OBVIOUS
<1>2. /\ action = "identifier" /\ file' = file /\ read' = n
      /\ YieldFrom(Here, "identifier", n, After(n))
  BY <1>1 DEF TokenizeIdentifier, ReadTo
<1>3. n \in read .. Len(file)
  BY <1>1, LastOfClass DEF ScanInv
<1> QED
  BY <1>2, <1>3, HereYieldKeeps

LEMMA NumberKeeps ==
  ASSUME ScanInv, TokenizeNumber
  PROVE  ScanInv'
<1>1. PICK n : n = NumberEnd
  OBVIOUS
<1>2. action = "number" /\ file' = file /\ read' = n
  BY <1>1 DEF TokenizeNumber, ReadTo
<1>3. read \in Nat /\ Len(file) \in Nat /\ read <= Len(file) /\ Here.at = read + 1
  BY RestIsPlace DEF ScanInv, Here
<1>4. n \in read .. Len(file)
  <2> DEFINE inNumber(i) ==
               \/ file[i] = "digit"
               \/ i = Here.at /\ file[i] = "minus"
               \/ /\ file[i] = "dot"
                  /\ i # Here.at
                  /\ \A j \in Here.at .. i - 1 : file[j] # "dot"
             stops == {i \in Here.at .. Len(file) : ~inNumber(i)}
  <2>1. n = IF stops = {} THEN Len(file) ELSE Min(stops) - 1
    BY <1>1 DEF NumberEnd
  <2>2. \A i \in stops : i \in read + 1 .. Len(file)
    BY <1>3
  <2> HIDE DEF stops
  <2>3. CASE stops = {}
    BY <1>3, <2>1, <2>3
  <2>4. CASE stops # {}
    <3>1. stops \in SUBSET Nat
      BY <1>3, <2>2
    <3>2. Min(stops) \in read + 1 .. Len(file)
      BY <2>2, <2>4, <3>1, MinIsLeast
    <3> QED
      BY <1>3, <2>1, <2>4, <3>2
  <2> QED
    BY <2>3, <2>4
<1>5. CASE IsNumber(n)
  <2>1. YieldFrom(Here, "number", n, After(n))
    BY <1>1, <1>5 DEF TokenizeNumber
  <2> QED
    BY <1>2, <1>4, <2>1, HereYieldKeeps
<1>6. CASE ~IsNumber(n)
  <2>1. FailWith(<<"invalidNumber">>) /\ read' \in 0 .. Len(file)
    BY <1>1, <1>2, <1>3, <1>4, <1>6 DEF TokenizeNumber
  <2> QED
    BY <1>2, <2>1, FailKeeps
<1> QED
  BY <1>5, <1>6

LEMMA StringKeeps ==
  ASSUME ScanInv, TokenizeString
  PROVE  ScanInv'
<1>1. action = "string" /\ file' = file
  BY DEF TokenizeString
<1>2. read \in 0 .. Len(file) /\ Len(file) \in Nat
  BY <1>1, StartedFacts
<1>3. Quotes \subseteq read + 1 .. Len(file)
  BY DEF Quotes
<1>4. PICK n : n = IF Quotes = {} THEN Len(file) ELSE Min(Quotes)
  OBVIOUS
<1>5. read' = n
  BY <1>4 DEF TokenizeString, ReadTo
<1>6. n \in read .. Len(file)
  <2>1. CASE Quotes = {}
    BY <1>2, <1>4, <2>1
  <2>2. CASE Quotes # {}
    <3>1. Quotes \in SUBSET Nat
      BY <1>2, <1>3
    <3>2. n \in read + 1 .. Len(file)
      BY <1>3, <1>4, <2>2, <3>1, MinIsLeast
    <3> QED
      BY <1>2, <3>2
  <2> QED
    BY <2>1, <2>2
<1>7. CASE Quotes = {}
  <2>1. FailWith(<<"unterminatedString">>) /\ read' \in 0 .. Len(file)
    BY <1>2, <1>5, <1>6, <1>7 DEF TokenizeString
  <2> QED
    BY <1>1, <2>1, FailKeeps
<1>8. CASE Quotes # {}
  <2>1. YieldThen("string", n, "idl")
    BY <1>4, <1>8 DEF TokenizeString
  <2> QED
    BY <1>1, <1>5, <1>6, <2>1, StartedYieldKeeps
<1> QED
  BY <1>7, <1>8

LEMMA AnnotationKeeps ==
  ASSUME ScanInv, TokenizeAnnotation
  PROVE  ScanInv'
<1>1. PICK n : n = LastOf({"letter", "digit", "dot", "minus"})
  OBVIOUS
<1>2. action = "annotation" /\ file' = file /\ read' = n
  BY <1>1 DEF TokenizeAnnotation, ReadTo
<1>3. n \in read .. Len(file) /\ n \in 0 .. Len(file)
  BY <1>1, <1>2, LastOfClass, StartedFacts
<1>4. CASE n = read
  <2>1. FailWith(<<"invalidAnnotation">>)
    BY <1>1, <1>4 DEF TokenizeAnnotation
  <2> QED
    BY <1>2, <1>3, <2>1, FailKeeps
<1>5. CASE n # read
  <2>1. PICK after : after = After(n)
    OBVIOUS
  <2>2. YieldThen("annotation", n, after)
    BY <1>1, <1>5, <2>1 DEF TokenizeAnnotation
  <2>3. after = "idl" \/ (after = "end" /\ n = Len(file))
    BY <2>1 DEF After, AtEnd
  <2> QED
    BY <1>2, <1>3, <2>2, <2>3, StartedYieldKeeps
<1> QED
  BY <1>4, <1>5

LEMMA InitScan ==
  ASSUME Init
  PROVE  ScanInv
<1>1. file \in Seq(Runes) /\ read \in 0 .. Len(file) /\ tokens = << >> /\ action = "idl"
  BY FilesAssumption DEF Init
<1>2. \E S : tokens \in Seq(S)
  BY <1>1
<1>3. Begun
  BY <1>1 DEF Init, Begun, Rest, FirstAfter
<1> QED
  BY <1>1, <1>2, <1>3 DEF ScanInv, Lexemes, Between

LEMMA StutterKeeps ==
  ASSUME ScanInv, UNCHANGED vars
  PROVE  ScanInv'
<1>1. Begun'
  BY DEF vars, ScanInv, Begun, Started, Exhausted, BlankUpTo, Rest, FirstAfter, Text
<1> QED
  BY <1>1, QuietKeeps DEF vars, ScanInv

\* White space, rune by rune.
LEMMA BlankText ==
  ASSUME file \in Seq(Runes), NEW from \in Nat \ {0}, NEW to \in 0 .. Len(file),
         \A i \in from .. to : file[i] \in WhiteSpace
  PROVE  Blank(from, to)
<1> DEFINE s == SubSeq(file, from, to)
<1>1. Len(file) \in Nat /\ to \in Nat /\ to <= Len(file) /\ from >= 1
  OBVIOUS
<1>2. CASE from > to
  <2>1. s = << >>
    BY <1>1, <1>2
  <2> QED
    BY <2>1 DEF Blank, Over, Text, ToSet
<1>3. CASE from <= to
  <2>1. Len(s) = to - from + 1 /\ \A i \in 1 .. to - from + 1 : s[i] = file[from + i - 1]
    BY <1>1, <1>3
  <2>2. DOMAIN s = 1 .. to - from + 1
    BY <1>1, <1>3
  <2> HIDE DEF s
  <2>3. \A i \in DOMAIN s : s[i] \in WhiteSpace
    <3> TAKE i \in DOMAIN s
    <3>1. from + i - 1 \in from .. to
      BY <1>1, <1>3, <2>2
    <3> QED
      BY <2>1, <2>2, <3>1
  <2> QED
    BY <2>3 DEF Blank, Over, Text, ToSet, WhiteSpace, s
<1> QED
  BY <1>1, <1>2, <1>3

LEMMA NothingLost ==
  ASSUME ScanInv
  PROVE  NothingIsLost
<1>1. Rest \in 1 .. Len(file) + 1 /\ Len(file) \in Nat /\ Len(tokens) \in Nat /\ file \in Seq(Runes)
  BY RestIsPlace DEF ScanInv
<1>2. ASSUME NEW k \in 1 .. Len(tokens)
      PROVE  Blank(FirstAfter(k - 1), tokens[k].from - 1)
  <2>1. tokens[k].from \in 1 .. Len(file) + 1 /\ FirstAfter(k - 1) \in Nat \ {0}
    <3>1. \A j \in 1 .. Len(tokens) :
            tokens[j].from \in 1 .. Len(file) + 1 /\ tokens[j].to \in Nat
      BY <1>1 DEF ScanInv, Lexemes
    <3>2. k - 1 = 0 \/ k - 1 \in 1 .. Len(tokens)
      BY <1>1
    <3> QED
      BY <3>1, <3>2 DEF FirstAfter
  <2>2. \A i \in FirstAfter(k - 1) .. tokens[k].from - 1 : file[i] \in WhiteSpace
    BY DEF ScanInv, Between
  <2>3. tokens[k].from - 1 \in 0 .. Len(file)
    BY <1>1, <2>1
  <2> QED
    BY <1>1, <2>1, <2>2, <2>3, BlankText
<1>3. ASSUME action = "end", errors = << >>
      PROVE  \E n \in Rest .. Len(file) + 1 :
               /\ Blank(Rest, n - 1)
               /\ n = Len(file) + 1 \/ OpenComment(Text(n, Len(file)))
  <2>1. PICK n \in Rest .. Len(file) + 1 :
          /\ BlankUpTo(n - 1)
          /\ n = Len(file) + 1 \/ OpenComment(Text(n, Len(file)))
    BY <1>3 DEF ScanInv, Begun, Exhausted
  <2>2. n - 1 \in 0 .. Len(file) /\ Rest \in Nat \ {0}
    BY <1>1
  <2>3. Blank(Rest, n - 1)
    BY <1>1, <2>1, <2>2, BlankText DEF BlankUpTo
  <2> QED
    BY <2>1, <2>3
<1> QED
  BY <1>2, <1>3 DEF NothingIsLost, Rest

-----------------------------------------------------------------------------
(***************************************************************************)
(* Of any file, Tokenize passes over white space only between two tokens,  *)
(* and a scan that ends without an error ends with the file, or within a   *)
(* comment that nothing closes, although identifiers and numbers are       *)
(* backed up over and read again, and the consumer may stop anywhere.      *)
(***************************************************************************)
THEOREM NoRuneIsLost == Spec => []NothingIsLost
<1>1. Init => ScanInv
  BY InitScan
<1>2. ScanInv /\ [Next]_vars => ScanInv'
  BY IDLKeeps, SymbolKeeps, CommentKeeps, LineCommentKeeps, BlockCommentKeeps, IdentifierKeeps,
     NumberKeeps, StringKeeps, AnnotationKeeps, StutterKeeps DEF Next
<1>3. ScanInv => NothingIsLost
  BY NothingLost
<1> QED
  BY <1>1, <1>2, <1>3, PTL DEF Spec

-----------------------------------------------------------------------------
(***************************************************************************)
(* Tokens are lexemes.  What an action yields depends on the rune it was   *)
(* chosen for, which is long read by then.                                 *)
(***************************************************************************)

\* The rune an action was chosen for.
Opened ==
  /\ action \in {"annotation", "string", "symbol"} =>
       /\ read = start.at
       /\ file[read] = CASE action = "annotation" -> "at"
                         [] action = "string" -> "quote"
                         [] action = "symbol" -> "symbol"
  /\ action \in {"identifier", "number"} => read + 1 <= Len(file)
  /\ action = "identifier" => file[read + 1] = "letter"
  /\ action = "number" => file[read + 1] \in {"minus", "digit"}

LexInv == ScanInv /\ Opened /\ TokensAreLexemes

\* The runes of a text.
LEMMA TextRunes ==
  ASSUME file \in Seq(Runes), NEW from \in 1 .. Len(file), NEW to \in from .. Len(file)
  PROVE  /\ Text(from, to) \in Seq(Runes)
         /\ Len(Text(from, to)) = to - from + 1
         /\ \A i \in 1 .. to - from + 1 : Text(from, to)[i] = file[from + i - 1]
<1>1. Len(file) \in Nat /\ from \in Nat /\ from >= 1 /\ to \in Nat /\ to <= Len(file) /\ from <= to
  OBVIOUS
<1>2. \A i \in from .. to : file[i] \in Runes
  BY <1>1
<1> QED
  BY <1>1, <1>2 DEF Text

LEMMA OverEach ==
  ASSUME NEW s \in Seq(Runes), NEW class, \A i \in 1 .. Len(s) : s[i] \in class
  PROVE  Over(s, class)
<1>1. DOMAIN s = 1 .. Len(s)
  OBVIOUS
<1> QED
  BY <1>1 DEF Over, ToSet

\* Only the token that is yielded is new.
LEMMA YieldsLexeme ==
  ASSUME ScanInv, TokensAreLexemes, NEW s, NEW type, NEW n, NEW after,
         YieldFrom(s, type, n, after), file' = file, IsLexeme(type, Text(s.at, n))
  PROVE  TokensAreLexemes'
<1> DEFINE t == [type |-> type, from |-> s.at, to |-> n, pos |-> s.pos]
<1>1. tokens' = Append(tokens, t) /\ t.type = type /\ t.from = s.at /\ t.to = n
  BY DEF YieldFrom
<1>2. PICK S : tokens \in Seq(S)
  BY DEF ScanInv
<1> HIDE DEF t
<1>3. ToSet(tokens') = ToSet(tokens) \cup {t}
  BY <1>1, <1>2 DEF ToSet
<1>4. \A u \in ToSet(tokens) : IsLexeme(u.type, Text(u.from, u.to))
  BY DEF TokensAreLexemes
<1>5. \A from, to : Text(from, to)' = Text(from, to)
  BY DEF Text
<1>6. \A u \in ToSet(tokens') : IsLexeme(u.type, Text(u.from, u.to))
  BY <1>1, <1>3, <1>4
<1> QED
  BY <1>6 DEF TokensAreLexemes, Text

LEMMA QuietLexemes ==
  ASSUME TokensAreLexemes, tokens' = tokens, file' = file
  PROVE  TokensAreLexemes'
BY DEF TokensAreLexemes, Text

\* copyIf stops before a rune that is not of the class.
LEMMA LastOfStops ==
  ASSUME file \in Seq(Runes), read \in 0 .. Len(file), NEW class
  PROVE  LastOf(class) = Len(file) \/ file[LastOf(class) + 1] \notin class
<1> DEFINE stops == {i \in read + 1 .. Len(file) : file[i] \notin class}
<1>1. Len(file) \in Nat /\ read \in Nat
  OBVIOUS
<1>2. CASE stops = {}
  BY <1>2 DEF LastOf
<1>3. CASE stops # {}
  <2>1. stops \in SUBSET Nat
    BY <1>1
  <2>2. LastOf(class) = Min(stops) - 1
    BY <1>3 DEF LastOf
  <2>3. Min(stops) \in stops
    BY <1>3, <2>1, MinIsLeast
  <2>4. Min(stops) \in Nat /\ file[Min(stops)] \notin class
    BY <1>1, <2>3
  <2> HIDE DEF stops
  <2> QED
    BY <1>1, <2>2, <2>4
<1> QED
  BY <1>2, <1>3

LEMMA IdentifierLexeme ==
  ASSUME file \in Seq(Runes), NEW from \in 1 .. Len(file), NEW to \in from .. Len(file),
         file[from] = "letter",
         \A i \in from .. to : file[i] \in {"letter", "digit", "dot"}
  PROVE  IsLexeme("identifier", Text(from, to))
<1> DEFINE s == Text(from, to)
<1>1. Len(file) \in Nat /\ from \in Nat /\ to \in Nat /\ from <= to
  OBVIOUS
<1>2. s \in Seq(Runes) /\ Len(s) = to - from + 1
      /\ \A i \in 1 .. to - from + 1 : s[i] = file[from + i - 1]
  BY TextRunes
<1> HIDE DEF s
<1>3. s[1] = "letter"
  BY <1>1, <1>2
<1>4. ASSUME NEW i \in 1 .. Len(s) PROVE s[i] \in {"letter", "digit", "dot"}
  <2>1. from + i - 1 \in from .. to
    BY <1>1, <1>2
  <2> QED
    BY <1>2, <2>1
<1>5. Over(s, {"letter", "digit", "dot"})
  BY <1>2, <1>4, OverEach
<1> QED
  BY <1>3, <1>5 DEF IsLexeme, s

LEMMA AnnotationLexeme ==
  ASSUME file \in Seq(Runes), NEW from \in 1 .. Len(file), NEW to \in from + 1 .. Len(file),
         file[from] = "at",
         \A i \in from + 1 .. to : file[i] \in {"letter", "digit", "dot", "minus"}
  PROVE  IsLexeme("annotation", Text(from, to))
<1> DEFINE s == Text(from, to)
           rest == Tail(s)
<1>1. Len(file) \in Nat /\ from \in Nat /\ to \in Nat /\ from + 1 <= to
  OBVIOUS
<1>2. s \in Seq(Runes) /\ Len(s) = to - from + 1
      /\ \A i \in 1 .. to - from + 1 : s[i] = file[from + i - 1]
  BY <1>1, TextRunes
<1> HIDE DEF s
<1>3. s[1] = "at"
  BY <1>1, <1>2
<1>4. rest \in Seq(Runes) /\ Len(rest) = to - from /\ \A i \in 1 .. to - from : rest[i] = s[i + 1]
  <2>1. s # << >>
    BY <1>1, <1>2
  <2> QED
    BY <1>1, <1>2, <2>1
<1> HIDE DEF rest
<1>5. ASSUME NEW i \in 1 .. Len(rest) PROVE rest[i] \in {"letter", "digit", "dot", "minus"}
  <2>1. from + i \in from + 1 .. to /\ i + 1 \in 1 .. to - from + 1 /\ from + (i + 1) - 1 = from + i
    BY <1>1, <1>4
  <2>2. rest[i] = file[from + i]
    BY <1>1, <1>2, <1>4, <2>1
  <2> QED
    BY <2>1, <2>2
<1>6. Over(rest, {"letter", "digit", "dot", "minus"}) /\ rest # << >>
  BY <1>1, <1>4, <1>5, OverEach
<1> QED
  BY <1>3, <1>6 DEF IsLexeme, rest, s

\* Digits with at most one dot between them.
LEMMA DigitsAndDot ==
  ASSUME NEW s \in Seq(Runes), Len(s) > 0, s[1] = "digit", s[Len(s)] = "digit",
         \A i \in 1 .. Len(s) :
           s[i] = "digit" \/ (s[i] = "dot" /\ \A j \in 1 .. i - 1 : s[j] # "dot")
  PROVE  IsDecimal(s)
<1>1. Len(s) \in Nat
  OBVIOUS
<1>2. CASE \A i \in 1 .. Len(s) : s[i] = "digit"
  BY <1>1, <1>2, OverEach DEF IsDecimal
<1>3. CASE \E i \in 1 .. Len(s) : s[i] # "digit"
  <2>1. PICK i \in 1 .. Len(s) : s[i] # "digit"
    BY <1>3
  <2>2. s[i] = "dot" /\ i # 1 /\ i # Len(s)
    BY <1>1, <2>1
  <2>3. i \in 2 .. Len(s) - 1
    BY <1>1, <2>2
  <2> DEFINE a == SubSeq(s, 1, i - 1)
             b == SubSeq(s, i + 1, Len(s))
  <2>4. \A j \in 1 .. Len(s) : j # i => s[j] = "digit"
    <3> SUFFICES ASSUME NEW j \in 1 .. Len(s), j # i, s[j] # "digit" PROVE FALSE
      OBVIOUS
    <3>1. s[j] = "dot"
      OBVIOUS
    <3>2. i < j \/ j < i
      BY <1>1
    <3> QED
      BY <1>1, <2>2, <3>1, <3>2
  <2>5. a \in Seq(Runes) /\ Len(a) = i - 1 /\ \A j \in 1 .. i - 1 : a[j] = s[j]
    BY <1>1, <2>3
  <2>6. /\ b \in Seq(Runes) /\ Len(b) = Len(s) - i
        /\ \A j \in 1 .. Len(s) - i : b[j] = s[i + j]
    BY <1>1, <2>3
  <2> HIDE DEF a, b
  <2>7. \A j \in 1 .. Len(a) : a[j] = "digit"
    BY <1>1, <2>3, <2>4, <2>5
  <2>8. \A j \in 1 .. Len(b) : b[j] = "digit"
    BY <1>1, <2>3, <2>4, <2>6
  <2>9. a \o b \in Seq(Runes) /\ \A j \in 1 .. Len(a \o b) : (a \o b)[j] \in {"digit"}
    BY <2>5, <2>6, <2>7, <2>8
  <2>10. Over(a \o b, {"digit"})
    BY <2>9, OverEach
  <2> QED
    BY <2>2, <2>3, <2>10 DEF IsDecimal, a, b
<1> QED
  BY <1>2, <1>3

\* The runes tokenizeNumber copies.
LEMMA NumberRunes ==
  ASSUME file \in Seq(Runes), NEW from \in 1 .. Len(file), from = Here.at,
         file[from] \in {"minus", "digit"}
  PROVE  /\ NumberEnd \in from .. Len(file)
         /\ \A i \in from .. NumberEnd :
              \/ file[i] = "digit"
              \/ i = from /\ file[i] = "minus"
              \/ file[i] = "dot" /\ i # from /\ \A j \in from .. i - 1 : file[j] # "dot"
<1> DEFINE inNumber(i) ==
             \/ file[i] = "digit"
             \/ i = Here.at /\ file[i] = "minus"
             \/ /\ file[i] = "dot"
                /\ i # Here.at
                /\ \A j \in Here.at .. i - 1 : file[j] # "dot"
           stops == {i \in Here.at .. Len(file) : ~inNumber(i)}
<1>1. NumberEnd = IF stops = {} THEN Len(file) ELSE Min(stops) - 1
  BY DEF NumberEnd
<1>2. Len(file) \in Nat /\ from \in Nat /\ inNumber(from) /\ from <= Len(file)
  OBVIOUS
<1>3. stops = {i \in from .. Len(file) : ~inNumber(i)}
  OBVIOUS
<1>4. \A i \in from .. NumberEnd : inNumber(i)
  <2> HIDE DEF inNumber
  <2>1. CASE stops = {}
    BY <1>1, <1>3, <2>1
  <2>2. CASE stops # {}
    <3>1. stops \in SUBSET Nat
      BY <1>2, <1>3
    <3>2. Min(stops) \in stops /\ \A n \in stops : Min(stops) <= n
      BY <2>2, <3>1, MinIsLeast
    <3>3. Min(stops) \in from .. Len(file)
      BY <1>3, <3>2
    <3> DEFINE m == Min(stops)
    <3> HIDE DEF m
    <3>4. SUFFICES ASSUME NEW i \in from .. m - 1 PROVE inNumber(i)
      BY <1>1, <2>2 DEF m
    <3>5. i \in from .. Len(file) /\ ~(m <= i)
      BY <1>2, <3>3 DEF m
    <3> QED
      BY <1>3, <3>2, <3>5 DEF m
  <2> QED
    BY <2>1, <2>2
<1>5. NumberEnd \in from .. Len(file)
  <2> HIDE DEF inNumber
  <2>1. CASE stops = {}
    BY <1>1, <1>2, <2>1
  <2>2. CASE stops # {}
    <3>1. stops \in SUBSET Nat
      BY <1>2, <1>3
    <3>2. Min(stops) \in stops
      BY <2>2, <3>1, MinIsLeast
    <3>3. Min(stops) \in from .. Len(file) /\ Min(stops) # from
      BY <1>2, <1>3, <3>2
    <3> QED
      BY <1>1, <1>2, <2>2, <3>3
  <2> QED
    BY <2>1, <2>2
<1> QED
  BY <1>4, <1>5

LEMMA NumberText ==
  ASSUME file \in Seq(Runes), NEW from \in 1 .. Len(file), NEW to \in from .. Len(file),
         file[from] \in {"minus", "digit"}, file[to] \notin {"minus", "dot"},
         ~(to > from /\ file[from] = "minus" /\ file[from + 1] = "dot"),
         \A i \in from .. to :
           \/ file[i] = "digit"
           \/ i = from /\ file[i] = "minus"
           \/ file[i] = "dot" /\ i # from /\ \A j \in from .. i - 1 : file[j] # "dot"
  PROVE  IsLexeme("number", Text(from, to))
<1> DEFINE s == Text(from, to)
           rest == Tail(s)
<1>4. Len(file) \in Nat /\ from \in Nat /\ to \in Nat /\ from <= to
  OBVIOUS
<1>5. /\ s \in Seq(Runes) /\ Len(s) = to - from + 1
      /\ \A i \in 1 .. to - from + 1 : s[i] = file[from + i - 1]
  BY TextRunes
<1> HIDE DEF s
<1>6. file[to] = "digit"
  BY <1>4
<1>7. CASE file[from] = "digit"
  <2>1. s[1] = "digit" /\ s[Len(s)] = "digit" /\ Len(s) > 0
    BY <1>4, <1>5, <1>6, <1>7
  <2>2. ASSUME NEW i \in 1 .. Len(s)
        PROVE  s[i] = "digit" \/ (s[i] = "dot" /\ \A j \in 1 .. i - 1 : s[j] # "dot")
    <3>1. from + i - 1 \in from .. to /\ s[i] = file[from + i - 1]
      BY <1>4, <1>5
    <3>2. \A j \in 1 .. i - 1 : s[j] = file[from + j - 1] /\ from + j - 1 \in from .. (from + i - 1) - 1
      BY <1>4, <1>5
    <3>3. file[from + i - 1] = "digit" \/
            /\ file[from + i - 1] = "dot"
            /\ \A j \in from .. (from + i - 1) - 1 : file[j] # "dot"
      BY <1>7, <3>1
    <3> QED
      BY <3>1, <3>2, <3>3
  <2>3. IsDecimal(s)
    BY <1>5, <2>1, <2>2, DigitsAndDot
  <2> QED
    BY <2>3 DEF IsLexeme, s
<1>8. CASE file[from] = "minus"
  <2>1. from < to /\ file[from + 1] # "dot"
    BY <1>4, <1>6, <1>8
  <2>2. rest \in Seq(Runes) /\ Len(rest) = to - from /\ \A i \in 1 .. to - from : rest[i] = s[i + 1]
    <3>1. s # << >>
      BY <1>4, <1>5
    <3> QED
      BY <1>4, <1>5, <3>1
  <2> HIDE DEF rest
  <2>3. ASSUME NEW i \in 1 .. to - from
        PROVE  rest[i] = file[from + i] /\ from + i \in from .. to /\ from + i # from
    <3>1. i + 1 \in 1 .. to - from + 1 /\ from + (i + 1) - 1 = from + i
      BY <1>4
    <3> QED
      BY <1>4, <1>5, <2>2, <3>1
  <2>4. file[from + 1] = "digit"
    BY <1>4, <2>1
  <2>5. rest[1] = "digit" /\ rest[Len(rest)] = "digit" /\ Len(rest) > 0
    <3>1. 1 \in 1 .. to - from /\ to - from \in 1 .. to - from /\ from + (to - from) = to
      BY <1>4, <2>1
    <3> QED
      BY <1>4, <1>6, <2>1, <2>2, <2>3, <2>4, <3>1
  <2>6. ASSUME NEW i \in 1 .. Len(rest)
        PROVE  rest[i] = "digit" \/ (rest[i] = "dot" /\ \A j \in 1 .. i - 1 : rest[j] # "dot")
    <3>1. rest[i] = file[from + i] /\ from + i \in from .. to /\ from + i # from
      BY <2>2, <2>3
    <3>2. \A j \in 1 .. i - 1 : rest[j] = file[from + j] /\ from + j \in from .. (from + i) - 1
      BY <1>4, <2>2, <2>3
    <3> QED
      BY <3>1, <3>2
  <2>7. IsDecimal(rest)
    BY <2>2, <2>5, <2>6, DigitsAndDot
  <2>8. s[1] = "minus"
    BY <1>4, <1>5, <1>8
  <2> QED
    BY <2>7, <2>8 DEF IsLexeme, s, rest
<1> QED
  BY <1>7, <1>8

LEMMA NumberLexeme ==
  ASSUME file \in Seq(Runes), NEW from \in 1 .. Len(file), from = Here.at,
         file[from] \in {"minus", "digit"}, IsNumber(NumberEnd)
  PROVE  IsLexeme("number", Text(from, NumberEnd))
<1>1. PICK to : to = NumberEnd
  OBVIOUS
<1>2. /\ to \in from .. Len(file)
      /\ \A i \in from .. to :
           \/ file[i] = "digit"
           \/ i = from /\ file[i] = "minus"
           \/ file[i] = "dot" /\ i # from /\ \A j \in from .. i - 1 : file[j] # "dot"
  BY <1>1, NumberRunes
<1>3. /\ file[to] \notin {"minus", "dot"}
      /\ ~(to > from /\ file[from] = "minus" /\ file[from + 1] = "dot")
  BY <1>1 DEF IsNumber
<1> QED
  BY <1>1, <1>2, <1>3, NumberText

\* A string from its quote to the first one that is not escaped.
LEMMA StringLexeme ==
  ASSUME file \in Seq(Runes), read \in 1 .. Len(file), file[read] = "quote", Quotes # {}
  PROVE  IsLexeme("string", Text(read, Min(Quotes)))
<1> DEFINE Escaped(i) == FoldLeft(EscapedAfter, FALSE, SubSeq(file, read + 1, i - 1))
<1>0. Quotes = {i \in read + 1 .. Len(file) : file[i] = "quote" /\ ~Escaped(i)}
  BY DEF Quotes
<1> HIDE DEF Escaped
<1>1. Len(file) \in Nat /\ read \in Nat /\ Quotes \in SUBSET Nat
  BY <1>0
<1>2. PICK n : n = Min(Quotes)
  OBVIOUS
<1>3. n \in Quotes /\ \A i \in Quotes : n <= i
  BY <1>1, <1>2, MinIsLeast
<1>4. /\ n \in read + 1 .. Len(file) /\ file[n] = "quote" /\ ~Escaped(n)
      /\ \A i \in read + 1 .. n - 1 : file[i] = "quote" => Escaped(i)
  BY <1>0, <1>1, <1>3
<1> DEFINE s == Text(read, n)
           inner == SubSeq(s, 2, Len(s) - 1)
<1>5. /\ s \in Seq(Runes) /\ Len(s) = n - read + 1
      /\ \A i \in 1 .. n - read + 1 : s[i] = file[read + i - 1]
  BY <1>1, <1>4, TextRunes
<1>6. \A k \in 1 .. n - read : SubSeq(s, 2, k) = SubSeq(file, read + 1, read + k - 1)
  BY <1>1, <1>4, <1>5
<1> HIDE DEF s
<1>7. inner = SubSeq(file, read + 1, n - 1)
  BY <1>1, <1>4, <1>5, <1>6
<1>8. /\ Len(inner) = n - read - 1
      /\ \A i \in 1 .. n - read - 1 : inner[i] = file[read + i]
  BY <1>1, <1>4, <1>7
<1>9. \A i \in 1 .. n - read - 1 : SubSeq(inner, 1, i - 1) = SubSeq(file, read + 1, (read + i) - 1)
  BY <1>1, <1>4, <1>7
<1> HIDE DEF inner
<1>10. IsUnescaped(inner)
  <2> SUFFICES ASSUME NEW i \in 1 .. Len(inner), inner[i] = "quote"
               PROVE  FoldLeft(EscapedAfter, FALSE, SubSeq(inner, 1, i - 1))
    BY DEF IsUnescaped
  <2>1. i \in 1 .. n - read - 1 /\ read + i \in read + 1 .. n - 1
    BY <1>1, <1>4, <1>8
  <2>2. Escaped(read + i)
    BY <1>4, <1>8, <2>1
  <2> QED
    BY <1>9, <2>1, <2>2 DEF Escaped
<1>11. ~FoldLeft(EscapedAfter, FALSE, inner)
  BY <1>4, <1>7 DEF Escaped
<1>12. Len(s) > 1 /\ s[1] = "quote" /\ Last(s) = "quote"
  BY <1>1, <1>4, <1>5 DEF Last
<1> QED
  BY <1>2, <1>10, <1>11, <1>12 DEF IsLexeme, inner, s

\* A // comment up to the newline that ends it.
LEMMA LineLexeme ==
  ASSUME file \in Seq(Runes), NEW from \in 1 .. Len(file), NEW to \in from + 1 .. Len(file),
         file[from] = "slash", file[from + 1] = "slash",
         \A i \in from + 2 .. to : file[i] # "newline"
  PROVE  IsLexeme("comment", Text(from, to))
<1> DEFINE s == Text(from, to)
<1>1. Len(file) \in Nat /\ from \in Nat /\ to \in Nat /\ from + 1 <= to
  OBVIOUS
<1>2. /\ s \in Seq(Runes) /\ Len(s) = to - from + 1
      /\ \A i \in 1 .. to - from + 1 : s[i] = file[from + i - 1]
  BY <1>1, TextRunes
<1> HIDE DEF s
<1>3. s[1] = "slash" /\ s[2] = "slash" /\ Len(s) >= 2
  BY <1>1, <1>2
<1>4. IsPrefix(<<"slash", "slash">>, s)
  BY <1>2, <1>3 DEF IsPrefix
<1>5. ~Contains(s, "newline")
  <2> SUFFICES ASSUME NEW i \in 1 .. Len(s) PROVE s[i] # "newline"
    BY DEF Contains
  <2>1. CASE i \in {1, 2}
    BY <1>3, <2>1
  <2>2. CASE i \notin {1, 2}
    <3>1. from + i - 1 \in from + 2 .. to
      BY <1>1, <1>2, <2>2
    <3> QED
      BY <1>2, <3>1
  <2> QED
    BY <2>1, <2>2
<1> QED
  BY <1>4, <1>5 DEF IsLexeme, s

\* A block comment up to its first closing.
LEMMA BlockLexeme ==
  ASSUME file \in Seq(Runes), NEW from \in 1 .. Len(file), NEW to \in from + 3 .. Len(file),
         file[from] = "slash", file[from + 1] = "star", file[to - 1] = "star", file[to] = "slash",
         \A i \in from + 3 .. to - 1 : ~(file[i - 1] = "star" /\ file[i] = "slash"),
         NEW type \in {"doc", "comment"},
         (type = "doc") = (to - from >= 4 /\ file[from + 2] = "star")
  PROVE  IsLexeme(type, Text(from, to))
<1> DEFINE s == Text(from, to)
           body == SubSeq(s, 3, Len(s) - 1)
<1>1. Len(file) \in Nat /\ from \in Nat /\ to \in Nat /\ from + 3 <= to
  OBVIOUS
<1>2. /\ s \in Seq(Runes) /\ Len(s) = to - from + 1
      /\ \A i \in 1 .. to - from + 1 : s[i] = file[from + i - 1]
  BY <1>1, TextRunes
<1> HIDE DEF s
<1>3. s[1] = "slash" /\ s[2] = "star" /\ Len(s) >= 4
  BY <1>1, <1>2
<1>4. s[Len(s) - 1] = "star" /\ s[Len(s)] = "slash"
  BY <1>1, <1>2
<1>5. IsPrefix(<<"slash", "star">>, s)
  BY <1>2, <1>3 DEF IsPrefix
<1>6. IsSuffix(<<"star", "slash">>, s)
  <2> DEFINE r == Reverse(s)
             e == Reverse(<<"star", "slash">>)
  <2>1. r \in Seq(Runes) /\ Len(r) = Len(s) /\ r[1] = "slash" /\ r[2] = "star"
    BY <1>2, <1>3, <1>4 DEF Reverse
  <2>2. e = <<"slash", "star">>
    BY DEF Reverse
  <2> HIDE DEF r, e
  <2>3. IsPrefix(e, r)
    BY <1>3, <2>1, <2>2 DEF IsPrefix
  <2> QED
    BY <2>3 DEF IsSuffix, r, e
<1>7. /\ Len(body) = to - from - 2
      /\ \A i \in 1 .. to - from - 2 : body[i] = file[from + i + 1]
  BY <1>1, <1>2
<1> HIDE DEF body
<1>8. HasNoClosing(body)
  <2> SUFFICES ASSUME NEW i \in 1 .. Len(body) - 1, body[i] = "star", body[i + 1] = "slash"
               PROVE  FALSE
    BY DEF HasNoClosing
  <2>1. i \in 1 .. to - from - 2 /\ i + 1 \in 1 .. to - from - 2 /\ from + i + 2 \in from + 3 .. to - 1
    BY <1>1, <1>7
  <2>2. body[i] = file[from + i + 1] /\ body[i + 1] = file[from + (i + 1) + 1]
    BY <1>7, <2>1
  <2>3. (from + i + 2) - 1 = from + i + 1 /\ from + (i + 1) + 1 = from + i + 2
    BY <1>1, <2>1
  <2> QED
    BY <2>1, <2>2, <2>3
<1>9. (type = "doc") = (Len(s) > 4 /\ s[3] = "star")
  <2>1. s[3] = file[from + 2] /\ (Len(s) > 4) = (to - from >= 4)
    BY <1>1, <1>2
  <2> QED
    BY <2>1
<1> QED
  BY <1>3, <1>5, <1>6, <1>8, <1>9 DEF IsLexeme, s, body

-----------------------------------------------------------------------------
\* Outside the scan of a token nothing is known of its first rune.
LEMMA NothingOpened ==
  ASSUME action' \notin {"annotation", "string", "symbol", "identifier", "number"}
  PROVE  Opened'
BY DEF Opened

LEMMA IDLLexemes ==
  ASSUME LexInv, TokenizeIDL
  PROVE  Opened' /\ TokensAreLexemes'
<1>1. PICK n : n = LastOf(WhiteSpace)
  OBVIOUS
<1>2. PICK rune : rune = file[n + 1]
  OBVIOUS
<1>3. file \in Seq(Runes) /\ read \in 0 .. Len(file) /\ Len(file) \in Nat /\ TokensAreLexemes
  BY DEF LexInv, ScanInv
<1>4. n \in read .. Len(file)
  BY <1>1, <1>3, LastOfClass
<1>5. file' = file /\ tokens' = tokens
  BY DEF TokenizeIDL, EndQuietly, FailWith
<1>6. TokensAreLexemes'
  BY <1>3, <1>5, QuietLexemes
<1>7. CASE AtEnd(n) \/ rune \in {"space", "newline", "star", "backslash", "dot", "other"}
  <2>1. action' = "end"
    BY <1>1, <1>2, <1>7 DEF TokenizeIDL, EndQuietly, FailWith, WhiteSpace
  <2> QED
    BY <1>6, <2>1, NothingOpened
<1>8. CASE ~(AtEnd(n) \/ rune \in {"space", "newline", "star", "backslash", "dot", "other"})
  <2>1. n + 1 \in 1 .. Len(file) /\ rune \in Runes
    BY <1>2, <1>3, <1>4, <1>8 DEF AtEnd
  <2>2. /\ start'.at = n + 1
        /\ read' = IF StaysRead(rune) THEN n + 1 ELSE n
        /\ action' = CASE rune = "at" -> "annotation"
                       [] rune = "slash" -> "comment"
                       [] rune = "quote" -> "string"
                       [] rune = "symbol" -> "symbol"
                       [] rune = "letter" -> "identifier"
                       [] rune \in {"minus", "digit"} -> "number"
    <3>1. PICK here : here = MoveOver(pos, read + 1, n)
      OBVIOUS
    <3>2. /\ IF StaysRead(rune) THEN ReadTo(n + 1, Move(here, rune))
                               ELSE ReadTo(n, BackedUp(here, Move(here, rune)))
          /\ start' = [at |-> n + 1, pos |-> here]
          /\ action' = CASE rune = "at" -> "annotation"
                         [] rune = "slash" -> "comment"
                         [] rune = "quote" -> "string"
                         [] rune = "symbol" -> "symbol"
                         [] rune = "letter" -> "identifier"
                         [] rune \in {"minus", "digit"} -> "number"
      BY <1>1, <1>2, <1>8, <3>1 DEF TokenizeIDL, WhiteSpace
    <3>3. start'.at = n + 1
      BY <3>2
    <3>4. read' = IF StaysRead(rune) THEN n + 1 ELSE n
      BY <3>2 DEF ReadTo
    <3> QED
      BY <3>2, <3>3, <3>4
  <2>3. rune \in {"at", "slash", "quote", "symbol", "letter", "minus", "digit"}
    BY <1>8, <2>1 DEF Runes
  <2>4. CASE rune \in {"at", "quote", "symbol"}
    <3>1. read' = n + 1
      BY <2>2, <2>4 DEF StaysRead
    <3> QED
      BY <1>2, <1>5, <1>6, <2>2, <2>4, <3>1 DEF Opened
  <2>5. CASE rune = "slash"
    <3>1. action' = "comment"
      BY <2>2, <2>5
    <3> QED
      BY <1>6, <3>1, NothingOpened
  <2>6. CASE rune \in {"letter", "minus", "digit"}
    <3>1. read' = n /\ action' = IF rune = "letter" THEN "identifier" ELSE "number"
      BY <2>2, <2>6 DEF StaysRead
    <3>2. n + 1 <= Len(file) /\ file'[n + 1] = rune
      BY <1>2, <1>5, <2>1
    <3> QED
      BY <1>5, <1>6, <2>6, <3>1, <3>2 DEF Opened
  <2> QED
    BY <2>3, <2>4, <2>5, <2>6
<1> QED
  BY <1>7, <1>8

\* A token is yielded, and the next one begins.
LEMMA YieldOpens ==
  ASSUME LexInv, NEW s, NEW type, NEW n, NEW after \in {"idl", "end"},
         YieldFrom(s, type, n, after), file' = file, IsLexeme(type, Text(s.at, n))
  PROVE  Opened' /\ TokensAreLexemes'
<1>1. action' \in {"idl", "end", "stopped"}
  BY DEF YieldFrom
<1>2. TokensAreLexemes'
  BY YieldsLexeme DEF LexInv
<1> QED
  BY <1>1, <1>2, NothingOpened

LEMMA SymbolLexemes ==
  ASSUME LexInv, TokenizeSymbol
  PROVE  Opened' /\ TokensAreLexemes'
<1>1. action = "symbol" /\ file' = file /\ YieldFrom(start, "symbol", read, "idl")
  BY DEF TokenizeSymbol, YieldThen
<1>2. start.at \in 1 .. read /\ read \in 0 .. Len(file) /\ file \in Seq(Runes) /\ Len(file) \in Nat
  BY <1>1, StartedFacts DEF LexInv
<1>3. read = start.at /\ file[read] = "symbol"
  BY <1>1 DEF LexInv, Opened
<1>4. read \in 1 .. Len(file) /\ read \in read .. Len(file)
  BY <1>2, <1>3
<1> DEFINE s == Text(start.at, read)
<1>5. s \in Seq(Runes) /\ Len(s) = 1 /\ s[1] = "symbol"
  <2>1. /\ Text(read, read) \in Seq(Runes) /\ Len(Text(read, read)) = read - read + 1
        /\ \A i \in 1 .. read - read + 1 : Text(read, read)[i] = file[read + i - 1]
    BY <1>2, <1>4, TextRunes
  <2>2. read - read + 1 = 1 /\ read + 1 - 1 = read
    BY <1>4
  <2> QED
    BY <1>3, <2>1, <2>2
<1> HIDE DEF s
<1>6. s = <<"symbol">>
  BY <1>5
<1>7. IsLexeme("symbol", s)
  BY <1>6 DEF IsLexeme
<1> QED
  BY <1>1, <1>7, YieldOpens DEF s

LEMMA CommentLexemes ==
  ASSUME LexInv, TokenizeComment
  PROVE  Opened' /\ TokensAreLexemes'
<1>1. file' = file /\ tokens' = tokens /\ action' \in {"end", "line", "block"}
  BY DEF TokenizeComment, FailWith
<1> QED
  BY <1>1, NothingOpened, QuietLexemes DEF LexInv

LEMMA LineCommentLexemes ==
  ASSUME LexInv, TokenizeLineComment
  PROVE  Opened' /\ TokensAreLexemes'
<1>1. PICK n : n = LastOf(Runes \ {"newline"})
  OBVIOUS
<1>2. action = "line" /\ file' = file
  BY DEF TokenizeLineComment
<1>3. /\ start.at \in 1 .. read /\ read \in 0 .. Len(file) /\ file \in Seq(Runes)
      /\ Len(file) \in Nat /\ Started
  BY <1>2, StartedFacts DEF LexInv
<1>4. read = start.at + 1 /\ file[start.at] = "slash" /\ file[start.at + 1] = "slash"
  BY <1>2, <1>3 DEF Started
<1>5. n \in read .. Len(file) /\ \A i \in read + 1 .. n : file[i] \in Runes \ {"newline"}
  BY <1>1, <1>3, LastOfClass
<1>6. CASE AtEnd(n)
  <2>1. action' = "end" /\ tokens' = tokens
    BY <1>1, <1>6 DEF TokenizeLineComment, EndQuietly
  <2> QED
    BY <1>2, <2>1, NothingOpened, QuietLexemes DEF LexInv
<1>7. CASE ~AtEnd(n)
  <2>1. YieldFrom(start, "comment", n, "idl")
    BY <1>1, <1>7 DEF TokenizeLineComment, YieldThen
  <2>2. /\ start.at \in 1 .. Len(file) /\ n \in start.at + 1 .. Len(file)
        /\ \A i \in start.at + 2 .. n : file[i] # "newline"
    BY <1>3, <1>4, <1>5
  <2>3. IsLexeme("comment", Text(start.at, n))
    BY <1>3, <1>4, <2>2, LineLexeme
  <2> QED
    BY <1>2, <2>1, <2>3, YieldOpens
<1> QED
  BY <1>6, <1>7

LEMMA BlockCommentLexemes ==
  ASSUME LexInv, TokenizeBlockComment
  PROVE  Opened' /\ TokensAreLexemes'
<1>1. action = "block" /\ file' = file
  BY DEF TokenizeBlockComment
<1>2. /\ start.at \in 1 .. read /\ read \in 0 .. Len(file) /\ file \in Seq(Runes)
      /\ Len(file) \in Nat /\ Started
  BY <1>1, StartedFacts DEF LexInv
<1>3. read = start.at + 1 /\ file[start.at] = "slash" /\ file[start.at + 1] = "star"
  BY <1>1, <1>2 DEF Started
<1>4. CASE Closings = {}
  <2>1. action' = "end" /\ tokens' = tokens
    BY <1>4 DEF TokenizeBlockComment, EndQuietly
  <2> QED
    BY <1>1, <2>1, NothingOpened, QuietLexemes DEF LexInv
<1>5. CASE Closings # {}
  <2>1. PICK n : n = Min(Closings)
    OBVIOUS
  <2>2. Closings \in SUBSET Nat
    BY <1>2 DEF Closings
  <2>3. n \in Closings /\ \A i \in Closings : n <= i
    BY <1>5, <2>1, <2>2, MinIsLeast
  <2>4. PICK type : type = IF IsDoc(n) THEN "doc" ELSE "comment"
    OBVIOUS
  <2>5. YieldFrom(start, type, n, "idl")
    BY <1>5, <2>1, <2>4 DEF TokenizeBlockComment, YieldThen
  <2>6. PICK from : from = start.at
    OBVIOUS
  <2>7. from \in 1 .. Len(file) /\ read = from + 1 /\ from \in Nat
    BY <1>2, <1>3, <2>6
  <2>8. n \in from + 3 .. Len(file) /\ file[n - 1] = "star" /\ file[n] = "slash"
    BY <1>2, <2>3, <2>7 DEF Closings
  <2>9. ASSUME NEW i \in from + 3 .. n - 1 PROVE ~(file[i - 1] = "star" /\ file[i] = "slash")
    <3>1. i \in read + 2 .. Len(file) /\ ~(n <= i)
      BY <1>2, <2>7, <2>8
    <3>2. i \notin Closings
      BY <2>3, <3>1
    <3> QED
      BY <3>1, <3>2 DEF Closings
  <2>10. type \in {"doc", "comment"} /\ (type = "doc") = (n - from >= 4 /\ file[from + 2] = "star")
    BY <2>4, <2>6 DEF IsDoc
  <2>11. IsLexeme(type, Text(from, n))
    BY <1>2, <1>3, <2>6, <2>7, <2>8, <2>9, <2>10, BlockLexeme
  <2> QED
    BY <1>1, <2>5, <2>6, <2>11, YieldOpens
<1> QED
  BY <1>4, <1>5

LEMMA IdentifierLexemes ==
  ASSUME LexInv, TokenizeIdentifier
  PROVE  Opened' /\ TokensAreLexemes'
<1>1. PICK n : n = LastOf({"letter", "digit", "dot"})
  OBVIOUS
<1>2. /\ action = "identifier" /\ file' = file
      /\ YieldFrom(Here, "identifier", n, After(n))
  BY <1>1 DEF TokenizeIdentifier
<1>3. PICK from : from = read + 1
  OBVIOUS
<1>4. Here.at = from
  BY <1>3 DEF Here
<1>5. /\ file \in Seq(Runes) /\ read \in 0 .. Len(file) /\ Len(file) \in Nat
      /\ from \in 1 .. Len(file) /\ file[from] = "letter"
  BY <1>2, <1>3 DEF LexInv, ScanInv, Opened
<1>6. /\ n \in read .. Len(file) /\ \A i \in from .. n : file[i] \in {"letter", "digit", "dot"}
      /\ n = Len(file) \/ file[n + 1] \notin {"letter", "digit", "dot"}
  BY <1>1, <1>3, <1>5, LastOfClass, LastOfStops
<1>7. n \in from .. Len(file)
  BY <1>3, <1>5, <1>6
<1>8. IsLexeme("identifier", Text(Here.at, n))
  BY <1>4, <1>5, <1>6, <1>7, IdentifierLexeme
<1>9. After(n) \in {"idl", "end"}
  BY DEF After
<1> QED
  BY <1>2, <1>8, <1>9, YieldOpens

LEMMA NumberLexemes ==
  ASSUME LexInv, TokenizeNumber
  PROVE  Opened' /\ TokensAreLexemes'
<1>1. PICK n : n = NumberEnd
  OBVIOUS
<1>2. action = "number" /\ file' = file
  BY DEF TokenizeNumber
<1>3. PICK from : from = Here.at
  OBVIOUS
<1>4. from = read + 1
  BY <1>3 DEF Here
<1>5. /\ file \in Seq(Runes) /\ read \in 0 .. Len(file) /\ Len(file) \in Nat
      /\ from \in 1 .. Len(file) /\ file[from] \in {"minus", "digit"}
  BY <1>2, <1>4 DEF LexInv, ScanInv, Opened
<1>6. CASE IsNumber(n)
  <2>1. YieldFrom(Here, "number", n, After(n))
    BY <1>1, <1>6 DEF TokenizeNumber
  <2>2. IsLexeme("number", Text(Here.at, n))
    BY <1>1, <1>3, <1>5, <1>6, NumberLexeme
  <2>3. After(n) \in {"idl", "end"}
    BY DEF After
  <2> QED
    BY <1>2, <2>1, <2>2, <2>3, YieldOpens
<1>7. CASE ~IsNumber(n)
  <2>1. action' = "end" /\ tokens' = tokens
    BY <1>1, <1>7 DEF TokenizeNumber, FailWith
  <2> QED
    BY <1>2, <2>1, NothingOpened, QuietLexemes DEF LexInv
<1> QED
  BY <1>6, <1>7

LEMMA StringLexemes ==
  ASSUME LexInv, TokenizeString
  PROVE  Opened' /\ TokensAreLexemes'
<1>1. action = "string" /\ file' = file
  BY DEF TokenizeString
<1>2. /\ start.at \in 1 .. read /\ read \in 0 .. Len(file) /\ file \in Seq(Runes)
      /\ Len(file) \in Nat
  BY <1>1, StartedFacts DEF LexInv
<1>3. read = start.at /\ file[read] = "quote"
  BY <1>1 DEF LexInv, Opened
<1>4. read \in 1 .. Len(file)
  BY <1>2, <1>3
<1>5. CASE Quotes = {}
  <2>1. action' = "end" /\ tokens' = tokens
    BY <1>5 DEF TokenizeString, FailWith
  <2> QED
    BY <1>1, <2>1, NothingOpened, QuietLexemes DEF LexInv
<1>6. CASE Quotes # {}
  <2>1. PICK n : n = Min(Quotes)
    OBVIOUS
  <2>2. YieldFrom(start, "string", n, "idl")
    BY <1>6, <2>1 DEF TokenizeString, YieldThen
  <2>3. IsLexeme("string", Text(start.at, n))
    BY <1>2, <1>3, <1>4, <1>6, <2>1, StringLexeme
  <2> QED
    BY <1>1, <2>2, <2>3, YieldOpens
<1> QED
  BY <1>5, <1>6

LEMMA AnnotationLexemes ==
  ASSUME LexInv, TokenizeAnnotation
  PROVE  Opened' /\ TokensAreLexemes'
<1>1. PICK n : n = LastOf({"letter", "digit", "dot", "minus"})
  OBVIOUS
<1>2. action = "annotation" /\ file' = file
  BY DEF TokenizeAnnotation
<1>3. /\ start.at \in 1 .. read /\ read \in 0 .. Len(file) /\ file \in Seq(Runes)
      /\ Len(file) \in Nat
  BY <1>2, StartedFacts DEF LexInv
<1>4. read = start.at /\ file[read] = "at"
  BY <1>2 DEF LexInv, Opened
<1>5. n \in read .. Len(file) /\ \A i \in read + 1 .. n : file[i] \in {"letter", "digit", "dot", "minus"}
  BY <1>1, <1>3, LastOfClass
<1>6. CASE n = read
  <2>1. action' = "end" /\ tokens' = tokens
    BY <1>1, <1>6 DEF TokenizeAnnotation, FailWith
  <2> QED
    BY <1>2, <2>1, NothingOpened, QuietLexemes DEF LexInv
<1>7. CASE n # read
  <2>1. YieldFrom(start, "annotation", n, After(n))
    BY <1>1, <1>7 DEF TokenizeAnnotation, YieldThen
  <2>2. read \in 1 .. Len(file) /\ n \in read + 1 .. Len(file)
    BY <1>3, <1>4, <1>5, <1>7
  <2>3. IsLexeme("annotation", Text(start.at, n))
    BY <1>3, <1>4, <1>5, <2>2, AnnotationLexeme
  <2>4. After(n) \in {"idl", "end"}
    BY DEF After
  <2> QED
    BY <1>2, <2>1, <2>3, <2>4, YieldOpens
<1> QED
  BY <1>6, <1>7

LEMMA StutterLexemes ==
  ASSUME LexInv, UNCHANGED vars
  PROVE  Opened' /\ TokensAreLexemes'
BY QuietLexemes DEF vars, LexInv, Opened

LEMMA LexInvKept == LexInv /\ [Next]_vars => LexInv'
<1>1. LexInv /\ [Next]_vars => ScanInv'
  BY IDLKeeps, SymbolKeeps, CommentKeeps, LineCommentKeeps, BlockCommentKeeps, IdentifierKeeps,
     NumberKeeps, StringKeeps, AnnotationKeeps, StutterKeeps DEF Next, LexInv
<1>2. LexInv /\ [Next]_vars => Opened' /\ TokensAreLexemes'
  BY IDLLexemes, SymbolLexemes, CommentLexemes, LineCommentLexemes, BlockCommentLexemes,
     IdentifierLexemes, NumberLexemes, StringLexemes, AnnotationLexemes, StutterLexemes DEF Next
<1> QED
  BY <1>1, <1>2 DEF LexInv

(***************************************************************************)
(* Whatever the file holds, each token Tokenize yields is well formed:     *)
(* strings end at the first quote that is not escaped, block comments at   *)
(* their first closing, numbers have digits on both sides of their dot.    *)
(***************************************************************************)
THEOREM TokensAreWellFormed == Spec => []TokensAreLexemes
<1>1. Init => LexInv
  <2>1. Init => ScanInv
    BY InitScan
  <2>2. Init => Opened /\ TokensAreLexemes
    BY DEF Init, Opened, TokensAreLexemes, ToSet
  <2> QED
    BY <2>1, <2>2 DEF LexInv
<1>2. LexInv => TokensAreLexemes
  BY DEF LexInv
<1> QED
  BY <1>1, <1>2, LexInvKept, PTL DEF Spec

-----------------------------------------------------------------------------
(***************************************************************************)
(* Positions.  FoldLeft takes the greatest index off a set of indices; the *)
(* sets it visits are those of the first runes, so it moves over one rune  *)
(* after the other.                                                        *)
(***************************************************************************)
LEMMA MaxOfSome ==
  ASSUME NEW m \in Nat, NEW S \in SUBSET (1 .. m), S # {}
  PROVE  Max(S) \in S /\ \A n \in S : n <= Max(S)
<1> DEFINE Bounds == {b \in Nat : \A n \in S : n <= b}
<1>1. m \in Bounds
  OBVIOUS
<1>2. PICK b : b = Min(Bounds)
  OBVIOUS
<1>3. b \in Bounds /\ \A c \in Bounds : b <= c
  <2> HIDE DEF Bounds
  <2>1. Bounds \in SUBSET Nat
    BY DEF Bounds
  <2> QED
    BY <1>1, <1>2, <2>1, MinIsLeast
<1>4. b \in S
  <2> SUFFICES ASSUME b \notin S PROVE FALSE
    OBVIOUS
  <2>1. \A n \in S : n \in Nat /\ n < b /\ n >= 1
    BY <1>3
  <2>2. b >= 1 /\ b - 1 \in Nat
    <3>1. PICK n \in S : TRUE
      OBVIOUS
    <3>2. b \in Nat /\ n \in Nat /\ n < b /\ n >= 1
      BY <1>3, <2>1, <3>1
    <3> QED
      BY <3>2
  <2>3. b - 1 \in Bounds
    BY <1>3, <2>1, <2>2
  <2> QED
    BY <1>3, <2>2, <2>3
<1>5. \E k \in S : \A n \in S : k >= n
  BY <1>3, <1>4
<1>6. Max(S) \in S /\ \A n \in S : Max(S) >= n
  BY <1>5 DEF Max
<1> QED
  BY <1>6

\* What FoldLeft computes of each set of indices.
Folding(p, s, m, f) ==
  f = [S \in SUBSET (1 .. m) |-> IF S = {} THEN p ELSE Move(f[S \ {Max(S)}], s[Max(S)])]

LEMMA FoldingExists ==
  ASSUME NEW p, NEW s, NEW n \in Nat
  PROVE  \E f : Folding(p, s, n, f)
<1> DEFINE T == {m \in 0 .. n : ~\E f : Folding(p, s, m, f)}
<1> SUFFICES ASSUME T # {} PROVE FALSE
  OBVIOUS
<1>1. T \in SUBSET Nat
  OBVIOUS
<1> HIDE DEF T
<1>2. PICK m : m = Min(T)
  OBVIOUS
<1>3. m \in T /\ \A k \in T : m <= k
  BY <1>1, <1>2, MinIsLeast
<1>4. m \in 0 .. n /\ ~\E f : Folding(p, s, m, f)
  BY <1>3 DEF T
<1>5. m # 0
  <2> SUFFICES ASSUME m = 0 PROVE FALSE
    OBVIOUS
  <2> DEFINE f == [S \in SUBSET (1 .. 0) |-> p]
  <2>1. \A S \in SUBSET (1 .. 0) : S = {}
    OBVIOUS
  <2>2. f = [S \in SUBSET (1 .. 0) |-> IF S = {} THEN p ELSE Move(f[S \ {Max(S)}], s[Max(S)])]
    BY <2>1
  <2>3. Folding(p, s, 0, f)
    BY <2>2 DEF Folding
  <2> QED
    BY <1>4, <2>3
<1>6. m - 1 \in 0 .. n /\ m - 1 \notin T /\ m \in Nat /\ m >= 1
  BY <1>3, <1>4, <1>5
<1>7. PICK f : Folding(p, s, m - 1, f)
  BY <1>6 DEF T
<1> DEFINE step(S) == IF S = {} THEN p ELSE Move(f[S \ {Max(S)}], s[Max(S)])
           g == [S \in SUBSET (1 .. m) |-> step(S)]
<1>8. \A S \in SUBSET (1 .. m - 1) : f[S] = step(S) /\ S \in SUBSET (1 .. m)
  <2>1. 1 .. m - 1 \subseteq 1 .. m
    BY <1>6
  <2> QED
    BY <1>7, <2>1 DEF Folding
<1>9. \A S \in SUBSET (1 .. m - 1) : g[S] = f[S]
  BY <1>8
<1>10. ASSUME NEW S \in SUBSET (1 .. m), S # {}
       PROVE  S \ {Max(S)} \in SUBSET (1 .. m - 1)
  <2>1. Max(S) \in S /\ \A k \in S : k <= Max(S)
    BY <1>6, <1>10, MaxOfSome
  <2>2. ASSUME NEW k \in S, k # Max(S) PROVE k \in 1 .. m - 1
    <3>1. PICK x : x = Max(S)
      OBVIOUS
    <3>2. x \in 1 .. m /\ k \in 1 .. m /\ k <= x /\ k # x
      BY <2>1, <2>2, <3>1
    <3> QED
      BY <1>6, <3>2
  <2> QED
    BY <2>2
<1> HIDE DEF step, g
<1>11. ASSUME NEW S \in SUBSET (1 .. m)
       PROVE  step(S) = IF S = {} THEN p ELSE Move(g[S \ {Max(S)}], s[Max(S)])
  <2>1. S # {} => g[S \ {Max(S)}] = f[S \ {Max(S)}]
    BY <1>9, <1>10
  <2> QED
    BY <2>1 DEF step
<1>12. g = [S \in SUBSET (1 .. m) |-> IF S = {} THEN p ELSE Move(g[S \ {Max(S)}], s[Max(S)])]
  <2>1. g = [S \in SUBSET (1 .. m) |-> step(S)]
    BY DEF g
  <2> QED
    BY <1>11, <2>1
<1> QED
  BY <1>4, <1>12 DEF Folding

\* The positions before and after each rune of a text that begins at p.
Path(p, s, path) ==
  /\ path[0] = p
  /\ \A k \in 1 .. Len(s) : path[k] = Move(path[k - 1], s[k])

LEMMA FoldIsPath ==
  ASSUME NEW p, NEW s \in Seq(Runes)
  PROVE  \E path : Path(p, s, path) /\ FoldLeft(Move, p, s) = path[Len(s)]
<1> DEFINE n == Len(s)
           f == CHOOSE f : f = [S \in SUBSET (1 .. n) |->
                                  IF S = {} THEN p ELSE Move(f[S \ {Max(S)}], s[Max(S)])]
           path == [k \in 0 .. n |-> f[1 .. k]]
<1>1. n \in Nat /\ DOMAIN s = 1 .. n
  OBVIOUS
<1>2. FoldLeft(Move, p, s) = f[1 .. n]
  BY <1>1 DEF FoldLeft, MapThenFoldSet
<1> HIDE DEF n, path
<1>3. \E h : Folding(p, s, n, h)
  BY <1>1, FoldingExists
<1>4. Folding(p, s, n, f)
  BY <1>3 DEF Folding
<1> HIDE DEF f
<1>5. \A S \in SUBSET (1 .. n) : f[S] = IF S = {} THEN p ELSE Move(f[S \ {Max(S)}], s[Max(S)])
  BY <1>4 DEF Folding
<1>6. \A k \in 0 .. n : path[k] = f[1 .. k] /\ 1 .. k \in SUBSET (1 .. n)
  BY <1>1 DEF path
<1>7. path[0] = p
  <2>1. 0 \in 0 .. n /\ 1 .. 0 = {}
    BY <1>1
  <2> QED
    BY <1>5, <1>6, <2>1
<1>8. ASSUME NEW k \in 1 .. n
      PROVE  path[k] = Move(path[k - 1], s[k])
  <2>1. k \in 0 .. n /\ k - 1 \in 0 .. n /\ 1 .. k # {} /\ k \in Nat
    <3>1. k \in Nat /\ k >= 1 /\ k <= n
      BY <1>1
    <3>2. 1 .. k # {}
      BY <3>1
    <3>3. k \in 0 .. n
      BY <1>1, <3>1
    <3>4. k - 1 \in 0 .. n
      BY <1>1, <3>1
    <3> QED
      BY <3>1, <3>2, <3>3, <3>4
  <2>2. Max(1 .. k) = k
    <3>1. Max(1 .. k) \in 1 .. k /\ \A i \in 1 .. k : i <= Max(1 .. k)
      BY <2>1, MaxOfSome
    <3>2. k \in 1 .. k
      BY <1>1
    <3> QED
      BY <2>1, <3>1, <3>2
  <2>3. (1 .. k) \ {k} = 1 .. k - 1
    BY <2>1
  <2>4. f[1 .. k] = Move(f[1 .. k - 1], s[k])
    BY <1>5, <1>6, <2>1, <2>2, <2>3
  <2> QED
    BY <1>6, <2>1, <2>4
<1>9. Path(p, s, path)
  BY <1>7, <1>8 DEF Path, n
<1>10. FoldLeft(Move, p, s) = path[Len(s)]
  <2>1. n \in 0 .. n
    BY <1>1
  <2>2. path[n] = f[1 .. n]
    BY <1>6, <2>1
  <2> QED
    BY <1>2, <2>2 DEF n
<1> QED
  BY <1>9, <1>10

\* The same runes, as far as the first n of them.
Same(s, t, n) == n <= Len(s) /\ n <= Len(t) /\ \A i \in 1 .. n : s[i] = t[i]

LEMMA PathsAgree ==
  ASSUME NEW p, NEW s \in Seq(Runes), NEW t \in Seq(Runes), NEW a, NEW b,
         Path(p, s, a), Path(p, t, b), NEW n \in Nat, Same(s, t, n)
  PROVE  a[n] = b[n]
<1> DEFINE T == {k \in 0 .. n : a[k] # b[k]}
<1> SUFFICES ASSUME T # {} PROVE FALSE
  <2> SUFFICES ASSUME T = {} PROVE a[n] = b[n]
    OBVIOUS
  <2>1. n \in 0 .. n
    OBVIOUS
  <2> QED
    BY <2>1
<1>1. T \in SUBSET Nat
  OBVIOUS
<1> HIDE DEF T
<1>2. PICK m : m = Min(T)
  OBVIOUS
<1>3. m \in T /\ \A k \in T : m <= k
  BY <1>1, <1>2, MinIsLeast
<1>4. m \in 0 .. n /\ a[m] # b[m]
  BY <1>3 DEF T
<1>5. m # 0
  BY <1>4 DEF Path
<1>6. Len(s) \in Nat /\ Len(t) \in Nat
  OBVIOUS
<1>7. m \in 1 .. Len(s) /\ m \in 1 .. Len(t) /\ m \in 1 .. n /\ m - 1 \in 0 .. n /\ ~(m <= m - 1)
  BY <1>4, <1>5, <1>6 DEF Same
<1>8. a[m] = Move(a[m - 1], s[m]) /\ b[m] = Move(b[m - 1], t[m]) /\ s[m] = t[m]
  BY <1>7 DEF Path, Same
<1>9. a[m - 1] = b[m - 1]
  BY <1>3, <1>7 DEF T
<1> QED
  BY <1>4, <1>8, <1>9

\* MoveOver moves over no rune, or over the last one after those before it.
LEMMA MovedOn ==
  ASSUME file \in Seq(Runes), NEW p, NEW from \in Nat \ {0}, NEW to \in Nat,
         to <= Len(file), from <= to + 1
  PROVE  /\ to = from - 1 => MoveOver(p, from, to) = p
         /\ from <= to => MoveOver(p, from, to) = Move(MoveOver(p, from, to - 1), file[to])
<1> DEFINE text(n) == SubSeq(file, from, n)
<1>1. Len(file) \in Nat
  OBVIOUS
<1>2. ASSUME NEW n \in Nat, n <= Len(file), from <= n + 1
      PROVE  /\ text(n) \in Seq(Runes) /\ Len(text(n)) = n - from + 1
             /\ \A i \in 1 .. n - from + 1 : text(n)[i] = file[from + i - 1]
  BY <1>1, <1>2, SubSeqProperties
<1>3. PICK x : x = FoldLeft(Move, p, text(to)) /\ x = MoveOver(p, from, to)
  BY DEF MoveOver
<1>6. PICK y : y = FoldLeft(Move, p, text(to - 1)) /\ y = MoveOver(p, from, to - 1)
  BY DEF MoveOver
<1> HIDE DEF text
<1>4. CASE to = from - 1
  <2>1. text(to) \in Seq(Runes) /\ Len(text(to)) = 0
    BY <1>2, <1>4
  <2>2. PICK path : Path(p, text(to), path) /\ FoldLeft(Move, p, text(to)) = path[Len(text(to))]
    BY <2>1, FoldIsPath
  <2>3. x = path[0]
    BY <1>3, <2>1, <2>2
  <2>4. MoveOver(p, from, to) = p /\ ~(from <= to)
    BY <1>3, <1>4, <2>2, <2>3 DEF Path
  <2> QED
    BY <2>4
<1>5. CASE from <= to
  <2>1. to - 1 \in Nat /\ to - 1 <= Len(file) /\ from <= (to - 1) + 1
    BY <1>5
  <2>2. PICK n : n = to - from + 1
    OBVIOUS
  <2>3. n \in Nat /\ n >= 1 /\ n - 1 = (to - 1) - from + 1 /\ from + n - 1 = to
    BY <1>5, <2>2
  <2>4. /\ text(to) \in Seq(Runes) /\ Len(text(to)) = n
        /\ \A i \in 1 .. n : text(to)[i] = file[from + i - 1]
    BY <1>2, <2>2
  <2>5. /\ text(to - 1) \in Seq(Runes) /\ Len(text(to - 1)) = n - 1
        /\ \A i \in 1 .. n - 1 : text(to - 1)[i] = file[from + i - 1]
    <3>1. /\ text(to - 1) \in Seq(Runes) /\ Len(text(to - 1)) = (to - 1) - from + 1
          /\ \A i \in 1 .. (to - 1) - from + 1 : text(to - 1)[i] = file[from + i - 1]
      BY <1>2, <2>1
    <3> QED
      BY <2>3, <3>1
  <2>6. PICK a : Path(p, text(to), a) /\ x = a[n]
    BY <1>3, <2>4, FoldIsPath
  <2>7. PICK b : Path(p, text(to - 1), b) /\ y = b[n - 1]
    BY <1>6, <2>5, FoldIsPath
  <2>8. a[n - 1] = b[n - 1]
    <3>1. /\ n - 1 \in Nat /\ n - 1 <= Len(text(to)) /\ n - 1 <= Len(text(to - 1))
          /\ \A i \in 1 .. n - 1 : i \in 1 .. n
      BY <2>3, <2>4, <2>5
    <3>2. \A i \in 1 .. n - 1 : text(to)[i] = text(to - 1)[i]
      BY <2>4, <2>5, <3>1
    <3>3. PICK s, t, k : s = text(to) /\ t = text(to - 1) /\ k = n - 1
      OBVIOUS
    <3>4. /\ s \in Seq(Runes) /\ t \in Seq(Runes) /\ Path(p, s, a) /\ Path(p, t, b)
          /\ k \in Nat /\ Same(s, t, k)
      BY <2>4, <2>5, <2>6, <2>7, <3>1, <3>2, <3>3 DEF Same
    <3>5. a[k] = b[k]
      BY <3>4, PathsAgree
    <3> QED
      BY <3>3, <3>5
  <2>9. n \in 1 .. n /\ a[n] = Move(a[n - 1], text(to)[n]) /\ text(to)[n] = file[to]
    <3>1. n \in 1 .. n
      BY <2>3
    <3> QED
      BY <2>3, <2>4, <2>6, <3>1 DEF Path
  <2>10. x = Move(y, file[to])
    BY <2>6, <2>7, <2>8, <2>9
  <2>11. MoveOver(p, from, to) = Move(MoveOver(p, from, to - 1), file[to]) /\ to # from - 1
    BY <1>3, <1>5, <1>6, <2>10
  <2> QED
    BY <2>11
<1> QED
  BY <1>4, <1>5

Positions == [line : Nat, column : Nat]

LEMMA MoveType ==
  ASSUME NEW p \in Positions, NEW rune \in Runes
  PROVE  /\ Move(p, rune) \in Positions
         /\ rune = "newline" =>
              Move(p, rune).line = p.line + 1 /\ Move(p, rune).column = 1
         /\ rune # "newline" =>
              Move(p, rune).line = p.line /\ Move(p, rune).column = p.column + Size[rune]
         /\ Size[rune] \in Nat
         /\ rune \in {"star", "slash"} => Size[rune] = 1
BY SizeAssumption DEF Move, Positions, Runes

\* Where the first rune is, and where each other one after the one before.
LEMMA PositionFacts ==
  ASSUME file \in Seq(Runes)
  PROVE  /\ PositionOf(1) = StartOfFile
         /\ \A n \in 1 .. Len(file) : PositionOf(n + 1) = Move(PositionOf(n), file[n])
<1>1. Len(file) \in Nat
  OBVIOUS
<1>2. PositionOf(1) = StartOfFile
  <2>1. 1 - 1 = 0 /\ 0 <= Len(file) /\ 1 <= 0 + 1 /\ 0 = 1 - 1 /\ 1 \in Nat \ {0} /\ 0 \in Nat
    BY <1>1
  <2>2. MoveOver(StartOfFile, 1, 0) = StartOfFile
    BY <2>1, MovedOn
  <2> QED
    BY <2>1, <2>2 DEF PositionOf
<1>3. ASSUME NEW n \in 1 .. Len(file)
      PROVE  PositionOf(n + 1) = Move(PositionOf(n), file[n])
  <2>1. /\ (n + 1) - 1 = n /\ n \in Nat /\ n <= Len(file) /\ 1 <= n + 1 /\ 1 <= n
        /\ 1 \in Nat \ {0}
    BY <1>1
  <2>2. MoveOver(StartOfFile, 1, n) = Move(MoveOver(StartOfFile, 1, n - 1), file[n])
    BY <2>1, MovedOn
  <2> QED
    BY <2>1, <2>2 DEF PositionOf
<1> QED
  BY <1>2, <1>3

LEMMA PositionType ==
  ASSUME file \in Seq(Runes), NEW n \in 1 .. Len(file) + 1
  PROVE  PositionOf(n) \in Positions
<1> DEFINE T == {k \in 1 .. Len(file) + 1 : PositionOf(k) \notin Positions}
<1> SUFFICES ASSUME T # {} PROVE FALSE
  OBVIOUS
<1>0. Len(file) \in Nat
  OBVIOUS
<1>1. T \in SUBSET Nat
  BY <1>0
<1> HIDE DEF T
<1>2. PICK m : m = Min(T)
  OBVIOUS
<1>3. m \in T /\ \A k \in T : m <= k
  BY <1>1, <1>2, MinIsLeast
<1>4. m \in 1 .. Len(file) + 1 /\ PositionOf(m) \notin Positions
  BY <1>3 DEF T
<1>5. m # 1
  BY <1>4, PositionFacts DEF StartOfFile, Positions
<1>6. m - 1 \in 1 .. Len(file) /\ m - 1 \in 1 .. Len(file) + 1 /\ (m - 1) + 1 = m /\ ~(m <= m - 1)
  BY <1>0, <1>4, <1>5
<1>7. PositionOf(m - 1) \in Positions
  BY <1>3, <1>6 DEF T
<1>8. PositionOf(m) = Move(PositionOf(m - 1), file[m - 1])
  <2>1. PositionOf((m - 1) + 1) = Move(PositionOf(m - 1), file[m - 1])
    BY <1>6, PositionFacts
  <2> QED
    BY <1>6, <2>1
<1>9. file[m - 1] \in Runes
  BY <1>6
<1> QED
  BY <1>4, <1>7, <1>8, <1>9, MoveType

\* Lines are counted upwards.
LEMMA LinesRise ==
  ASSUME file \in Seq(Runes), NEW m \in 1 .. Len(file) + 1, NEW n \in m .. Len(file) + 1
  PROVE  PositionOf(m).line <= PositionOf(n).line
<1> DEFINE T == {k \in m .. Len(file) + 1 : ~(PositionOf(m).line <= PositionOf(k).line)}
<1> SUFFICES ASSUME T # {} PROVE FALSE
  OBVIOUS
<1>0. Len(file) \in Nat /\ m \in Nat /\ m >= 1
  OBVIOUS
<1>1. T \in SUBSET Nat
  BY <1>0
<1> HIDE DEF T
<1>2. PICK l : l = Min(T)
  OBVIOUS
<1>3. l \in T /\ \A k \in T : l <= k
  BY <1>1, <1>2, MinIsLeast
<1>4. l \in m .. Len(file) + 1 /\ ~(PositionOf(m).line <= PositionOf(l).line)
  BY <1>3 DEF T
<1>5. PositionOf(m) \in Positions
  BY PositionType
<1>6. l # m
  BY <1>4, <1>5 DEF Positions
<1>7. /\ l - 1 \in m .. Len(file) + 1 /\ l - 1 \in 1 .. Len(file) /\ (l - 1) + 1 = l
      /\ l - 1 \in 1 .. Len(file) + 1 /\ ~(l <= l - 1)
  BY <1>0, <1>4, <1>6
<1>8. PositionOf(m).line <= PositionOf(l - 1).line /\ PositionOf(l - 1) \in Positions
  BY <1>3, <1>7, PositionType DEF T
<1>9. PositionOf(l) = Move(PositionOf(l - 1), file[l - 1])
  <2>1. PositionOf((l - 1) + 1) = Move(PositionOf(l - 1), file[l - 1])
    BY <1>7, PositionFacts
  <2> QED
    BY <1>7, <2>1
<1>10. PositionOf(l - 1).line <= PositionOf(l).line
  <2>1. PositionOf(l).line \in {PositionOf(l - 1).line, PositionOf(l - 1).line + 1}
    <3>1. file[l - 1] \in Runes
      BY <1>7
    <3> QED
      BY <1>8, <1>9, <3>1, MoveType
  <2> QED
    BY <1>8, <2>1 DEF Positions
<1>11. PositionOf(m).line \in Nat /\ PositionOf(l - 1).line \in Nat /\ PositionOf(l).line \in Nat
  <2>1. l \in 1 .. Len(file) + 1
    BY <1>0, <1>4
  <2>2. PositionOf(l) \in Positions
    BY <2>1, PositionType
  <2> QED
    BY <1>5, <1>8, <2>2 DEF Positions
<1> QED
  BY <1>4, <1>8, <1>10, <1>11

LEMMA PositionsStay ==
  ASSUME file' = file, NEW n
  PROVE  PositionOf(n)' = PositionOf(n)
BY DEF PositionOf, MoveOver

\* Every token lies before rune n.
Behind(n) == \A t \in ToSet(tokens) : t.to \in 1 .. n - 1 /\ t.from \in 1 .. t.to

IsBlock(t) == t.type \in {"comment", "doc"} /\ file[t.from + 1] = "star"

\* The column is short by one for each block comment that ended before.
ColumnsDrift ==
  \A t \in ToSet(tokens) :
    LET true == PositionOf(t.from)
    IN  /\ t.pos \in Positions
        /\ t.pos.line = true.line
        /\ t.pos.column + Cardinality(CommentsBefore(t.from)) = true.column

\* What t.pos is while rune n is read next.
Fits(p, n) ==
  /\ p \in Positions
  /\ p.line = PositionOf(n).line
  /\ p.column + Cardinality(CommentsBefore(n)) = PositionOf(n).column

LEMMA TokensFinite ==
  ASSUME NEW ts, \E S : ts \in Seq(S)
  PROVE  IsFiniteSet(ToSet(ts))
<1>1. PICK S : ts \in Seq(S)
  OBVIOUS
<1>2. Len(ts) \in Nat /\ DOMAIN ts = 1 .. Len(ts)
  BY <1>1
<1>3. ts \in Surjection(1 .. Len(ts), ToSet(ts))
  <2>1. ts \in [1 .. Len(ts) -> ToSet(ts)]
    BY <1>1, <1>2 DEF ToSet
  <2> QED
    BY <1>2, <2>1 DEF Surjection, ToSet
<1>4. IsFiniteSet(1 .. Len(ts))
  BY <1>2, FS_Interval
<1> QED
  BY <1>3, <1>4, FS_Surjection

LEMMA CommentsFinite ==
  ASSUME ScanInv, NEW n
  PROVE  IsFiniteSet(CommentsBefore(n)) /\ Cardinality(CommentsBefore(n)) \in Nat
<1>1. IsFiniteSet(ToSet(tokens))
  BY TokensFinite DEF ScanInv
<1>2. CommentsBefore(n) \in SUBSET ToSet(tokens)
  BY DEF CommentsBefore
<1> QED
  BY <1>1, <1>2, FS_Subset, FS_CardinalityType

LEMMA BehindLater ==
  ASSUME NEW m \in Nat, NEW n \in Nat, m <= n, Behind(m)
  PROVE  Behind(n)
BY DEF Behind

\* One rune that is in no block comment.
LEMMA FitsOn ==
  ASSUME ScanInv, NEW m \in 1 .. Len(file), Behind(m), NEW p, Fits(p, m)
  PROVE  Fits(Move(p, file[m]), m + 1)
<1>1. file \in Seq(Runes) /\ Len(file) \in Nat /\ m \in Nat
  BY DEF ScanInv
<1>2. m \in 1 .. Len(file) + 1 /\ m + 1 \in 1 .. Len(file) + 1
  BY <1>1
<1>0. file[m] \in Runes
  BY <1>1
<1>3. PICK q, r : q = PositionOf(m) /\ r = PositionOf(m + 1)
  OBVIOUS
<1>4. q \in Positions /\ r \in Positions /\ r = Move(q, file[m])
  BY <1>1, <1>2, <1>3, PositionType, PositionFacts
<1>5. /\ p \in Positions /\ p.line = q.line
      /\ p.column + Cardinality(CommentsBefore(m)) = q.column
  BY <1>3 DEF Fits
<1>6. PICK np : np = Move(p, file[m])
  OBVIOUS
<1>7. np \in Positions
  BY <1>0, <1>5, <1>6, MoveType
<1>8. CASE file[m] = "newline"
  <2>1. r.line = q.line + 1 /\ r.column = 1 /\ np.line = p.line + 1 /\ np.column = 1
    BY <1>0, <1>4, <1>5, <1>6, <1>8, MoveType
  <2>2. CommentsBefore(m + 1) = {}
    <3> SUFFICES ASSUME NEW t \in CommentsBefore(m + 1) PROVE FALSE
      OBVIOUS
    <3>1. t.to \in 1 .. m - 1 /\ PositionOf(t.to).line = r.line
      BY <1>3 DEF CommentsBefore, Behind
    <3>2. t.to \in 1 .. Len(file) + 1 /\ m \in t.to .. Len(file) + 1
      BY <1>1, <1>2, <3>1
    <3>3. PositionOf(t.to).line <= q.line
      BY <1>1, <1>3, <3>2, LinesRise
    <3> QED
      BY <1>4, <2>1, <3>1, <3>3 DEF Positions
  <2>3. Cardinality(CommentsBefore(m + 1)) = 0
    BY <2>2, FS_EmptySet
  <2>4. np.column + Cardinality(CommentsBefore(m + 1)) = r.column
    BY <2>1, <2>3
  <2> QED
    BY <1>3, <1>5, <1>6, <1>7, <2>1, <2>4 DEF Fits
<1>9. CASE file[m] # "newline"
  <2>1. /\ r.line = q.line /\ r.column = q.column + Size[file[m]]
        /\ np.line = p.line /\ np.column = p.column + Size[file[m]]
    BY <1>0, <1>4, <1>5, <1>6, <1>9, MoveType
  <2>2. \A t \in ToSet(tokens) : t.to < m + 1 /\ t.to < m
    BY <1>1 DEF Behind
  <2>3. CommentsBefore(m + 1) = CommentsBefore(m)
    BY <1>3, <2>1, <2>2 DEF CommentsBefore
  <2>4. Cardinality(CommentsBefore(m)) \in Nat
    BY CommentsFinite
  <2>5. np.column + Cardinality(CommentsBefore(m + 1)) = r.column
    <3>1. p.column \in Nat /\ q.column \in Nat /\ Size[file[m]] \in Nat
      BY <1>0, <1>4, <1>5, MoveType DEF Positions
    <3> QED
      BY <1>5, <2>1, <2>3, <2>4, <3>1
  <2> QED
    BY <1>3, <1>5, <1>6, <1>7, <2>1, <2>5 DEF Fits
<1> QED
  BY <1>8, <1>9

\* Runes that are in no block comment.
LEMMA FitsOver ==
  ASSUME ScanInv, NEW m \in 1 .. Len(file) + 1, NEW n \in m - 1 .. Len(file),
         Behind(m), NEW p, Fits(p, m)
  PROVE  Fits(MoveOver(p, m, n), n + 1)
<1> DEFINE T == {k \in m - 1 .. Len(file) : ~Fits(MoveOver(p, m, k), k + 1)}
<1> SUFFICES ASSUME T # {} PROVE FALSE
  OBVIOUS
<1>0. file \in Seq(Runes) /\ Len(file) \in Nat /\ m \in Nat \ {0}
  BY DEF ScanInv
<1>1. T \in SUBSET Nat
  BY <1>0
<1> HIDE DEF T
<1>2. PICK l : l = Min(T)
  OBVIOUS
<1>3. l \in T /\ \A k \in T : l <= k
  BY <1>1, <1>2, MinIsLeast
<1>4. l \in m - 1 .. Len(file) /\ ~Fits(MoveOver(p, m, l), l + 1)
  BY <1>3 DEF T
<1>5. l \in Nat /\ l <= Len(file) /\ m <= l + 1
  BY <1>0, <1>4
<1>6. l # m - 1
  <2> SUFFICES ASSUME l = m - 1 PROVE FALSE
    OBVIOUS
  <2>1. l + 1 = m
    BY <1>0
  <2>2. l = m - 1 => MoveOver(p, m, l) = p
    BY <1>0, <1>5, MovedOn
  <2> QED
    BY <1>4, <2>1, <2>2
<1>7. /\ l \in m .. Len(file) /\ l - 1 \in m - 1 .. Len(file) /\ ~(l <= l - 1)
      /\ l \in 1 .. Len(file) /\ (l - 1) + 1 = l /\ m <= l
  BY <1>0, <1>4, <1>6
<1>8. Fits(MoveOver(p, m, l - 1), l)
  <2>1. l - 1 \notin T
    BY <1>3, <1>7
  <2>2. Fits(MoveOver(p, m, l - 1), (l - 1) + 1)
    BY <1>7, <2>1 DEF T
  <2> QED
    BY <1>7, <2>2
<1>9. Behind(l)
  BY <1>0, <1>5, <1>7, BehindLater
<1>10. Fits(Move(MoveOver(p, m, l - 1), file[l]), l + 1)
  BY <1>7, <1>8, <1>9, FitsOn
<1>11. MoveOver(p, m, l) = Move(MoveOver(p, m, l - 1), file[l])
  BY <1>0, <1>5, <1>7, MovedOn
<1> QED
  BY <1>4, <1>10, <1>11

(***************************************************************************)
(* What a token that is yielded changes.                                   *)
(***************************************************************************)
LEMMA YieldPlaces ==
  ASSUME ScanInv, NEW s, NEW type, NEW n \in 1 .. Len(file), NEW after,
         YieldFrom(s, type, n, after), file' = file, s.at \in 1 .. n, Behind(s.at),
         Fits(s.pos, s.at), ColumnsDrift
  PROVE  LET t == [type |-> type, from |-> s.at, to |-> n, pos |-> s.pos]
         IN  /\ Behind(n + 1)' /\ ColumnsDrift'
             /\ CommentsBefore(n + 1)' =
                  CommentsBefore(n + 1) \cup
                  IF IsBlock(t) /\ PositionOf(n).line = PositionOf(n + 1).line THEN {t} ELSE {}
<1> DEFINE t == [type |-> type, from |-> s.at, to |-> n, pos |-> s.pos]
<1>1. /\ tokens' = Append(tokens, t)
      /\ t.type = type /\ t.from = s.at /\ t.to = n /\ t.pos = s.pos
  BY DEF YieldFrom
<1>2. PICK S : tokens \in Seq(S)
  BY DEF ScanInv
<1>3. n \in Nat /\ s.at \in Nat /\ s.at >= 1 /\ s.at <= n /\ Len(file) \in Nat
  BY DEF ScanInv
<1> HIDE DEF t
<1>4. ToSet(tokens') = ToSet(tokens) \cup {t}
  BY <1>1, <1>2 DEF ToSet
<1>5. \A u \in ToSet(tokens) : u.to \in 1 .. s.at - 1 /\ u.from \in 1 .. u.to
  BY DEF Behind
<1>6. \A k : PositionOf(k)' = PositionOf(k)
  BY PositionsStay
<1>7. Behind(n + 1)'
  <2>1. ASSUME NEW u \in ToSet(tokens') PROVE u.to \in 1 .. (n + 1) - 1 /\ u.from \in 1 .. u.to
    <3>1. CASE u \in ToSet(tokens)
      <4>1. u.to \in 1 .. s.at - 1 /\ u.from \in 1 .. u.to
        BY <1>5, <3>1
      <4> QED
        BY <1>3, <4>1
    <3>2. CASE u = t
      BY <1>1, <1>3, <3>2
    <3> QED
      BY <1>4, <3>1, <3>2
  <2> QED
    BY <2>1 DEF Behind
<1>8. ASSUME NEW k
      PROVE  CommentsBefore(k)' =
               {u \in ToSet(tokens) \cup {t} :
                  IsBlock(u) /\ u.to < k /\ PositionOf(u.to).line = PositionOf(k).line}
  BY <1>4, <1>6 DEF CommentsBefore, IsBlock
<1>9. ASSUME NEW k
      PROVE  CommentsBefore(k) =
               {u \in ToSet(tokens) :
                  IsBlock(u) /\ u.to < k /\ PositionOf(u.to).line = PositionOf(k).line}
  BY DEF CommentsBefore, IsBlock
<1>10. ASSUME NEW k \in Nat, k <= n
       PROVE  CommentsBefore(k)' = CommentsBefore(k)
  <2>1. ~(t.to < k)
    BY <1>1, <1>3, <1>10
  <2> QED
    BY <1>8, <1>9, <2>1
<1>11. ColumnsDrift'
  <2>1. ASSUME NEW u \in ToSet(tokens')
        PROVE  /\ u.pos \in Positions
               /\ u.pos.line = PositionOf(u.from).line
               /\ u.pos.column + Cardinality(CommentsBefore(u.from)) = PositionOf(u.from).column
               /\ CommentsBefore(u.from)' = CommentsBefore(u.from)
    <3>1. CASE u \in ToSet(tokens)
      <4>1. u.from \in Nat /\ u.from <= n
        BY <1>3, <1>5, <3>1
      <4> QED
        BY <1>10, <3>1, <4>1 DEF ColumnsDrift
    <3>2. CASE u = t
      <4>1. u.from = s.at /\ u.pos = s.pos
        BY <1>1, <3>2
      <4> QED
        BY <1>3, <1>10, <4>1 DEF Fits
    <3> QED
      BY <1>4, <3>1, <3>2
  <2> QED
    BY <1>6, <2>1 DEF ColumnsDrift
<1>12. CommentsBefore(n + 1)' =
         CommentsBefore(n + 1) \cup
         IF IsBlock(t) /\ PositionOf(n).line = PositionOf(n + 1).line THEN {t} ELSE {}
  <2>1. t.to < n + 1 /\ t.to = n
    BY <1>1, <1>3
  <2> QED
    BY <1>8, <1>9, <2>1
<1> QED
  BY <1>7, <1>11, <1>12 DEF t

InToken == {"annotation", "string", "symbol", "comment", "line", "block"}

PosInv ==
  /\ LexInv
  /\ Behind(Rest)
  /\ ColumnsDrift
  /\ action \notin {"end", "stopped"} => Fits(pos, read + 1)
  /\ action \in InToken => Fits(start.pos, start.at)

LEMMA FitsStays ==
  ASSUME file' = file, tokens' = tokens, NEW p, NEW n
  PROVE  Fits(p, n)' <=> Fits(p, n)
<1>1. \A k : PositionOf(k)' = PositionOf(k)
  BY PositionsStay
<1>2. CommentsBefore(n)' = CommentsBefore(n)
  BY <1>1 DEF CommentsBefore
<1> QED
  BY <1>1, <1>2 DEF Fits

\* A step that yields nothing.
LEMMA QuietPlaces ==
  ASSUME PosInv, LexInv', tokens' = tokens, file' = file,
         action' \notin {"end", "stopped"} => Fits(pos', read' + 1),
         action' \in InToken => Fits(start'.pos, start'.at)
  PROVE  PosInv'
<1>1. PICK p, n : p = pos' /\ n = read' + 1
  OBVIOUS
<1>2. PICK q, m : q = start'.pos /\ m = start'.at
  OBVIOUS
<1>3. (Fits(p, n)' <=> Fits(p, n)) /\ (Fits(q, m)' <=> Fits(q, m))
  BY FitsStays
<1>4. action' \notin {"end", "stopped"} => Fits(pos, read + 1)'
  BY <1>1, <1>3
<1>5. action' \in InToken => Fits(start.pos, start.at)'
  BY <1>2, <1>3
<1>6. Behind(Rest)'
  BY DEF PosInv, Behind, Rest, FirstAfter
<1>7. ColumnsDrift'
  <2>1. \A k : PositionOf(k)' = PositionOf(k)
    BY PositionsStay
  <2>2. \A k : CommentsBefore(k)' = CommentsBefore(k)
    BY <2>1 DEF CommentsBefore
  <2> QED
    BY <2>1, <2>2 DEF PosInv, ColumnsDrift
<1> QED
  BY <1>4, <1>5, <1>6, <1>7 DEF PosInv

\* A step that yields a token, of the runes from s.at to n.
LEMMA TokenPlaces ==
  ASSUME PosInv, LexInv', NEW s, NEW type, NEW n \in 1 .. Len(file), NEW after \in {"idl", "end"},
         YieldFrom(s, type, n, after), file' = file, read' = n, s.at \in Rest .. n,
         Fits(s.pos, s.at),
         IF type \in {"comment", "doc"} /\ file[s.at + 1] = "star"
         THEN Fits(pos', n) /\ file[n] = "slash"
         ELSE Fits(pos', n + 1)
  PROVE  PosInv'
<1> DEFINE t == [type |-> type, from |-> s.at, to |-> n, pos |-> s.pos]
           block == type \in {"comment", "doc"} /\ file[s.at + 1] = "star"
<1>1. /\ tokens' = Append(tokens, t) /\ action' \in {"idl", "end", "stopped"}
      /\ t.type = type /\ t.from = s.at /\ t.to = n
  BY DEF YieldFrom
<1>2. ScanInv /\ file \in Seq(Runes) /\ Len(file) \in Nat /\ \E S : tokens \in Seq(S)
  BY DEF PosInv, LexInv, ScanInv
<1>3. Rest \in Nat /\ Rest >= 1 /\ s.at \in 1 .. n /\ n \in Nat /\ Behind(s.at)
  <2>1. Rest \in Nat /\ Rest >= 1
    BY <1>2, RestIsPlace
  <2>2. s.at \in 1 .. n /\ n \in Nat /\ s.at \in Nat /\ Rest <= s.at
    BY <2>1
  <2>3. Behind(s.at)
    BY <2>1, <2>2, BehindLater DEF PosInv
  <2> QED
    BY <2>1, <2>2, <2>3
<1> HIDE DEF t, block
<1>4. /\ Behind(n + 1)' /\ ColumnsDrift'
      /\ CommentsBefore(n + 1)' =
           CommentsBefore(n + 1) \cup
             IF IsBlock(t) /\ PositionOf(n).line = PositionOf(n + 1).line THEN {t} ELSE {}
  BY <1>2, <1>3, YieldPlaces DEF PosInv, t
<1>5. IsBlock(t) <=> block
  BY <1>1 DEF IsBlock, block
<1>6. PICK p : p = pos'
  OBVIOUS
<1>7. \A k : PositionOf(k)' = PositionOf(k)
  BY PositionsStay
<1>8. Fits(p, n + 1)'
  <2>1. CASE ~block
    <3>1. Fits(p, n + 1)
      BY <1>6, <2>1 DEF block
    <3>2. CommentsBefore(n + 1)' = CommentsBefore(n + 1)
      BY <1>4, <1>5, <2>1
    <3> QED
      BY <1>7, <3>1, <3>2 DEF Fits
  <2>2. CASE block
    <3>1. Fits(p, n) /\ file[n] = "slash"
      BY <1>6, <2>2 DEF block
    <3>2. PICK q, r : q = PositionOf(n) /\ r = PositionOf(n + 1)
      OBVIOUS
    <3>3. q \in Positions /\ r.line = q.line /\ r.column = q.column + 1
      <4>1. n \in 1 .. Len(file) + 1
        BY <1>2
      <4>2. q \in Positions /\ r = Move(q, file[n])
        BY <1>2, <3>2, <4>1, PositionType, PositionFacts
      <4> QED
        BY <3>1, <4>2, MoveType DEF Runes
    <3>4. \A u \in ToSet(tokens) : u.to < n /\ u.to < n + 1
      <4>1. \A u \in ToSet(tokens) : u.to \in 1 .. s.at - 1
        BY <1>3 DEF Behind
      <4> QED
        BY <1>3, <4>1
    <3>5. CommentsBefore(n + 1) = CommentsBefore(n)
      BY <3>2, <3>3, <3>4 DEF CommentsBefore
    <3>6. CommentsBefore(n + 1)' = CommentsBefore(n) \cup {t}
      BY <1>4, <1>5, <2>2, <3>2, <3>3, <3>5
    <3>7. t \notin CommentsBefore(n)
      BY <1>1, <1>3 DEF CommentsBefore
    <3>8. PICK c : c = CommentsBefore(n)
      OBVIOUS
    <3>9. IsFiniteSet(c) /\ Cardinality(c) \in Nat /\ t \notin c
      BY <1>2, <3>7, <3>8, CommentsFinite
    <3>10. Cardinality(c \cup {t}) = Cardinality(c) + 1
      BY <3>9, FS_AddElement
    <3>11. p \in Positions /\ p.line = r.line /\ p.column + Cardinality(c \cup {t}) = r.column
      <4>1. p \in Positions /\ p.line = q.line /\ p.column + Cardinality(c) = q.column
        BY <3>1, <3>2, <3>8 DEF Fits
      <4>2. p.column \in Nat /\ q.column \in Nat
        BY <3>3, <4>1 DEF Positions
      <4>3. PICK k, l : k = Cardinality(c) /\ l = Cardinality(c \cup {t})
        OBVIOUS
      <4>4. k \in Nat /\ l = k + 1 /\ p.column + k = q.column
        BY <3>9, <3>10, <4>1, <4>3
      <4>5. p.column + l = r.column
        BY <3>3, <4>2, <4>4
      <4> QED
        BY <3>3, <4>1, <4>3, <4>5
    <3> QED
      BY <1>7, <3>2, <3>6, <3>8, <3>11 DEF Fits
  <2> QED
    BY <2>1, <2>2
<1>9. Fits(pos, read + 1)'
  BY <1>6, <1>8
<1>10. Rest' = n + 1
  BY <1>1, <1>2 DEF Rest, FirstAfter
<1>11. Behind(Rest)'
  BY <1>4, <1>10 DEF Behind
<1>12. action' \notin InToken
  BY <1>1 DEF InToken
<1> QED
  BY <1>4, <1>9, <1>11, <1>12 DEF PosInv

\* What each action reads from.
LEMMA PlaceFacts ==
  ASSUME PosInv, action \in {"idl", "identifier", "number"} \cup InToken
  PROVE  /\ ScanInv /\ file \in Seq(Runes) /\ Len(file) \in Nat /\ read \in 0 .. Len(file)
         /\ Rest \in 1 .. read + 1 /\ Behind(read + 1) /\ Fits(pos, read + 1)
<1>1. ScanInv /\ file \in Seq(Runes) /\ Len(file) \in Nat /\ read \in 0 .. Len(file)
  BY DEF PosInv, LexInv, ScanInv
<1>2. Rest \in 1 .. Len(file) + 1
  BY <1>1, RestIsPlace
<1>3. Rest <= read + 1
  <2>1. CASE action = "idl"
    BY <1>1, <1>2, <2>1 DEF ScanInv, Begun
  <2>2. CASE action \in {"identifier", "number"}
    BY <1>1, <1>2, <2>2 DEF ScanInv, Begun
  <2>3. CASE action \in InToken
    <3>1. start.at \in Rest .. read
      BY <1>1, <2>3 DEF ScanInv, Begun, Started, InToken
    <3> QED
      BY <1>1, <1>2, <3>1
  <2> QED
    BY <2>1, <2>2, <2>3
<1>4. Behind(read + 1)
  <2>1. Rest \in Nat /\ read + 1 \in Nat
    BY <1>1, <1>2
  <2> QED
    BY <1>3, <2>1, BehindLater DEF PosInv
<1> QED
  BY <1>1, <1>2, <1>3, <1>4 DEF PosInv, InToken

LEMMA StartedPlaces ==
  ASSUME PosInv, action \in InToken
  PROVE  /\ start.at \in Rest .. read /\ start.at \in 1 .. read
         /\ Fits(start.pos, start.at) /\ Started
<1>1. start.at \in Rest .. read /\ start.at \in 1 .. read /\ Started
  BY StartedFacts DEF PosInv, LexInv, InToken, Started
<1> QED
  BY <1>1 DEF PosInv

LEMMA IDLPlaces ==
  ASSUME PosInv, LexInv', TokenizeIDL
  PROVE  PosInv'
<1>1. PICK n : n = LastOf(WhiteSpace)
  OBVIOUS
<1>2. PICK rune, here : rune = file[n + 1] /\ here = MoveOver(pos, read + 1, n)
  OBVIOUS
<1>3. /\ ScanInv /\ file \in Seq(Runes) /\ Len(file) \in Nat /\ read \in 0 .. Len(file)
      /\ Behind(read + 1) /\ Fits(pos, read + 1) /\ action = "idl"
  BY PlaceFacts DEF TokenizeIDL
<1>4. n \in read .. Len(file)
  BY <1>1, <1>3, LastOfClass
<1>5. file' = file /\ tokens' = tokens
  BY DEF TokenizeIDL, EndQuietly, FailWith
<1>6. CASE AtEnd(n) \/ rune \in {"space", "newline", "star", "backslash", "dot", "other"}
  <2>1. action' = "end"
    BY <1>1, <1>2, <1>6 DEF TokenizeIDL, EndQuietly, FailWith, WhiteSpace
  <2> QED
    BY <1>5, <2>1, QuietPlaces DEF InToken
<1>7. CASE ~(AtEnd(n) \/ rune \in {"space", "newline", "star", "backslash", "dot", "other"})
  <2>1. /\ IF StaysRead(rune) THEN ReadTo(n + 1, Move(here, rune))
                              ELSE ReadTo(n, BackedUp(here, Move(here, rune)))
        /\ start' = [at |-> n + 1, pos |-> here]
    BY <1>1, <1>2, <1>7 DEF TokenizeIDL, WhiteSpace
  <2>2. /\ read + 1 \in 1 .. Len(file) + 1 /\ n \in (read + 1) - 1 .. Len(file)
        /\ n + 1 \in 1 .. Len(file) /\ read + 1 \in Nat /\ n + 1 \in Nat /\ read + 1 <= n + 1
        /\ n \in Nat
    BY <1>3, <1>4, <1>7 DEF AtEnd
  <2>3. Fits(here, n + 1)
    BY <1>2, <1>3, <2>2, FitsOver
  <2>4. Behind(n + 1)
    BY <1>3, <2>2, BehindLater
  <2>5. Fits(Move(here, rune), (n + 1) + 1)
    BY <1>2, <1>3, <2>2, <2>3, <2>4, FitsOn
  <2>6. Fits(pos', read' + 1)
    BY <2>1, <2>3, <2>5 DEF ReadTo, BackedUp
  <2>7. Fits(start'.pos, start'.at)
    BY <2>1, <2>3
  <2> QED
    BY <1>5, <2>6, <2>7, QuietPlaces
<1> QED
  BY <1>6, <1>7

LEMMA SymbolPlaces ==
  ASSUME PosInv, LexInv', TokenizeSymbol
  PROVE  PosInv'
<1>1. /\ action = "symbol" /\ file' = file /\ read' = read /\ pos' = pos
      /\ YieldFrom(start, "symbol", read, "idl")
  BY DEF TokenizeSymbol, YieldThen
<1>2. /\ Len(file) \in Nat /\ read \in 0 .. Len(file) /\ Fits(pos, read + 1)
      /\ start.at \in Rest .. read /\ start.at \in 1 .. read /\ Fits(start.pos, start.at)
  BY <1>1, PlaceFacts, StartedPlaces DEF InToken
<1>3. read \in 1 .. Len(file)
  BY <1>2
<1> QED
  BY <1>1, <1>2, <1>3, TokenPlaces

LEMMA CommentPlaces ==
  ASSUME PosInv, LexInv', TokenizeComment
  PROVE  PosInv'
<1>1. action = "comment" /\ file' = file /\ tokens' = tokens
  BY DEF TokenizeComment, FailWith
<1>2. /\ ScanInv /\ Len(file) \in Nat /\ read \in 0 .. Len(file) /\ Fits(pos, read + 1)
      /\ Behind(read + 1) /\ Fits(start.pos, start.at)
  BY <1>1, PlaceFacts, StartedPlaces DEF InToken
<1>3. CASE AtEnd(read) \/ file[read + 1] \notin {"slash", "star"}
  <2>1. action' = "end"
    BY <1>3 DEF TokenizeComment, FailWith
  <2> QED
    BY <1>1, <2>1, QuietPlaces DEF InToken
<1>4. CASE ~(AtEnd(read) \/ file[read + 1] \notin {"slash", "star"})
  <2>1. read' = read + 1 /\ pos' = Move(pos, file[read + 1]) /\ start' = start
    BY <1>4 DEF TokenizeComment, ReadTo
  <2>2. read + 1 \in 1 .. Len(file)
    BY <1>2, <1>4 DEF AtEnd
  <2>3. Fits(Move(pos, file[read + 1]), (read + 1) + 1)
    BY <1>2, <2>2, FitsOn
  <2> QED
    BY <1>1, <1>2, <2>1, <2>3, QuietPlaces
<1> QED
  BY <1>3, <1>4

LEMMA LineCommentPlaces ==
  ASSUME PosInv, LexInv', TokenizeLineComment
  PROVE  PosInv'
<1>1. PICK n : n = LastOf(Runes \ {"newline"})
  OBVIOUS
<1>2. /\ action = "line" /\ file' = file
      /\ read' = n /\ pos' = MoveOver(pos, read + 1, n)
  BY <1>1 DEF TokenizeLineComment, ReadTo
<1>3. /\ ScanInv /\ file \in Seq(Runes) /\ Len(file) \in Nat /\ read \in 0 .. Len(file)
      /\ Behind(read + 1) /\ Fits(pos, read + 1) /\ Rest \in 1 .. read + 1
      /\ start.at \in Rest .. read /\ start.at \in 1 .. read
      /\ Fits(start.pos, start.at) /\ Started
  BY <1>2, PlaceFacts, StartedPlaces DEF InToken
<1>4. n \in read .. Len(file)
  BY <1>1, <1>3, LastOfClass
<1>5. file[start.at + 1] = "slash"
  BY <1>2, <1>3 DEF Started
<1>6. CASE AtEnd(n)
  <2>1. action' = "end" /\ tokens' = tokens
    BY <1>1, <1>6 DEF TokenizeLineComment, EndQuietly
  <2> QED
    BY <1>2, <2>1, QuietPlaces DEF InToken
<1>7. CASE ~AtEnd(n)
  <2>1. YieldFrom(start, "comment", n, "idl")
    BY <1>1, <1>7 DEF TokenizeLineComment, YieldThen
  <2>2. /\ n \in 1 .. Len(file) /\ start.at \in Rest .. n
        /\ read + 1 \in 1 .. Len(file) + 1 /\ n \in (read + 1) - 1 .. Len(file)
    BY <1>3, <1>4
  <2>3. Fits(pos', n + 1)
    BY <1>2, <1>3, <2>2, FitsOver
  <2> QED
    BY <1>2, <1>3, <1>5, <2>1, <2>2, <2>3, TokenPlaces
<1> QED
  BY <1>6, <1>7

LEMMA BlockCommentPlaces ==
  ASSUME PosInv, LexInv', TokenizeBlockComment
  PROVE  PosInv'
<1>1. action = "block" /\ file' = file
  BY DEF TokenizeBlockComment
<1>2. /\ ScanInv /\ file \in Seq(Runes) /\ Len(file) \in Nat /\ read \in 0 .. Len(file)
      /\ Behind(read + 1) /\ Fits(pos, read + 1) /\ Rest \in 1 .. read + 1
      /\ start.at \in Rest .. read /\ start.at \in 1 .. read
      /\ Fits(start.pos, start.at) /\ Started
  BY <1>1, PlaceFacts, StartedPlaces DEF InToken
<1>3. file[start.at + 1] = "star"
  BY <1>1, <1>2 DEF Started
<1>4. CASE Closings = {}
  <2>1. action' = "end" /\ tokens' = tokens
    BY <1>4 DEF TokenizeBlockComment, EndQuietly
  <2> QED
    BY <1>1, <2>1, QuietPlaces DEF InToken
<1>5. CASE Closings # {}
  <2>1. PICK n : n = Min(Closings)
    OBVIOUS
  <2>2. Closings \in SUBSET Nat
    BY <1>2 DEF Closings
  <2>3. n \in read + 2 .. Len(file) /\ file[n] = "slash"
    BY <1>5, <2>1, <2>2, MinIsLeast DEF Closings
  <2>4. PICK type : type = IF IsDoc(n) THEN "doc" ELSE "comment"
    OBVIOUS
  <2>5. /\ YieldFrom(start, type, n, "idl")
        /\ read' = n /\ pos' = MoveOver(pos, read + 1, n - 1)
    BY <1>5, <2>1, <2>4 DEF TokenizeBlockComment, YieldThen, ReadTo
  <2>6. /\ n \in 1 .. Len(file) /\ start.at \in Rest .. n /\ (n - 1) + 1 = n
        /\ read + 1 \in 1 .. Len(file) + 1 /\ n - 1 \in (read + 1) - 1 .. Len(file)
    BY <1>2, <2>3
  <2>7. Fits(pos', n)
    <3>1. Fits(MoveOver(pos, read + 1, n - 1), (n - 1) + 1)
      BY <1>2, <2>6, FitsOver
    <3> QED
      BY <2>5, <2>6, <3>1
  <2>8. type \in {"comment", "doc"}
    BY <2>4
  <2> QED
    BY <1>1, <1>2, <1>3, <2>3, <2>5, <2>6, <2>7, <2>8, TokenPlaces
<1> QED
  BY <1>4, <1>5

LEMMA IdentifierPlaces ==
  ASSUME PosInv, LexInv', TokenizeIdentifier
  PROVE  PosInv'
<1>1. PICK n : n = LastOf({"letter", "digit", "dot"})
  OBVIOUS
<1>2. /\ action = "identifier" /\ file' = file
      /\ read' = n /\ pos' = MoveOver(pos, read + 1, n)
      /\ YieldFrom(Here, "identifier", n, After(n))
  BY <1>1 DEF TokenizeIdentifier, ReadTo
<1>3. /\ ScanInv /\ file \in Seq(Runes) /\ Len(file) \in Nat /\ read \in 0 .. Len(file)
      /\ Behind(read + 1) /\ Fits(pos, read + 1) /\ Rest \in 1 .. read + 1
  BY <1>2, PlaceFacts
<1>4. read + 1 <= Len(file) /\ file[read + 1] = "letter"
  BY <1>2 DEF PosInv, LexInv, Opened
<1>5. n \in read .. Len(file) /\ (n = Len(file) \/ file[n + 1] \notin {"letter", "digit", "dot"})
  BY <1>1, <1>3, LastOfClass, LastOfStops
<1>6. /\ n \in 1 .. Len(file) /\ read + 1 \in Rest .. n
      /\ read + 1 \in 1 .. Len(file) + 1 /\ n \in (read + 1) - 1 .. Len(file)
  <2>1. n # read
    BY <1>3, <1>4, <1>5
  <2> QED
    BY <1>3, <1>4, <1>5, <2>1
<1>7. Fits(pos', n + 1)
  BY <1>2, <1>3, <1>6, FitsOver
<1>8. Here.at = read + 1 /\ Here.pos = pos /\ After(n) \in {"idl", "end"}
  BY DEF Here, After
<1> QED
  BY <1>2, <1>3, <1>6, <1>7, <1>8, TokenPlaces

LEMMA NumberPlaces ==
  ASSUME PosInv, LexInv', TokenizeNumber
  PROVE  PosInv'
<1>1. PICK n : n = NumberEnd
  OBVIOUS
<1>2. /\ action = "number" /\ file' = file
      /\ read' = n /\ pos' = MoveOver(pos, read + 1, n)
  BY <1>1 DEF TokenizeNumber, ReadTo
<1>3. /\ ScanInv /\ file \in Seq(Runes) /\ Len(file) \in Nat /\ read \in 0 .. Len(file)
      /\ Behind(read + 1) /\ Fits(pos, read + 1) /\ Rest \in 1 .. read + 1
  BY <1>2, PlaceFacts
<1>4. read + 1 \in 1 .. Len(file) /\ file[read + 1] \in {"minus", "digit"}
  BY <1>2, <1>3 DEF PosInv, LexInv, Opened
<1>5. Here.at = read + 1 /\ Here.pos = pos /\ After(n) \in {"idl", "end"}
  BY DEF Here, After
<1>6. n \in read + 1 .. Len(file)
  BY <1>1, <1>3, <1>4, <1>5, NumberRunes
<1>7. CASE IsNumber(n)
  <2>1. YieldFrom(Here, "number", n, After(n))
    BY <1>1, <1>7 DEF TokenizeNumber
  <2>2. /\ n \in 1 .. Len(file) /\ read + 1 \in Rest .. n
        /\ read + 1 \in 1 .. Len(file) + 1 /\ n \in (read + 1) - 1 .. Len(file)
    BY <1>3, <1>6
  <2>3. Fits(pos', n + 1)
    BY <1>2, <1>3, <2>2, FitsOver
  <2> QED
    BY <1>2, <1>3, <1>5, <2>1, <2>2, <2>3, TokenPlaces
<1>8. CASE ~IsNumber(n)
  <2>1. action' = "end" /\ tokens' = tokens
    BY <1>1, <1>8 DEF TokenizeNumber, FailWith
  <2> QED
    BY <1>2, <2>1, QuietPlaces DEF InToken
<1> QED
  BY <1>7, <1>8

LEMMA StringPlaces ==
  ASSUME PosInv, LexInv', TokenizeString
  PROVE  PosInv'
<1>1. action = "string" /\ file' = file
  BY DEF TokenizeString
<1>2. /\ ScanInv /\ file \in Seq(Runes) /\ Len(file) \in Nat /\ read \in 0 .. Len(file)
      /\ Behind(read + 1) /\ Fits(pos, read + 1) /\ Rest \in 1 .. read + 1
      /\ start.at \in Rest .. read /\ start.at \in 1 .. read /\ Fits(start.pos, start.at)
  BY <1>1, PlaceFacts, StartedPlaces DEF InToken
<1>3. CASE Quotes = {}
  <2>1. action' = "end" /\ tokens' = tokens
    BY <1>3 DEF TokenizeString, FailWith
  <2> QED
    BY <1>1, <2>1, QuietPlaces DEF InToken
<1>4. CASE Quotes # {}
  <2>1. PICK n : n = Min(Quotes)
    OBVIOUS
  <2>2. /\ YieldFrom(start, "string", n, "idl")
        /\ read' = n /\ pos' = MoveOver(pos, read + 1, n)
    BY <1>4, <2>1 DEF TokenizeString, YieldThen, ReadTo
  <2>3. Quotes \subseteq read + 1 .. Len(file)
    BY DEF Quotes
  <2>4. Quotes \in SUBSET Nat
    BY <1>2, <2>3
  <2>5. n \in read + 1 .. Len(file)
    BY <1>4, <2>1, <2>3, <2>4, MinIsLeast
  <2>6. /\ n \in 1 .. Len(file) /\ start.at \in Rest .. n
        /\ read + 1 \in 1 .. Len(file) + 1 /\ n \in (read + 1) - 1 .. Len(file)
    BY <1>2, <2>5
  <2>7. Fits(pos', n + 1)
    BY <1>2, <2>2, <2>6, FitsOver
  <2> QED
    BY <1>1, <1>2, <2>2, <2>6, <2>7, TokenPlaces
<1> QED
  BY <1>3, <1>4

LEMMA AnnotationPlaces ==
  ASSUME PosInv, LexInv', TokenizeAnnotation
  PROVE  PosInv'
<1>1. PICK n : n = LastOf({"letter", "digit", "dot", "minus"})
  OBVIOUS
<1>2. /\ action = "annotation" /\ file' = file
      /\ read' = n /\ pos' = MoveOver(pos, read + 1, n)
  BY <1>1 DEF TokenizeAnnotation, ReadTo
<1>3. /\ ScanInv /\ file \in Seq(Runes) /\ Len(file) \in Nat /\ read \in 0 .. Len(file)
      /\ Behind(read + 1) /\ Fits(pos, read + 1) /\ Rest \in 1 .. read + 1
      /\ start.at \in Rest .. read /\ start.at \in 1 .. read /\ Fits(start.pos, start.at)
  BY <1>2, PlaceFacts, StartedPlaces DEF InToken
<1>4. n \in read .. Len(file)
  BY <1>1, <1>3, LastOfClass
<1>5. CASE n = read
  <2>1. action' = "end" /\ tokens' = tokens
    BY <1>1, <1>5 DEF TokenizeAnnotation, FailWith
  <2> QED
    BY <1>2, <2>1, QuietPlaces DEF InToken
<1>6. CASE n # read
  <2>1. YieldFrom(start, "annotation", n, After(n)) /\ After(n) \in {"idl", "end"}
    BY <1>1, <1>6 DEF TokenizeAnnotation, YieldThen, After
  <2>2. /\ n \in 1 .. Len(file) /\ start.at \in Rest .. n
        /\ read + 1 \in 1 .. Len(file) + 1 /\ n \in (read + 1) - 1 .. Len(file)
    BY <1>3, <1>4
  <2>3. Fits(pos', n + 1)
    BY <1>2, <1>3, <2>2, FitsOver
  <2> QED
    BY <1>2, <1>3, <2>1, <2>2, <2>3, TokenPlaces
<1> QED
  BY <1>5, <1>6

LEMMA InitPlaces == Init => PosInv
<1> SUFFICES ASSUME Init PROVE PosInv
  OBVIOUS
<1>1. ScanInv
  BY InitScan
<1>2. /\ file \in Seq(Runes) /\ read = 0 /\ pos = StartOfFile /\ action = "idl" /\ tokens = << >>
      /\ ToSet(tokens) = {}
  BY <1>1 DEF Init, ScanInv, ToSet
<1>3. LexInv
  BY <1>1, <1>2 DEF LexInv, Opened, TokensAreLexemes
<1>4. ColumnsDrift /\ Behind(Rest)
  BY <1>2 DEF ColumnsDrift, Behind
<1>5. PositionOf(read + 1) = StartOfFile
  BY <1>2, PositionFacts
<1>6. CommentsBefore(read + 1) = {}
  BY <1>2 DEF CommentsBefore
<1>7. Fits(pos, read + 1)
  <2>1. PICK c : c = Cardinality(CommentsBefore(read + 1))
    OBVIOUS
  <2>2. c = 0
    BY <1>6, <2>1, FS_EmptySet
  <2>3. /\ pos \in Positions /\ pos.line = StartOfFile.line
        /\ pos.column + c = StartOfFile.column
    BY <1>2, <2>2 DEF Positions, StartOfFile
  <2> QED
    BY <1>5, <2>1, <2>3 DEF Fits
<1> QED
  BY <1>2, <1>3, <1>4, <1>7 DEF PosInv, InToken

LEMMA StutterPlaces ==
  ASSUME PosInv, LexInv', UNCHANGED vars
  PROVE  PosInv'
BY QuietPlaces DEF vars, PosInv

(***************************************************************************)
(* Whatever the file holds, of whatever sizes its runes are and however    *)
(* many lines its comments have, the line Tokenize gives a token is right, *)
(* and its column in bytes too unless a block comment ended before it on   *)
(* its line: copyUntil (idl/tokenizer.go:141) does not move t.pos over the *)
(* last rune of a comment, and next, copyIf and backup move it rightly.    *)
(***************************************************************************)
THEOREM PositionsAreKnown == Spec => []PositionsAreRight
<1>1. PosInv /\ [Next]_vars => PosInv'
  <2> SUFFICES ASSUME PosInv, [Next]_vars PROVE PosInv'
    OBVIOUS
  <2>1. LexInv'
    BY LexInvKept DEF PosInv
  <2> QED
    BY <2>1, IDLPlaces, SymbolPlaces, CommentPlaces, LineCommentPlaces, BlockCommentPlaces,
       IdentifierPlaces, NumberPlaces, StringPlaces, AnnotationPlaces, StutterPlaces DEF Next
<1>2. ASSUME PosInv, NEW t \in ToSet(tokens)
      PROVE  /\ t.pos.line = PositionOf(t.from).line
             /\ CommentsBefore(t.from) = {} => t.pos = PositionOf(t.from)
  <2>1. PICK true : true = PositionOf(t.from)
    OBVIOUS
  <2>2. /\ t.pos \in Positions /\ t.pos.line = true.line
        /\ t.pos.column + Cardinality(CommentsBefore(t.from)) = true.column
    BY <1>2, <2>1 DEF PosInv, ColumnsDrift
  <2>3. true \in Positions
    <3>1. ScanInv /\ Behind(Rest)
      BY <1>2 DEF PosInv, LexInv
    <3>2. file \in Seq(Runes) /\ Rest \in 1 .. Len(file) + 1
      BY <3>1, RestIsPlace DEF ScanInv
    <3>3. t.from \in 1 .. Len(file) + 1
      BY <1>2, <3>1, <3>2 DEF Behind
    <3> QED
      BY <2>1, <3>2, <3>3, PositionType
  <2>4. CommentsBefore(t.from) = {} => t.pos.column = true.column
    <3>1. CommentsBefore(t.from) = {} => Cardinality(CommentsBefore(t.from)) = 0
      BY FS_EmptySet
    <3> QED
      BY <2>2, <3>1 DEF Positions
  <2> QED
    BY <2>1, <2>2, <2>3, <2>4 DEF Positions
<1>3. PosInv => PositionsAreRight
  BY <1>2 DEF PositionsAreRight
<1> QED
  BY <1>1, <1>3, InitPlaces, PTL DEF Spec
=============================================================================

------------------------------ MODULE Tokenizer ------------------------------
(***************************************************************************)
(* idl.Tokenize: the scanner of Avro IDL, a chain of tokenizerActions over *)
(* the runes of a file.                                                    *)
(*                                                                         *)
(* A rune is the class the tokenizer puts it in; letter stands for '_'     *)
(* too, symbol for the runes isSymbol accepts, other for those that start  *)
(* no token.  All runes of a class are of one size in UTF-8.  A token is   *)
(* where it lies in the file, the runes from .. to, and the position it    *)
(* was given.                                                              *)
(***************************************************************************)
EXTENDS Naturals, SequencesExt

CONSTANTS
  Files,    \* the files to tokenize
  Size      \* how many bytes each rune takes

Runes ==
  {"space", "newline", "at", "slash", "star", "quote", "backslash", "symbol",
   "letter", "digit", "minus", "dot", "other"}

ASSUME FilesAssumption == Files \subseteq Seq(Runes)

\* Only white space, letters, digits and what starts no token lie beyond ASCII.
ASSUME SizeAssumption ==
  /\ Size \in [Runes -> Nat]
  /\ \A rune \in Runes \ {"space", "letter", "digit", "other"} : Size[rune] = 1

VARIABLES
  file,     \* the runes of the file
  read,     \* how many of them were read from t.buf
  pos,      \* t.pos
  action,   \* the next tokenizerAction
  start,    \* what it captured: where its token starts, and the position there
  tokens,   \* the tokens yielded
  errors    \* the errors yielded

vars == <<file, read, pos, action, start, tokens, errors>>

StartOfFile == [line |-> 1, column |-> 1]

Init ==
  /\ file \in Files
  /\ read = 0
  /\ pos = StartOfFile
  /\ action = "idl"
  /\ start = [at |-> 0, pos |-> StartOfFile]
  /\ tokens = << >>
  /\ errors = << >>

\* Columns are counted in bytes.
Move(p, rune) ==
  IF rune = "newline"
  THEN [line |-> p.line + 1, column |-> 1]
  ELSE [p EXCEPT !.column = @ + Size[rune]]

\* The position after the runes from .. to were read.
MoveOver(p, from, to) == FoldLeft(Move, p, SubSeq(file, from, to))

\* The last rune that copyIf copies.
LastOf(class) ==
  LET stops == {i \in read + 1 .. Len(file) : file[i] \notin class}
  IN  IF stops = {} THEN Len(file) ELSE Min(stops) - 1

AtEnd(n) == n = Len(file)

ReadTo(n, p) == read' = n /\ pos' = p

\* yieldTokenThen, of the runes from s.at to n: the consumer may have had enough
\* of tokens.
YieldFrom(s, type, n, after) ==
  /\ tokens' = Append(tokens, [type |-> type, from |-> s.at, to |-> n, pos |-> s.pos])
  /\ action' \in {after, "stopped"}
  /\ UNCHANGED <<errors, start>>

YieldThen(type, n, after) == YieldFrom(start, type, n, after)

\* Identifiers and numbers start at the rune that is read next.
Here == [at |-> read + 1, pos |-> pos]

\* yieldErrorOr: io.ErrUnexpectedEOF ends the tokens, any other error is
\* yielded before.
EndQuietly == action' = "end" /\ UNCHANGED <<tokens, errors, start>>

FailWith(errs) ==
  /\ errors' = errs
  /\ action' = "end"
  /\ UNCHANGED <<tokens, start>>

\* Mutant: the rune that starts an identifier or a number stays read.
StaysReadAlways(rune) == TRUE

\* The runes that tokenizeIDL does not back up over.
StaysRead(rune) == rune \notin {"letter", "minus", "digit"}

\* Mutant: the rune is put back, the position is not.
BackedUpKeepingPos(here, moved) == moved

\* backup.
BackedUp(here, moved) == here

\* tokenizeIDL: skip white space, then tell the token from its first rune.
TokenizeIDL ==
  LET n == LastOf({"space", "newline"})
      here == MoveOver(pos, read + 1, n)
      rune == file[n + 1]
  IN  /\ action = "idl"
      /\ IF AtEnd(n)
         THEN ReadTo(n, here) /\ EndQuietly
         ELSE /\ IF StaysRead(rune)
                 THEN ReadTo(n + 1, Move(here, rune))
                 ELSE ReadTo(n, BackedUp(here, Move(here, rune)))
              /\ IF rune \in {"space", "newline", "star", "backslash", "dot", "other"}
                 THEN FailWith(<<"unexpectedCharacter">>)
                 ELSE /\ start' = [at |-> n + 1, pos |-> here]
                      /\ action' =
                           CASE rune = "at" -> "annotation"
                             [] rune = "slash" -> "comment"
                             [] rune = "quote" -> "string"
                             [] rune = "symbol" -> "symbol"
                             [] rune = "letter" -> "identifier"
                             [] rune \in {"minus", "digit"} -> "number"
                      /\ UNCHANGED <<tokens, errors>>
      /\ UNCHANGED file

TokenizeSymbol ==
  /\ action = "symbol"
  /\ YieldThen("symbol", read, "idl")
  /\ UNCHANGED <<file, read, pos>>

\* tokenizeComment; at the end of the file the consumer gets two errors.
TokenizeComment ==
  /\ action = "comment"
  /\ IF AtEnd(read)
     THEN FailWith(<<"eof", "unexpectedCharacter">>) /\ UNCHANGED <<read, pos>>
     ELSE /\ ReadTo(read + 1, Move(pos, file[read + 1]))
          /\ IF file[read + 1] \in {"slash", "star"}
             THEN /\ action' = IF file[read + 1] = "slash" THEN "line" ELSE "block"
                  /\ UNCHANGED <<start, tokens, errors>>
             ELSE FailWith(<<"unexpectedCharacter">>)
  /\ UNCHANGED file

\* tokenizeSingleLineComment.
TokenizeLineComment ==
  LET n == LastOf(Runes \ {"newline"})
  IN  /\ action = "line"
      /\ ReadTo(n, MoveOver(pos, read + 1, n))
      /\ IF AtEnd(n) THEN EndQuietly ELSE YieldThen("comment", n, "idl")
      /\ UNCHANGED file

\* Where copyUntil can find the end of a block comment.
Closings ==
  {i \in read + 2 .. Len(file) : file[i - 1] = "star" /\ file[i] = "slash"}

\* Five runes or more, of which the third is a star: not /**/.
IsDoc(n) == n - start.at >= 4 /\ file[start.at + 2] = "star"

\* tokenizeMultiLineComment; copyUntil does not move t.pos over the last rune.
TokenizeBlockComment ==
  LET n == IF Closings = {} THEN Len(file) ELSE Min(Closings)
      moved == IF Closings = {} THEN n ELSE n - 1
  IN  /\ action = "block"
      /\ ReadTo(n, MoveOver(pos, read + 1, moved))
      /\ IF Closings = {} THEN EndQuietly
         ELSE YieldThen(IF IsDoc(n) THEN "doc" ELSE "comment", n, "idl")
      /\ UNCHANGED file

\* A token that ends the file is yielded too, and then the tokens end.
After(n) == IF AtEnd(n) THEN "end" ELSE "idl"

TokenizeIdentifier ==
  LET n == LastOf({"letter", "digit", "dot"})
  IN  /\ action = "identifier"
      /\ ReadTo(n, MoveOver(pos, read + 1, n))
      /\ YieldFrom(Here, "identifier", n, After(n))
      /\ UNCHANGED file

\* Where tokenizeNumber stops: only the first rune may be a minus, and only
\* one of the others a dot.
NumberEnd ==
  LET inNumber(i) ==
        \/ file[i] = "digit"
        \/ i = Here.at /\ file[i] = "minus"
        \/ /\ file[i] = "dot"
           /\ i # Here.at
           /\ \A j \in Here.at .. i - 1 : file[j] # "dot"
      stops == {i \in Here.at .. Len(file) : ~inNumber(i)}
  IN  IF stops = {} THEN Len(file) ELSE Min(stops) - 1

\* Mutant: what follows the minus is not looked at.
IsNumberOrMinusDot(n) == file[n] \notin {"minus", "dot"}

IsNumber(n) ==
  /\ file[n] \notin {"minus", "dot"}
  /\ ~(n > Here.at /\ file[Here.at] = "minus" /\ file[Here.at + 1] = "dot")

TokenizeNumber ==
  /\ action = "number"
  /\ ReadTo(NumberEnd, MoveOver(pos, read + 1, NumberEnd))
  /\ IF IsNumber(NumberEnd)
     THEN YieldFrom(Here, "number", NumberEnd, After(NumberEnd))
     ELSE FailWith(<<"invalidNumber">>)
  /\ UNCHANGED file

\* The quotes that no backslash escapes: a backslash that is not escaped
\* itself escapes the rune after it.
EscapedAfter(escaped, rune) == ~escaped /\ rune = "backslash"

Quotes ==
  {i \in read + 1 .. Len(file) :
     file[i] = "quote" /\ ~FoldLeft(EscapedAfter, FALSE, SubSeq(file, read + 1, i - 1))}

TokenizeString ==
  LET n == IF Quotes = {} THEN Len(file) ELSE Min(Quotes)
  IN  /\ action = "string"
      /\ ReadTo(n, MoveOver(pos, read + 1, n))
      /\ IF Quotes = {} THEN FailWith(<<"unterminatedString">>) ELSE YieldThen("string", n, "idl")
      /\ UNCHANGED file

TokenizeAnnotation ==
  LET n == LastOf({"letter", "digit", "dot", "minus"})
  IN  /\ action = "annotation"
      /\ ReadTo(n, MoveOver(pos, read + 1, n))
      /\ IF n = read THEN FailWith(<<"invalidAnnotation">>)
         ELSE YieldThen("annotation", n, After(n))
      /\ UNCHANGED file

Next ==
  \/ TokenizeIDL
  \/ TokenizeSymbol
  \/ TokenizeComment
  \/ TokenizeLineComment
  \/ TokenizeBlockComment
  \/ TokenizeIdentifier
  \/ TokenizeNumber
  \/ TokenizeString
  \/ TokenizeAnnotation

Spec == Init /\ [][Next]_vars
-----------------------------------------------------------------------------
\* Where rune n is in the file.
PositionOf(n) == MoveOver(StartOfFile, 1, n - 1)

\* Block comments that ended on the line of rune n before it.
CommentsBefore(n) ==
  {t \in ToSet(tokens) :
     /\ t.type \in {"comment", "doc"} /\ file[t.from + 1] = "star"
     /\ t.to < n
     /\ PositionOf(t.to).line = PositionOf(n).line}

(***************************************************************************)
(* What was scanned, backed up over or copied before a token, runes of     *)
(* several bytes and comments of several lines included, leaves its line   *)
(* right, and its column in bytes too unless a block comment ended before  *)
(* it on its line.                                                         *)
(***************************************************************************)
PositionsAreRight ==
  \A t \in ToSet(tokens) :
    /\ t.pos.line = PositionOf(t.from).line
    /\ CommentsBefore(t.from) = {} => t.pos = PositionOf(t.from)

(***************************************************************************)
(* Pos "represents the position of a token in the input"                   *)
(* (idl/tokenizer.go:19).  It does not behind a block comment: copyUntil   *)
(* (line 165) returns without having moved t.pos over the last rune.       *)
(***************************************************************************)
PosIsPositionOfToken == \A t \in ToSet(tokens) : t.pos = PositionOf(t.from)

Text(from, to) == SubSeq(file, from, to)

Over(s, class) == ToSet(s) \subseteq class

IsUnescaped(s) == ~\E i \in 1 .. Len(s) :
  s[i] = "quote" /\ ~FoldLeft(EscapedAfter, FALSE, SubSeq(s, 1, i - 1))

IsDecimal(s) ==
  \/ s # << >> /\ Over(s, {"digit"})
  \/ \E i \in 2 .. Len(s) - 1 :
       s[i] = "dot" /\ Over(SubSeq(s, 1, i - 1) \o SubSeq(s, i + 1, Len(s)), {"digit"})

HasNoClosing(s) == ~\E i \in 1 .. Len(s) - 1 : s[i] = "star" /\ s[i + 1] = "slash"

IsLexeme(type, s) ==
  LET inner == SubSeq(s, 2, Len(s) - 1)
      rest == Tail(s)
  IN  CASE type = "identifier" -> s[1] = "letter" /\ Over(s, {"letter", "digit", "dot"})
        [] type = "number" -> IsDecimal(s) \/ (s[1] = "minus" /\ IsDecimal(rest))
        [] type = "string" -> /\ Len(s) > 1 /\ s[1] = "quote" /\ Last(s) = "quote"
                              /\ ~FoldLeft(EscapedAfter, FALSE, inner) /\ IsUnescaped(inner)
        [] type = "annotation" -> /\ s[1] = "at" /\ rest # << >>
                                  /\ Over(rest, {"letter", "digit", "dot", "minus"})
        [] type = "symbol" -> s = <<"symbol">>
        [] type = "comment" \/ type = "doc" ->
             \/ /\ type = "comment" /\ IsPrefix(<<"slash", "slash">>, s)
                /\ ~Contains(s, "newline")
             \/ /\ IsPrefix(<<"slash", "star">>, s) /\ IsSuffix(<<"star", "slash">>, s)
                /\ Len(s) >= 4 /\ HasNoClosing(SubSeq(s, 3, Len(s) - 1))
                /\ (type = "doc") = (Len(s) > 4 /\ s[3] = "star")

(***************************************************************************)
(* Every token is well formed: strings end at the first quote that is not  *)
(* escaped, comments at the first closing, a number has digits on both     *)
(* sides of its dot.                                                       *)
(***************************************************************************)
TokensAreLexemes == \A t \in ToSet(tokens) : IsLexeme(t.type, Text(t.from, t.to))

(***************************************************************************)
(* Nothing is lost or read twice: the tokens lie one after the other with  *)
(* only white space between them, and if the tokens end without an error,  *)
(* so does the file, or a comment that never ends: a // comment without a  *)
(* newline after it is not yielded, nor is an open block comment.          *)
(***************************************************************************)
FirstAfter(k) == IF k = 0 THEN 1 ELSE tokens[k].to + 1

Blank(from, to) == Over(Text(from, to), {"space", "newline"})

OpenComment(s) ==
  \/ IsPrefix(<<"slash", "slash">>, s) /\ ~Contains(s, "newline")
  \/ IsPrefix(<<"slash", "star">>, s) /\ HasNoClosing(Tail(Tail(s)))

NothingIsLost ==
  /\ \A k \in 1 .. Len(tokens) : Blank(FirstAfter(k - 1), tokens[k].from - 1)
  /\ (action = "end" /\ errors = << >>) =>
       \E n \in FirstAfter(Len(tokens)) .. Len(file) + 1 :
         /\ Blank(FirstAfter(Len(tokens)), n - 1)
         /\ n = Len(file) + 1 \/ OpenComment(Text(n, Len(file)))
=============================================================================

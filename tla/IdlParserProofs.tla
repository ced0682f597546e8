--------------------------- MODULE IdlParserProofs ---------------------------
(***************************************************************************)
(* The parser, for every file: whatever the productions read, peek at and  *)
(* push back, no token is lost, repeated or swapped, and the parser does   *)
(* not go round for ever.                                                  *)
(*                                                                         *)
(* TokensInOrder is not inductive: that a token was pushed back must mean  *)
(* that it is the last one that was pulled, and that there is one; and     *)
(* that the parser is still at work, that nothing follows what it accepts. *)
(* That the steps run out needs the shape of the call stack besides: which *)
(* place a call returns to decides how often the parser looks ahead there. *)
(***************************************************************************)
EXTENDS IdlParser, TLAPS

Lookahead ==
  /\ source \in Sources
  /\ taken \in Nat
  /\ \/ pending = << >> /\ pulled = taken /\ taken <= Len(source.tokens)
     \/ /\ pending = <<taken + 1>>
        /\ pulled = taken + 1
        /\ taken + 1 <= Len(source.tokens)

Whole == outcome = "ok" => taken = Len(source.tokens) /\ source.end = "eof"

LEMMA LookaheadInOrder == Lookahead /\ Whole => TokensInOrder
  BY DEF Lookahead, Whole, TokensInOrder, Place

LEMMA Lengths == Lookahead => Len(source.tokens) \in Nat
  BY SourcesAssumption DEF Lookahead

\* A read takes the token that was pushed back, or else pulls one.
LEMMA ReadInOrder == Lookahead /\ Read => Lookahead'
<1> SUFFICES ASSUME Lookahead, Read PROVE Lookahead'
  OBVIOUS
<1>1. Len(source.tokens) \in Nat /\ source' = source
  BY Lengths DEF Read
<1>2. CASE pending = << >>
  BY <1>1, <1>2 DEF Lookahead, Read, Pull, AtEnd, Place
<1>3. CASE pending # << >>
  BY <1>1, <1>3 DEF Lookahead, Read, Pull, AtEnd, Place
<1> QED BY <1>2, <1>3

\* A peek pulls a token only if none was pushed back, and pushes it back.
LEMMA PeekInOrder == Lookahead /\ Peek => Lookahead'
<1> SUFFICES ASSUME Lookahead, Peek PROVE Lookahead'
  OBVIOUS
<1>1. Len(source.tokens) \in Nat /\ source' = source
  BY Lengths DEF Peek, Unread
<1>2. CASE pending = << >>
  BY <1>1, <1>2 DEF Lookahead, Peek, Unread, Pull, AtEnd, Place
<1>3. CASE pending # << >>
  BY <1>1, <1>3 DEF Lookahead, Peek, Unread, Pull, AtEnd, Place
<1> QED BY <1>2, <1>3

\* Every production either takes the next token or looks at it.
LEMMA ReadsOrPeeks == Next => Read \/ Peek
<1> SUFFICES ASSUME Next PROVE Read \/ Peek
  OBVIOUS
<1>1. CASE ExpectSymbol \/ CloseWithSymbol \/ CollectComment \/ CollectDoc \/ CollectAnnotation
  BY <1>1 DEF ExpectSymbol, CloseWithSymbol, CollectComment, CollectDoc, CollectAnnotation
<1>2. CASE ParseIdent \/ ParseEscapedName \/ ParseTypeRef \/ ParseUnionMember \/ ParseSeparator
  BY <1>2 DEF ParseIdent, ParseEscapedName, ParseTypeRef, ParseUnionMember, ParseSeparator
<1>3. CASE ParseFile \/ ParseOptionalNullable \/ ParseType
  BY <1>3 DEF ParseFile, ParseOptionalNullable, ParseType
<1>4. CASE ParseEnumOptionalDefault \/ ParseAfterEnumDoc \/ ParseEnumClose \/ ParseFixedSize
  BY <1>4 DEF ParseEnumOptionalDefault, ParseAfterEnumDoc, ParseEnumClose, ParseFixedSize
<1>5. CASE ParseFieldOrClose \/ ParseFieldNullableOrName \/ ParseFieldDefaultOrSemicolon
  BY <1>5 DEF ParseFieldOrClose, ParseFieldNullableOrName, ParseFieldDefaultOrSemicolon
<1>6. CASE ParseJSONValue \/ ParseJSONArray \/ ParseJSONObject
  BY <1>6 DEF ParseJSONValue, ParseJSONArray, ParseJSONObject
<1> QED BY <1>1, <1>2, <1>3, <1>4, <1>5, <1>6 DEF Next

\* A production moves on or refuses; only the end of the tokens is accepted.
Settles == outcome' \in {outcome, "refused"}

AcceptsEnd == Read /\ Tok.type = "eof"

LEMMA MovesSettle ==
  /\ \A f : GoOn(f) => Settles
  /\ \A at : Go(at) => Settles
  /\ \A at, node : Build(at, node) => Settles
  /\ \A v : Return(v) => Settles
  /\ Refuse => Settles
BY DEF GoOn, Go, Build, Return, Refuse, Settles

LEMMA DispatchSettles == Dispatch => Settles \/ Tok.type = "eof"
BY MovesSettle DEF Dispatch

LEMMA NextSettles == Next => outcome = "parsing" /\ (Settles \/ AcceptsEnd)
<1> SUFFICES ASSUME Next PROVE outcome = "parsing" /\ (Settles \/ AcceptsEnd)
  OBVIOUS
<1> USE MovesSettle, DispatchSettles DEF At, AcceptsEnd
<1>1. CASE ExpectSymbol \/ CloseWithSymbol \/ CollectComment \/ CollectDoc \/ CollectAnnotation
  BY <1>1 DEF ExpectSymbol, CloseWithSymbol, CollectComment, CollectDoc, CollectAnnotation
<1>2. CASE ParseIdent \/ ParseEscapedName \/ ParseTypeRef \/ ParseUnionMember \/ ParseSeparator
  BY <1>2 DEF ParseIdent, ParseEscapedName, ParseTypeRef, ParseUnionMember, ParseSeparator
<1>3. CASE ParseFile \/ ParseOptionalNullable \/ ParseType
  BY <1>3 DEF ParseFile, ParseOptionalNullable, ParseType
<1>4. CASE ParseEnumOptionalDefault \/ ParseAfterEnumDoc \/ ParseEnumClose \/ ParseFixedSize
  BY <1>4 DEF ParseEnumOptionalDefault, ParseAfterEnumDoc, ParseEnumClose, ParseFixedSize
<1>5. CASE ParseFieldOrClose \/ ParseFieldNullableOrName \/ ParseFieldDefaultOrSemicolon
  BY <1>5 DEF ParseFieldOrClose, ParseFieldNullableOrName, ParseFieldDefaultOrSemicolon
<1>6. CASE ParseJSONValue \/ ParseJSONArray \/ ParseJSONObject
  BY <1>6 DEF ParseJSONValue, ParseJSONArray, ParseJSONObject
<1> QED BY <1>1, <1>2, <1>3, <1>4, <1>5, <1>6 DEF Next

LEMMA ElementsOfSequences ==
  ASSUME NEW S, NEW s \in Seq(S), NEW i \in 1 .. Len(s) PROVE s[i] \in S
  OBVIOUS

\* No token is of the type that stands for their end.
LEMMA EndIsEnd == Lookahead /\ Tok.type = "eof" => AtEnd /\ source.end = "eof"
<1> SUFFICES ASSUME Lookahead, Tok.type = "eof" PROVE AtEnd /\ source.end = "eof"
  OBVIOUS
<1>1. Len(source.tokens) \in Nat
  BY Lengths
<1>2. source.tokens \in Seq([type : TokenTypes, val : STRING])
  BY SourcesAssumption DEF Lookahead
<1>3. Place \in Nat \ {0}
  BY DEF Lookahead, Place
<1>4. AtEnd
  <2> SUFFICES ASSUME ~AtEnd PROVE FALSE
    OBVIOUS
  <2>1. Place \in 1 .. Len(source.tokens)
    BY <1>1, <1>3 DEF AtEnd
  <2>2. source.tokens[Place] \in [type : TokenTypes, val : STRING]
    BY <1>2, <2>1, ElementsOfSequences
  <2> QED BY <2>2 DEF Tok, TokenTypes
<1> QED BY <1>4 DEF Tok, Token

LEMMA ReadToTheEnd == Lookahead /\ AtEnd => taken = Len(source.tokens)
<1> SUFFICES ASSUME Lookahead, AtEnd PROVE taken = Len(source.tokens)
  OBVIOUS
<1>1. Len(source.tokens) \in Nat
  BY Lengths
<1>2. PICK n \in Nat : n = Len(source.tokens)
  BY <1>1
<1>3. pending = << >> /\ pulled = taken /\ taken <= n /\ taken \in Nat
  <2>1. CASE pending = <<taken + 1>> /\ taken + 1 <= n
    <3>1. Place = taken + 1
      BY <2>1 DEF Place
    <3> QED BY <1>2, <2>1, <3>1 DEF Lookahead, AtEnd
  <2> QED BY <1>2, <2>1 DEF Lookahead
<1>4. Place = taken + 1
  BY <1>3 DEF Place
<1> QED BY <1>2, <1>3, <1>4 DEF AtEnd

(***************************************************************************)
(* TokensInOrder, for the files of any tokens: the pending token of        *)
(* p.unread is never overwritten while it is still to be read, and only a  *)
(* file that was read to its end is accepted.                              *)
(***************************************************************************)
THEOREM ParserTakesTokensInOrder == Spec => []TokensInOrder
<1> DEFINE Inv == Lookahead /\ Whole
<1>1. Init => Inv
  BY DEF Init, Lookahead, Whole
<1>2. Inv /\ [Next]_vars => Inv'
  <2> SUFFICES ASSUME Inv, [Next]_vars PROVE Inv'
    OBVIOUS
  <2>1. CASE Next
    <3>1. Lookahead'
      BY <2>1, ReadsOrPeeks, ReadInOrder, PeekInOrder
    <3>2. source' = source
      BY <2>1, ReadsOrPeeks DEF Read, Peek
    <3>3. CASE Settles
      <4>1. outcome' # "ok"
        BY <2>1, <3>3, NextSettles DEF Settles
      <4> QED BY <3>1, <4>1 DEF Whole
    <3>4. CASE AcceptsEnd
      <4>1. AtEnd /\ source.end = "eof"
        BY <3>4, EndIsEnd DEF AcceptsEnd
      <4>2. taken' = taken
        BY <3>4, <4>1 DEF AcceptsEnd, Read
      <4>3. taken = Len(source.tokens)
        BY <4>1, Lengths, ReadToTheEnd
      <4> QED BY <3>1, <3>2, <4>1, <4>2, <4>3 DEF Whole
    <3> QED BY <2>1, <3>1, <3>3, <3>4, NextSettles
  <2>2. CASE UNCHANGED vars
    BY <2>2 DEF Lookahead, Whole, vars, tokenVars
  <2> QED BY <2>1, <2>2
<1>3. Inv => TokensInOrder
  BY LookaheadInOrder
<1> QED BY <1>1, <1>2, <1>3, PTL DEF Spec

-----------------------------------------------------------------------------
(***************************************************************************)
(* Termination.  Between two tokens that it takes the parser may look at   *)
(* the next one several times; Looks(at) is how often at most, for a       *)
(* production that has come to at.                                         *)
(***************************************************************************)
Looks(at) ==
  CASE at \in {"TypeRef", "ListFirst", "EnumClose", "EnumValueDoc"} -> 1
    [] at \in {"UnionMember", "UnionMemberOrClose", "FieldOrClose", "EnumValue",
               "EnumCloseDoc"} -> 2
    [] at \in {"Annotations", "AnnotationNext", "EnumValueOrClose"} -> 3
    [] at \in {"Type", "FieldDoc", "CloseDoc", "EnumOptionalDefault", "EnumAfterDoc",
               "FieldNullableOrName"} -> 4
    [] OTHER -> 0

\* A bound on the steps that are left.
StepsLeft ==
  IF outcome = "parsing"
  THEN 5 * (Len(source.tokens) - taken) + Looks(Top.at) + 1
  ELSE 0

\* The places of parseFile, parseSchema and parseType, which nothing calls.
FileActions ==
  {"File", "Namespace", "NamespaceSemicolon", "Schema", "SchemaType", "SchemaNullable",
   "TypeSemicolon", "Type", "TypeNotes", "Dispatch", "Enum", "Fixed", "Record",
   "EnumOptionalDefault", "EnumDefault", "EnumAfterDoc"}

AnnotationActions ==
  {"Annotations", "AnnotationNext", "AnnotationOpen", "AnnotationValue", "AnnotationClose"}

\* The callers of collectAnnotations.
NoteTakers == {"TypeNotes", "FieldNotes", "CloseNotes", "NameNotes"}

\* The productions that are called and call expectIdentifier at once.
Headers == {"EnumName", "FixedName", "RecordName"}

CallSites ==
  {"Namespace", "SchemaType", "ArrayItems", "MapValues", "UnionType", "TypeNotes", "FieldNotes",
   "CloseNotes", "NameNotes", "AnnotationValue", "ListItem", "ObjectValue", "DefaultValue",
   "Enum", "EnumValueName", "EnumDefault", "Fixed", "Record", "FieldType", "FieldName"}

Waiting == CallSites \cup Headers

IsFrame(f) == "at" \in DOMAIN f

IsSequence(s) == \E S : s \in Seq(S)

(***************************************************************************)
(* The call stack: the outermost frame and no other is parseFile's, all    *)
(* frames but the innermost await what they have called, and who waits for *)
(* collectAnnotations asked for it.                                        *)
(***************************************************************************)
CallsInv ==
  /\ IsSequence(stack)
  /\ Len(stack) >= 1
  /\ \A i \in 1 .. Len(stack) :
       /\ IsFrame(stack[i])
       /\ (stack[i].at \in FileActions) <=> (i = 1)
       /\ (stack[i].at \in Waiting) <=> (i < Len(stack))
       /\ stack[i].at \in AnnotationActions => stack[i - 1].at \in NoteTakers

\* What a call site calls in the end.
Innermost(at) ==
  CASE at \in {"SchemaType", "ArrayItems", "UnionType", "FieldType"} -> "TypeRef"
    [] at \in NoteTakers -> "Annotations"
    [] at \in {"AnnotationValue", "ListItem", "ObjectValue", "DefaultValue"} -> "JSONValue"
    [] at \in {"Namespace", "MapValues", "EnumValueName", "EnumDefault", "FieldName", "Enum",
               "Fixed", "Record"} -> "Ident"
    [] OTHER -> at

LEMMA CalleesAre ==
  /\ DOMAIN Callees = CallSites
  /\ \A at \in CallSites :
       \/ Callees[at] = <<Innermost(at)>>
       \/ \E h \in Headers : Callees[at] = <<h, Innermost(at)>> /\ Innermost(at) = "Ident"
<1>1. DOMAIN Callees = CallSites
  BY DEF Callees, CallSites
<1>2. \A at \in {"SchemaType", "ArrayItems", "UnionType", "FieldType"} :
        Callees[at] = <<"TypeRef">> /\ Innermost(at) = "TypeRef"
  BY DEF Callees, Innermost, NoteTakers
<1>3. \A at \in NoteTakers : Callees[at] = <<"Annotations">> /\ Innermost(at) = "Annotations"
  BY DEF Callees, NoteTakers, Innermost
<1>4. \A at \in {"AnnotationValue", "ListItem", "ObjectValue", "DefaultValue"} :
        Callees[at] = <<"JSONValue">> /\ Innermost(at) = "JSONValue"
  BY DEF Callees, Innermost, NoteTakers
<1>5. \A at \in {"Namespace", "MapValues", "EnumValueName", "EnumDefault", "FieldName"} :
        Callees[at] = <<"Ident">> /\ Innermost(at) = "Ident"
  BY DEF Callees, Innermost, NoteTakers
<1>6. Callees["Enum"] = <<"EnumName", "Ident">> /\ Callees["Fixed"] = <<"FixedName", "Ident">>
      /\ Callees["Record"] = <<"RecordName", "Ident">>
  BY DEF Callees
<1>7. \A at \in {"Enum", "Fixed", "Record"} : Innermost(at) = "Ident"
  BY DEF Innermost, NoteTakers
<1>8. \A at \in CallSites :
         \/ at \in {"SchemaType", "ArrayItems", "UnionType", "FieldType"}
         \/ at \in NoteTakers
         \/ at \in {"AnnotationValue", "ListItem", "ObjectValue", "DefaultValue"}
         \/ at \in {"Namespace", "MapValues", "EnumValueName", "EnumDefault", "FieldName"}
         \/ at \in {"Enum", "Fixed", "Record"}
  BY DEF CallSites, NoteTakers
<1> HIDE DEF Callees, Innermost, CallSites
<1>9. ASSUME NEW at \in CallSites
      PROVE \/ Callees[at] = <<Innermost(at)>>
            \/ \E h \in Headers : Callees[at] = <<h, Innermost(at)>> /\ Innermost(at) = "Ident"
  <2>1. CASE at \in {"Enum", "Fixed", "Record"}
    BY <2>1, <1>6, <1>7 DEF Headers
  <2>2. CASE at \notin {"Enum", "Fixed", "Record"}
    BY <2>2, <1>2, <1>3, <1>4, <1>5, <1>8
  <2> QED BY <2>1, <2>2
<1> QED BY <1>1, <1>9

LEMMA NewIsFrame == \A at, node : IsFrame(Frame(at, node)) /\ Frame(at, node).at = at
  BY DEF IsFrame, Frame

LEMMA CalledIsFrame == \A at : IsFrame(Called(at)) /\ Called(at).at = at
  BY NewIsFrame DEF Called

LEMMA TwoSequences ==
  ASSUME NEW f, NEW S, NEW d \in Seq(S)
  PROVE  /\ <<f>> \o d \in Seq({f} \cup S)
         /\ Len(<<f>> \o d) = 1 + Len(d)
         /\ (<<f>> \o d)[1] = f
         /\ \A i \in 1 .. Len(d) : (<<f>> \o d)[i + 1] = d[i]
<1>1. <<f>> \in Seq({f} \cup S) /\ d \in Seq({f} \cup S) /\ Len(<<f>>) = 1 /\ <<f>>[1] = f
  OBVIOUS
<1> QED BY <1>1

\* The calls of f: at most two more frames, the innermost of which waits for nothing.
LEMMA EnteredFrames ==
  ASSUME NEW f, IsFrame(f), f.at \notin Headers
  PROVE  /\ IsSequence(Entered(f))
         /\ Len(Entered(f)) \in {1, 2, 3}
         /\ Entered(f)[1] = f
         /\ Entered(f)[Len(Entered(f))].at = Innermost(f.at)
         /\ Len(Entered(f)) = 1 <=> f.at \notin Waiting
         /\ \A i \in 2 .. Len(Entered(f)) :
              /\ IsFrame(Entered(f)[i])
              /\ Entered(f)[i].at \notin FileActions
              /\ (Entered(f)[i].at \in Waiting) <=> (i < Len(Entered(f)))
              /\ Entered(f)[i].at \in AnnotationActions => i = 2 /\ f.at \in NoteTakers
<1> HIDE DEF Callees
<1>1. CASE f.at \notin CallSites
  <2>1. Entered(f) = <<f>>
    BY <1>1, CalleesAre DEF Entered
  <2>2. Innermost(f.at) = f.at
    BY <1>1 DEF Innermost, CallSites, NoteTakers
  <2>3. <<f>> \in Seq({f}) /\ Len(<<f>>) = 1 /\ <<f>>[1] = f
    OBVIOUS
  <2>4. IsSequence(Entered(f)) /\ Len(Entered(f)) = 1 /\ Entered(f)[1] = f
    BY <2>1, <2>3 DEF IsSequence
  <2>5. f.at \notin Waiting
    BY <1>1 DEF Waiting
  <2>6. \A i \in 2 .. 1 : FALSE
    OBVIOUS
  <2> QED BY <2>2, <2>4, <2>5, <2>6
<1>2. CASE f.at \in CallSites
  <2> DEFINE inner == Innermost(f.at)
  <2>1. inner \in {"TypeRef", "Annotations", "JSONValue", "Ident"}
    BY <1>2 DEF Innermost, CallSites, NoteTakers
  <2>2. inner \notin FileActions /\ inner \notin Waiting
    BY <2>1 DEF FileActions, Waiting, CallSites, Headers
  <2>3. inner \in AnnotationActions => f.at \in NoteTakers
    BY <1>2 DEF AnnotationActions, Innermost, CallSites, NoteTakers
  <2>4. f.at \in Waiting
    BY <1>2 DEF Waiting
  <2> HIDE DEF inner
  <2>5. CASE Callees[f.at] = <<inner>>
    <3>0. Len(Callees[f.at]) = 1 /\ Callees[f.at][1] = inner
      BY <2>5
    <3>1. Entered(f) = <<f>> \o [i \in 1 .. 1 |-> Called(Callees[f.at][i])]
      BY <1>2, <3>0, CalleesAre DEF Entered
    <3>2. PICK d : d = [i \in 1 .. 1 |-> Called(Callees[f.at][i])]
      OBVIOUS
    <3>3. d \in Seq({Called(inner)}) /\ Len(d) = 1 /\ d[1] = Called(inner)
      BY <3>0, <3>2
    <3>4. Len(Entered(f)) = 2 /\ Entered(f)[1] = f /\ Entered(f)[2] = Called(inner)
      BY <3>1, <3>2, <3>3, TwoSequences
    <3>5. Entered(f) \in Seq({f} \cup {Called(inner)})
      BY <3>1, <3>2, <3>3, TwoSequences
    <3>7. IsSequence(Entered(f))
      BY <3>5 DEF IsSequence
    <3>6. \A i \in 2 .. 2 : i = 2
      OBVIOUS
    <3> QED BY <2>2, <2>3, <2>4, <3>4, <3>6, <3>7, CalledIsFrame DEF inner
  <2>6. ASSUME NEW h \in Headers, Callees[f.at] = <<h, inner>>, inner = "Ident"
        PROVE  /\ IsSequence(Entered(f))
               /\ Len(Entered(f)) = 3 /\ Entered(f)[1] = f
               /\ Entered(f)[2] = Called(h) /\ Entered(f)[3] = Called(inner)
    <3>0. Len(Callees[f.at]) = 2 /\ Callees[f.at][1] = h /\ Callees[f.at][2] = inner
      BY <2>6
    <3>1. Entered(f) = <<f>> \o [i \in 1 .. 2 |-> Called(Callees[f.at][i])]
      BY <1>2, <3>0, CalleesAre DEF Entered
    <3>2. PICK d : d = [i \in 1 .. 2 |-> Called(Callees[f.at][i])]
      OBVIOUS
    <3>3. \A i \in 1 .. 2 : i = 1 \/ i = 2
      OBVIOUS
    <3>4. Len(d) = 2 /\ d[1] = Called(h) /\ d[2] = Called(inner)
      BY <3>0, <3>2
    <3>5. d \in Seq({Called(h), Called(inner)})
      BY <3>0, <3>2, <3>3
    <3>6. Entered(f) \in Seq({f} \cup {Called(h), Called(inner)})
      BY <3>1, <3>2, <3>5, TwoSequences
    <3>7. IsSequence(Entered(f))
      BY <3>6 DEF IsSequence
    <3>8. Len(Entered(f)) = 3 /\ Entered(f)[1] = f
      BY <3>1, <3>2, <3>4, <3>5, TwoSequences
    <3>9. \A i \in 1 .. 2 : Entered(f)[i + 1] = d[i]
      <4>1. Entered(f) = <<f>> \o d
        BY <3>1, <3>2
      <4>2. \A i \in 1 .. Len(d) : (<<f>> \o d)[i + 1] = d[i]
        BY <3>5, TwoSequences
      <4> QED BY <3>4, <4>1, <4>2
    <3>10. Entered(f)[1 + 1] = d[1] /\ Entered(f)[2 + 1] = d[2]
      BY <3>9
    <3> QED BY <3>4, <3>7, <3>8, <3>10
  <2>8. \A h \in Headers : h \notin FileActions /\ h \in Waiting /\ h \notin AnnotationActions
    BY DEF Headers, FileActions, Waiting, AnnotationActions
  <2>9. CASE \E h \in Headers : Callees[f.at] = <<h, inner>> /\ inner = "Ident"
    <3>1. PICK h \in Headers : Callees[f.at] = <<h, inner>> /\ inner = "Ident"
      BY <2>9
    <3>2. inner \notin AnnotationActions
      BY <3>1 DEF AnnotationActions
    <3>3. /\ IsSequence(Entered(f))
          /\ Len(Entered(f)) = 3 /\ Entered(f)[1] = f
          /\ Entered(f)[2] = Called(h) /\ Entered(f)[3] = Called(inner)
      BY <2>6, <3>1
    <3>4. \A i \in 2 .. 3 : i = 2 \/ i = 3
      OBVIOUS
    <3>5. Called(h).at = h /\ Called(inner).at = inner /\ IsFrame(Called(h)) /\ IsFrame(Called(inner))
      BY CalledIsFrame
    <3>6. h \notin FileActions /\ h \in Waiting /\ h \notin AnnotationActions
      BY <2>8
    <3> QED BY <2>2, <2>4, <3>2, <3>3, <3>4, <3>5, <3>6 DEF inner
  <2> QED BY <1>2, <2>5, <2>9, CalleesAre DEF inner
<1> QED BY <1>1, <1>2

LEMMA Stacked ==
  ASSUME NEW s, IsSequence(s), NEW n \in 0 .. Len(s), NEW e, IsSequence(e)
  PROVE  LET t == SubSeq(s, 1, n) \o e
         IN  /\ IsSequence(t)
             /\ Len(t) = n + Len(e)
             /\ \A i \in 1 .. n : t[i] = s[i]
             /\ \A i \in n + 1 .. n + Len(e) : t[i] = e[i - n]
<1>1. PICK S : s \in Seq(S)
  BY DEF IsSequence
<1>2. PICK E : e \in Seq(E)
  BY DEF IsSequence
<1>3. s \in Seq(S \cup E) /\ e \in Seq(S \cup E)
  BY <1>1, <1>2
<1>4. SubSeq(s, 1, n) \in Seq(S \cup E) /\ Len(SubSeq(s, 1, n)) = n
  BY <1>3
<1>5. \A i \in 1 .. n : SubSeq(s, 1, n)[i] = s[i]
  BY <1>3
<1> QED BY <1>3, <1>4, <1>5 DEF IsSequence

\* The stack when all but the first n frames give way to f and what f calls.
LEMMA EnterKeepsCalls ==
  ASSUME CallsInv, NEW n \in 0 .. Len(stack) - 1,
         NEW f, IsFrame(f), f.at \notin Headers,
         (f.at \in FileActions) <=> (n = 0),
         f.at \in AnnotationActions => n >= 1 /\ stack[n].at \in NoteTakers,
         stack' = SubSeq(stack, 1, n) \o Entered(f)
  PROVE  CallsInv' /\ Top'.at = Innermost(f.at)
<1> DEFINE e == Entered(f)
<1>1. /\ IsSequence(e)
      /\ Len(e) \in {1, 2, 3}
      /\ e[1] = f
      /\ e[Len(e)].at = Innermost(f.at)
      /\ Len(e) = 1 <=> f.at \notin Waiting
  BY EnteredFrames
<1>2. \A i \in 2 .. Len(e) :
         /\ IsFrame(e[i])
         /\ e[i].at \notin FileActions
         /\ (e[i].at \in Waiting) <=> (i < Len(e))
         /\ e[i].at \in AnnotationActions => i = 2 /\ f.at \in NoteTakers
  BY EnteredFrames
<1>3. IsSequence(stack) /\ Len(stack) \in Nat
  BY DEF CallsInv, IsSequence
<1>4. n \in Nat /\ n \in 0 .. Len(stack)
  BY <1>3
<1>a. stack' = SubSeq(stack, 1, n) \o e
  OBVIOUS
<1>b. IsSequence(e) /\ Len(e) \in {1, 2, 3}
  BY <1>1
<1> HIDE DEF e
<1>c. PICK k \in {1, 2, 3} : k = Len(e)
  BY <1>b
<1>d. PICK m \in Nat : m = Len(stack)
  BY <1>3
<1>5. /\ IsSequence(stack')
      /\ Len(stack') = n + Len(e)
      /\ \A i \in 1 .. n : stack'[i] = stack[i]
      /\ \A i \in n + 1 .. n + Len(e) : stack'[i] = e[i - n]
  <2>1. /\ IsSequence(SubSeq(stack, 1, n) \o e)
        /\ Len(SubSeq(stack, 1, n) \o e) = n + Len(e)
        /\ \A i \in 1 .. n : (SubSeq(stack, 1, n) \o e)[i] = stack[i]
        /\ \A i \in n + 1 .. n + Len(e) : (SubSeq(stack, 1, n) \o e)[i] = e[i - n]
    <3> QED BY <1>b, <1>3, <1>4, Stacked
  <2> QED BY <1>a, <2>1
<1>6. Len(stack') \in Nat /\ Len(stack') >= 1 /\ Len(stack') > n
  <2>1. Len(stack') = n + k
    BY <1>5, <1>c
  <2>2. k \in Nat /\ k >= 1
    BY <1>c
  <2> QED BY <1>4, <2>1, <2>2
<1>7. ASSUME NEW i \in 1 .. n
      PROVE /\ IsFrame(stack'[i])
            /\ (stack'[i].at \in FileActions) <=> (i = 1)
            /\ (stack'[i].at \in Waiting) <=> (i < Len(stack'))
            /\ stack'[i].at \in AnnotationActions => stack'[i - 1].at \in NoteTakers
  <2>1. i \in 1 .. Len(stack) /\ i < Len(stack) /\ i < Len(stack')
    BY <1>3, <1>4, <1>6
  <2>2. stack'[i] = stack[i]
    BY <1>5
  <2>3. /\ IsFrame(stack[i])
        /\ (stack[i].at \in FileActions) <=> (i = 1)
        /\ (stack[i].at \in Waiting) <=> (i < Len(stack))
        /\ stack[i].at \in AnnotationActions => stack[i - 1].at \in NoteTakers
    BY <2>1 DEF CallsInv
  <2>4. stack[i].at \in AnnotationActions => i # 1
    BY <2>3 DEF AnnotationActions, FileActions
  <2>5. i # 1 => stack'[i - 1] = stack[i - 1]
    BY <1>4, <1>5
  <2> QED BY <2>1, <2>2, <2>3, <2>4, <2>5
<1>8. ASSUME NEW i \in n + 1 .. n + Len(e)
      PROVE /\ IsFrame(stack'[i])
            /\ (stack'[i].at \in FileActions) <=> (i = 1)
            /\ (stack'[i].at \in Waiting) <=> (i < Len(stack'))
            /\ stack'[i].at \in AnnotationActions => stack'[i - 1].at \in NoteTakers
  <2>1. stack'[i] = e[i - n]
    BY <1>5
  <2>2. CASE i = n + 1
    <3>1. stack'[i] = f
      <4>1. i - n = 1
        BY <1>4, <2>2
      <4> QED BY <1>1, <2>1, <4>1
    <3>2. (i = 1) <=> (n = 0)
      BY <1>4, <2>2
    <3>3. (i < Len(stack')) <=> (Len(e) # 1)
      <4>1. Len(stack') = n + k
        BY <1>5, <1>c
      <4>2. (n + 1 < n + k) <=> (k # 1)
        <5>1. \A x, y \in Nat : y >= 1 => ((x + 1 < x + y) <=> (y # 1))
          OBVIOUS
        <5>2. k \in Nat /\ k >= 1
          BY <1>c
        <5> QED BY <1>4, <5>1, <5>2
      <4> QED BY <1>c, <2>2, <4>1, <4>2
    <3>4. n >= 1 => stack'[i - 1] = stack[n]
      BY <1>4, <1>5, <2>2
    <3> QED BY <1>1, <3>1, <3>2, <3>3, <3>4
  <2>3. CASE i # n + 1
    <3>1. i - n \in 2 .. Len(e)
      BY <1>1, <1>4, <2>3
    <3>2. (i < Len(stack')) <=> (i - n < Len(e))
      <4>1. Len(stack') = n + k /\ i \in Int
        BY <1>4, <1>5, <1>c
      <4> QED BY <1>c, <1>4, <4>1
    <3>3. i # 1
      BY <1>4, <2>3
    <3>4. stack'[n + 1] = f
      BY <1>1, <1>4, <1>5
    <3>5. i - n = 2 => i - 1 = n + 1
      BY <1>4
    <3> QED BY <1>2, <2>1, <3>1, <3>2, <3>3, <3>4, <3>5
  <2> QED BY <2>2, <2>3
<1>9. CallsInv'
  <2>1. \A i \in 1 .. Len(stack') : i \in 1 .. n \/ i \in n + 1 .. n + Len(e)
    BY <1>1, <1>4, <1>5
  <2> QED BY <1>5, <1>6, <1>7, <1>8, <2>1 DEF CallsInv
<1>10. Top'.at = Innermost(f.at)
  <2>1. Len(stack') \in n + 1 .. n + Len(e) /\ Len(stack') - n = Len(e)
    <3>1. Len(stack') = n + k
      BY <1>5, <1>c
    <3> QED BY <1>c, <1>4, <3>1
  <2> QED BY <1>1, <1>5, <2>1 DEF Top
<1> QED BY <1>9, <1>10

\* Where a caller goes on when the call it waits for returns.
Continues(at) ==
  CASE at = "Namespace" -> "NamespaceSemicolon"
    [] at = "SchemaType" -> "SchemaNullable"
    [] at = "ArrayItems" -> "ArrayClose"
    [] at = "MapValues" -> "MapClose"
    [] at = "UnionType" -> "UnionSep"
    [] at = "TypeNotes" -> "Dispatch"
    [] at = "FieldNotes" -> "FieldType"
    [] at = "CloseNotes" -> "FieldOrClose"
    [] at = "NameNotes" -> "FieldName"
    [] at = "AnnotationValue" -> "AnnotationClose"
    [] at = "ListItem" -> "ListSep"
    [] at = "ObjectValue" -> "ObjectSep"
    [] at = "DefaultValue" -> "FieldSemicolon"
    [] at = "Enum" -> "EnumOptionalDefault"
    [] at \in {"Fixed", "Record"} -> "Type"
    [] at = "EnumName" -> "EnumOpen"
    [] at = "FixedName" -> "FixedOpen"
    [] at = "RecordName" -> "RecordOpen"
    [] at = "EnumValueName" -> "EnumValueSep"
    [] at = "EnumDefault" -> "TypeSemicolon"
    [] at = "FieldType" -> "FieldNullableOrName"
    [] at = "FieldName" -> "FieldDefaultOrSemicolon"

LEMMA DeliveredFrame ==
  ASSUME NEW f, IsFrame(f), f.at \in Waiting, NEW v
  PROVE  IsFrame(Delivered(f, v)) /\ Delivered(f, v).at = Continues(f.at)
<1> USE DEF IsFrame, Continues
<1>1. CASE f.at \in {"Namespace", "SchemaType", "ArrayItems", "MapValues", "UnionType"}
  BY <1>1 DEF Delivered
<1>2. CASE f.at \in {"TypeNotes", "FieldNotes", "CloseNotes", "NameNotes", "AnnotationValue"}
  BY <1>2 DEF Delivered
<1>3. CASE f.at \in {"ListItem", "ObjectValue", "DefaultValue", "Enum", "Fixed", "Record"}
  BY <1>3 DEF Delivered
<1>4. CASE f.at \in {"EnumName", "FixedName", "RecordName", "EnumValueName", "EnumDefault"}
  BY <1>4 DEF Delivered
<1>5. CASE f.at \in {"FieldType", "FieldName"}
  BY <1>5 DEF Delivered
<1> QED BY <1>1, <1>2, <1>3, <1>4, <1>5 DEF Waiting, CallSites, Headers

-----------------------------------------------------------------------------
\* A place that the production of the innermost frame may go on at.
Stays(at) ==
  /\ (at \in FileActions) <=> (Top.at \in FileActions)
  /\ at \in AnnotationActions => Top.at \in AnnotationActions
  /\ at \notin Headers

Moves == \E f : GoOn(f) /\ IsFrame(f) /\ Stays(f.at)

Returns == Top.at \notin FileActions /\ \E v : Return(v)

(***************************************************************************)
(* What a step of the parser does: it takes a token and goes on, it is the *)
(* last, it goes on after a look, or a look ends the annotations.          *)
(***************************************************************************)
Takes == Read /\ ~AtEnd /\ (Moves \/ Returns)

Stops == outcome' # "parsing" /\ UNCHANGED stack

LooksOn == Peek /\ \E at : Go(at) /\ Stays(at) /\ Looks(Innermost(at)) < Looks(Top.at)

EndsNotes == Peek /\ Top.at \in {"Annotations", "AnnotationNext"} /\ Return(Top.node)

StepShape == Takes \/ Stops \/ LooksOn \/ EndsNotes

LEMMA TopIsFrame == CallsInv => IsFrame(Top)
<1> SUFFICES ASSUME CallsInv PROVE IsFrame(Top)
  OBVIOUS
<1>1. Len(stack) \in Nat
  BY DEF CallsInv, IsSequence
<1> QED BY <1>1 DEF CallsInv, Top

LEMMA MovesAre ==
  ASSUME CallsInv
  PROVE  /\ \A at : Go(at) /\ Stays(at) => Moves
         /\ \A at, node : Build(at, node) /\ Stays(at) => Moves
<1>1. ASSUME NEW at, Go(at), Stays(at) PROVE Moves
  <2> DEFINE f == [Top EXCEPT !.at = at]
  <2>1. IsFrame(f) /\ f.at = at
    BY TopIsFrame DEF IsFrame
  <2>2. GoOn(f)
    BY <1>1 DEF Go
  <2> QED BY <1>1, <2>1, <2>2 DEF Moves
<1>2. ASSUME NEW at, NEW node, Build(at, node), Stays(at) PROVE Moves
  <2> DEFINE f == [Top EXCEPT !.at = at, !.node = node]
  <2>1. IsFrame(f) /\ f.at = at
    BY TopIsFrame DEF IsFrame
  <2>2. GoOn(f)
    BY <1>2 DEF Build
  <2> QED BY <1>2, <2>1, <2>2 DEF Moves
<1> QED BY <1>1, <1>2

LEMMA EndTokens == Lookahead /\ AtEnd => Tok.type \in {"eof", "error"} /\ Tok = Token(source.end, "")
  BY SourcesAssumption DEF Lookahead, Tok, Token

LEMMA SymbolType == \A s : Symbol(s).type = "symbol"
  BY DEF Symbol, Token

LEMMA RefuseStops == Refuse => Stops
  BY DEF Refuse, Stops

LEMMA ExpectSymbolShape ==
  ASSUME CallsInv, Lookahead, ExpectSymbol PROVE StepShape
<1>1. CASE Tok = Symbol(Expects[Top.at][1])
  <2>1. ~AtEnd
    BY <1>1, EndTokens, SymbolType
  <2>2. Stays(Expects[Top.at][2])
    <3>1. Top.at \in {"NamespaceSemicolon", "TypeSemicolon", "ArrayOpen", "MapOpen", "UnionOpen",
                       "EnumOpen", "FixedOpen",
                       "FixedClose", "RecordOpen", "FieldSemicolon", "AnnotationOpen",
                       "AnnotationClose", "ObjectColon"}
      BY DEF ExpectSymbol, Expects
    <3>2. /\ Expects["NamespaceSemicolon"][2] = "Schema" /\ Expects["TypeSemicolon"][2] = "Type"
          /\ Expects["ArrayOpen"][2] = "ArrayItems" /\ Expects["MapOpen"][2] = "MapValues"
          /\ Expects["UnionOpen"][2] = "UnionMember" /\ Expects["EnumOpen"][2] = "EnumValue"
          /\ Expects["FixedOpen"][2] = "FixedSize" /\ Expects["FixedClose"][2] = "FixedSemicolon"
          /\ Expects["RecordOpen"][2] = "FieldDoc" /\ Expects["FieldSemicolon"][2] = "CloseDoc"
          /\ Expects["AnnotationOpen"][2] = "AnnotationValue"
          /\ Expects["AnnotationClose"][2] = "AnnotationNext"
          /\ Expects["ObjectColon"][2] = "ObjectValue"
      BY DEF Expects
    <3> QED BY <3>1, <3>2 DEF Stays, FileActions, AnnotationActions, Headers
  <2> QED BY <1>1, <2>1, <2>2, MovesAre DEF ExpectSymbol, StepShape, Takes
<1>2. CASE Tok # Symbol(Expects[Top.at][1])
  BY <1>2, RefuseStops DEF ExpectSymbol, StepShape
<1> QED BY <1>1, <1>2

LEMMA CloseWithSymbolShape ==
  ASSUME CallsInv, Lookahead, CloseWithSymbol PROVE StepShape
<1>1. CASE Tok = Symbol(Closes[Top.at])
  <2>1. ~AtEnd
    BY <1>1, EndTokens, SymbolType
  <2>2. Top.at \notin FileActions
    BY DEF CloseWithSymbol, Closes, FileActions
  <2> QED BY <1>1, <2>1, <2>2 DEF CloseWithSymbol, StepShape, Takes, Returns
<1>2. CASE Tok # Symbol(Closes[Top.at])
  BY <1>2, RefuseStops DEF CloseWithSymbol, StepShape
<1> QED BY <1>1, <1>2

LEMMA CollectCommentShape ==
  ASSUME CallsInv, Lookahead, CollectComment PROVE StepShape
<1>1. CASE Tok.type = "comment"
  <2>1. ~AtEnd
    BY <1>1, EndTokens
  <2> DEFINE f == [Top EXCEPT !.comments = Append(@, Tok)]
  <2>2. IsFrame(f) /\ f.at = Top.at
    BY TopIsFrame DEF IsFrame
  <2>3. Stays(f.at)
    BY <2>2 DEF CollectComment, Commented, Stays, FileActions, AnnotationActions, Headers
  <2>4. GoOn(f) /\ Read
    BY <1>1 DEF CollectComment
  <2> QED BY <2>1, <2>2, <2>3, <2>4 DEF StepShape, Takes, Moves
<1>2. CASE Tok.type = "error"
  BY <1>2, RefuseStops DEF CollectComment, StepShape
<1>3. CASE Tok.type \notin {"comment", "error"}
  <2>1. Peek /\ Go(Commented[Top.at])
    BY <1>3 DEF CollectComment
  <2>2. Stays(Commented[Top.at])
    BY DEF CollectComment, Commented, Stays, FileActions, AnnotationActions, Headers
  <2>3. Looks(Innermost(Commented[Top.at])) < Looks(Top.at)
    BY DEF CollectComment, Commented, Looks, Innermost, NoteTakers
  <2> QED BY <2>1, <2>2, <2>3 DEF StepShape, LooksOn
<1> QED BY <1>1, <1>2, <1>3

LEMMA CollectDocShape ==
  ASSUME CallsInv, Lookahead, CollectDoc PROVE StepShape
<1>1. Stays(Documented[Top.at])
  BY DEF CollectDoc, Documented, Stays, FileActions, AnnotationActions, Headers
<1>2. CASE Tok.type = "doc"
  <2>1. ~AtEnd
    BY <1>2, EndTokens
  <2> DEFINE f == [Top EXCEPT !.at = Documented[@], !.doc = CleanDoc(Tok.val)]
  <2>2. IsFrame(f) /\ f.at = Documented[Top.at]
    BY TopIsFrame DEF IsFrame
  <2>3. GoOn(f) /\ Read
    BY <1>2 DEF CollectDoc
  <2>4. Stays(f.at)
    BY <1>1, <2>2
  <2> QED BY <2>1, <2>2, <2>3, <2>4 DEF StepShape, Takes, Moves
<1>3. CASE Tok.type = "error"
  BY <1>3, RefuseStops DEF CollectDoc, StepShape
<1>4. CASE Tok.type \notin {"doc", "error"}
  <2>1. Peek /\ Go(Documented[Top.at])
    BY <1>4 DEF CollectDoc
  <2>2. Looks(Innermost(Documented[Top.at])) < Looks(Top.at)
    BY DEF CollectDoc, Documented, Looks, Innermost, NoteTakers
  <2> QED BY <1>1, <2>1, <2>2 DEF StepShape, LooksOn
<1> QED BY <1>2, <1>3, <1>4

LEMMA CollectAnnotationShape ==
  ASSUME CallsInv, Lookahead, CollectAnnotation PROVE StepShape
<1>1. CASE Tok.type = "annotation"
  <2>1. ~AtEnd
    BY <1>1, EndTokens
  <2>2. Stays("AnnotationOpen")
    BY DEF CollectAnnotation, At, Stays, FileActions, AnnotationActions, Headers
  <2> QED BY <1>1, <2>1, <2>2, MovesAre DEF CollectAnnotation, StepShape, Takes
<1>2. CASE Tok.type = "error"
  BY <1>2, RefuseStops DEF CollectAnnotation, StepShape
<1>3. CASE Tok.type \notin {"annotation", "error"}
  BY <1>3 DEF CollectAnnotation, At, StepShape, EndsNotes
<1> QED BY <1>1, <1>2, <1>3

LEMMA ParseIdentShape ==
  ASSUME CallsInv, Lookahead, ParseIdent PROVE StepShape
<1>0. Top.at \notin FileActions /\ Stays("EscapedName")
  BY DEF ParseIdent, At, Stays, FileActions, AnnotationActions, Headers
<1>1. CASE Tok.type = "identifier"
  <2>1. ~AtEnd
    BY <1>1, EndTokens
  <2>2. Read /\ Return(Ident(Tok.val))
    BY <1>1 DEF ParseIdent
  <2> QED BY <1>0, <2>1, <2>2 DEF StepShape, Takes, Returns
<1>2. CASE Tok.type # "identifier" /\ Tok = Backtick
  <2>1. ~AtEnd
    BY <1>2, EndTokens, SymbolType DEF Backtick
  <2> QED BY <1>0, <1>2, <2>1, MovesAre DEF ParseIdent, StepShape, Takes
<1>3. CASE Tok.type # "identifier" /\ Tok # Backtick
  BY <1>3, RefuseStops DEF ParseIdent, StepShape
<1> QED BY <1>1, <1>2, <1>3

LEMMA ParseEscapedNameShape ==
  ASSUME CallsInv, Lookahead, ParseEscapedName PROVE StepShape
<1>1. CASE Tok.type = "identifier"
  <2>1. ~AtEnd
    BY <1>1, EndTokens
  <2>2. Stays("EscapedClose")
    BY DEF ParseEscapedName, At, Stays, FileActions, AnnotationActions, Headers
  <2> QED BY <1>1, <2>1, <2>2, MovesAre DEF ParseEscapedName, StepShape, Takes
<1>2. CASE Tok.type # "identifier"
  BY <1>2, RefuseStops DEF ParseEscapedName, StepShape
<1> QED BY <1>1, <1>2

LEMMA ParseTypeRefShape ==
  ASSUME CallsInv, Lookahead, ParseTypeRef PROVE StepShape
<1>1. Top.at = "TypeRef" /\ Top.at \notin FileActions
  BY DEF ParseTypeRef, At, FileActions
<1>2. CASE Tok = Backtick
  <2>1. Stays("Ident") /\ Looks(Innermost("Ident")) < Looks(Top.at)
    BY <1>1 DEF Stays, FileActions, AnnotationActions, Headers, Looks, Innermost, NoteTakers
  <2> QED BY <1>2, <2>1 DEF ParseTypeRef, StepShape, LooksOn
<1>3. CASE Tok # Backtick /\ Tok.type # "identifier"
  BY <1>3, RefuseStops DEF ParseTypeRef, StepShape
<1>4. CASE Tok # Backtick /\ Tok.type = "identifier"
  <2>1. ~AtEnd /\ Read
    BY <1>4, EndTokens DEF ParseTypeRef
  <2>2. CASE Tok.val \in DOMAIN TypeKeywords
    <3>1. Stays(TypeKeywords[Tok.val])
      BY <1>1, <2>2 DEF TypeKeywords, Stays, FileActions, AnnotationActions, Headers
    <3> QED BY <1>4, <2>1, <2>2, <3>1, MovesAre DEF ParseTypeRef, StepShape, Takes
  <2>3. CASE Tok.val \notin DOMAIN TypeKeywords
    <3>1. Return(Ident(Tok.val))
      BY <1>4, <2>3 DEF ParseTypeRef
    <3> QED BY <1>1, <2>1, <3>1 DEF StepShape, Takes, Returns
  <2> QED BY <2>2, <2>3
<1> QED BY <1>2, <1>3, <1>4

LEMMA ParseUnionMemberShape ==
  ASSUME CallsInv, Lookahead, ParseUnionMember PROVE StepShape
<1>1. Top.at \in {"UnionMember", "UnionMemberOrClose"} /\ Top.at \notin FileActions
  BY DEF ParseUnionMember, At, FileActions
<1>2. CASE IsName(Tok)
  <2>1. Stays("UnionType") /\ Looks(Innermost("UnionType")) < Looks(Top.at)
    BY <1>1 DEF Stays, FileActions, AnnotationActions, Headers, Looks, Innermost, NoteTakers
  <2> QED BY <1>2, <2>1 DEF ParseUnionMember, StepShape, LooksOn
<1>3. CASE ~IsName(Tok) /\ Tok = Symbol("}") /\ Top.at = "UnionMemberOrClose"
  <2>1. ~AtEnd
    BY <1>3, EndTokens, SymbolType
  <2> QED BY <1>1, <1>3, <2>1 DEF ParseUnionMember, StepShape, Takes, Returns
<1>4. CASE ~IsName(Tok) /\ ~(Tok = Symbol("}") /\ Top.at = "UnionMemberOrClose")
  BY <1>4, RefuseStops DEF ParseUnionMember, StepShape
<1> QED BY <1>2, <1>3, <1>4

LEMMA ParseSeparatorShape ==
  ASSUME CallsInv, Lookahead, ParseSeparator PROVE StepShape
<1>1. Top.at \notin FileActions /\ Stays(Separated[Top.at])
  <2>1. Top.at \in {"UnionSep", "EnumValueSep"}
    BY DEF ParseSeparator, Separated
  <2>2. Separated[Top.at] \in {"UnionMemberOrClose", "EnumValueOrClose"}
    BY <2>1 DEF Separated
  <2> QED BY <2>1, <2>2 DEF Stays, FileActions, AnnotationActions, Headers
<1>2. Symbol(",") # Symbol("}")
  BY DEF Symbol, Token
<1>3. CASE Tok = Symbol(",")
  <2>1. ~AtEnd
    BY <1>3, EndTokens, SymbolType
  <2>2. Read /\ Go(Separated[Top.at])
    BY <1>2, <1>3 DEF ParseSeparator
  <2> QED BY <1>1, <2>1, <2>2, MovesAre DEF StepShape, Takes
<1>4. CASE Tok = Symbol("}")
  <2>1. ~AtEnd
    BY <1>4, EndTokens, SymbolType
  <2>2. Read /\ Return(Top.node)
    BY <1>2, <1>4 DEF ParseSeparator
  <2> QED BY <1>1, <2>1, <2>2 DEF StepShape, Takes, Returns
<1>5. CASE Tok \notin {Symbol(","), Symbol("}")}
  BY <1>5, RefuseStops DEF ParseSeparator, StepShape
<1> QED BY <1>3, <1>4, <1>5

LEMMA ParseFileShape ==
  ASSUME CallsInv, Lookahead, ParseFile PROVE StepShape
<1>1. Top.at \in {"File", "Schema"} /\ Read
  BY DEF ParseFile, At
<1>2. Stays(Top.at) /\ Stays("SchemaType") /\ Stays("Namespace")
  BY <1>1 DEF Stays, FileActions, AnnotationActions, Headers
<1>3. CASE ~AtEnd
  <2>1. \/ \E node : Build(Top.at, node)
        \/ Go("SchemaType")
        \/ Go("Namespace")
        \/ Refuse
    BY DEF ParseFile
  <2> QED BY <1>1, <1>2, <1>3, <2>1, MovesAre, RefuseStops DEF StepShape, Takes
<1>4. CASE AtEnd
  <2>1. Tok.type \in {"eof", "error"}
    BY <1>4, EndTokens
  <2>2. Tok # Name("schema") /\ Tok # Name("namespace")
    BY <2>1 DEF Name, Token
  <2> QED BY <2>1, <2>2, RefuseStops DEF ParseFile, StepShape
<1> QED BY <1>3, <1>4

LEMMA ParseOptionalNullableShape ==
  ASSUME CallsInv, Lookahead, ParseOptionalNullable PROVE StepShape
<1>1. Top.at = "SchemaNullable" /\ Read
  BY DEF ParseOptionalNullable, At
<1>2. Stays("TypeSemicolon") /\ Stays("Type")
  BY <1>1 DEF Stays, FileActions, AnnotationActions, Headers
<1>3. CASE ~AtEnd
  <2>1. \/ \E node : Build("TypeSemicolon", node)
        \/ Go("Type")
        \/ Refuse
    BY DEF ParseOptionalNullable
  <2> QED BY <1>1, <1>2, <1>3, <2>1, MovesAre, RefuseStops DEF StepShape, Takes
<1>4. CASE AtEnd
  <2>1. Tok # Symbol("?") /\ Tok # Symbol(";")
    BY <1>4, EndTokens, SymbolType
  <2> QED BY <2>1, RefuseStops DEF ParseOptionalNullable, StepShape
<1> QED BY <1>3, <1>4

\* dispatchType, after any of the reads that lead to it.
LEMMA DispatchShape ==
  ASSUME CallsInv, Lookahead, Read, Dispatch,
         Top.at \in {"Dispatch", "EnumOptionalDefault", "EnumAfterDoc"}
  PROVE  StepShape
<1>1. CASE Tok.type = "eof"
  BY <1>1 DEF Dispatch, Accept, StepShape, Stops
<1>2. CASE Tok.type = "identifier" /\ Tok.val \in DOMAIN Declarations
  <2>1. ~AtEnd
    BY <1>2, EndTokens
  <2>2. Stays(Declarations[Tok.val])
    BY <1>2 DEF Declarations, Stays, FileActions, AnnotationActions, Headers
  <2>3. Go(Declarations[Tok.val])
    BY <1>2 DEF Dispatch
  <2> QED BY <2>1, <2>2, <2>3, MovesAre DEF StepShape, Takes
<1>3. CASE Tok.type # "eof" /\ ~(Tok.type = "identifier" /\ Tok.val \in DOMAIN Declarations)
  BY <1>3, RefuseStops DEF Dispatch, StepShape
<1> QED BY <1>1, <1>2, <1>3

LEMMA ParseTypeShape ==
  ASSUME CallsInv, Lookahead, ParseType PROVE StepShape
  BY DispatchShape DEF ParseType, At

LEMMA TakesNotes ==
  ASSUME Top.at \in {"EnumOptionalDefault", "EnumAfterDoc"}
  PROVE  Stays("TypeNotes") /\ Looks(Innermost("TypeNotes")) < Looks(Top.at)
  BY DEF Stays, FileActions, AnnotationActions, Headers, Looks, Innermost, NoteTakers

LEMMA ParseEnumOptionalDefaultShape ==
  ASSUME CallsInv, Lookahead, ParseEnumOptionalDefault PROVE StepShape
<1>1. Top.at = "EnumOptionalDefault"
  BY DEF ParseEnumOptionalDefault, At
<1>2. CASE Tok = Symbol("=")
  <2>1. ~AtEnd /\ Tok.type = "symbol"
    BY <1>2, EndTokens, SymbolType
  <2>2. Read /\ Go("EnumDefault")
    BY <1>2, <2>1 DEF ParseEnumOptionalDefault
  <2>3. Stays("EnumDefault")
    BY <1>1 DEF Stays, FileActions, AnnotationActions, Headers
  <2> QED BY <2>1, <2>2, <2>3, MovesAre DEF StepShape, Takes
<1>3. CASE Tok.type = "doc"
  <2>1. ~AtEnd /\ Tok # Symbol("=")
    BY <1>3, EndTokens, SymbolType
  <2> DEFINE f == [Top EXCEPT !.at = "EnumAfterDoc", !.doc = CleanDoc(Tok.val)]
  <2>2. IsFrame(f) /\ f.at = "EnumAfterDoc"
    BY TopIsFrame DEF IsFrame
  <2>3. Read /\ GoOn(f)
    BY <1>3, <2>1 DEF ParseEnumOptionalDefault
  <2>4. Stays("EnumAfterDoc")
    BY <1>1 DEF Stays, FileActions, AnnotationActions, Headers
  <2> QED BY <2>1, <2>2, <2>3, <2>4 DEF StepShape, Takes, Moves
<1>4. CASE Tok.type = "annotation"
  <2>1. Tok # Symbol("=")
    BY <1>4, SymbolType
  <2>2. Peek /\ Go("TypeNotes")
    BY <1>4, <2>1 DEF ParseEnumOptionalDefault
  <2> QED BY <1>1, <2>2, TakesNotes DEF StepShape, LooksOn
<1>5. CASE Tok # Symbol("=") /\ Tok.type \notin {"doc", "annotation"}
  <2>1. Read /\ Dispatch
    BY <1>5 DEF ParseEnumOptionalDefault
  <2> QED BY <1>1, <2>1, DispatchShape
<1> QED BY <1>2, <1>3, <1>4, <1>5

LEMMA ParseAfterEnumDocShape ==
  ASSUME CallsInv, Lookahead, ParseAfterEnumDoc PROVE StepShape
<1>1. Top.at = "EnumAfterDoc"
  BY DEF ParseAfterEnumDoc, At
<1>2. CASE Tok.type = "annotation"
  BY <1>1, <1>2, TakesNotes DEF ParseAfterEnumDoc, StepShape, LooksOn
<1>3. CASE Tok.type # "annotation"
  BY <1>1, <1>3, DispatchShape DEF ParseAfterEnumDoc
<1> QED BY <1>2, <1>3

LEMMA ParseEnumCloseShape ==
  ASSUME CallsInv, Lookahead, ParseEnumClose PROVE StepShape
<1>1. Top.at = "EnumClose" /\ Top.at \notin FileActions
  BY DEF ParseEnumClose, At, FileActions
<1>2. CASE Tok = Backtick
  <2>1. Stays("EnumValueName") /\ Looks(Innermost("EnumValueName")) < Looks(Top.at)
    BY <1>1 DEF Stays, FileActions, AnnotationActions, Headers, Looks, Innermost, NoteTakers
  <2> QED BY <1>2, <2>1 DEF ParseEnumClose, StepShape, LooksOn
<1>3. CASE Tok # Backtick /\ Tok = Symbol("}")
  <2>1. ~AtEnd /\ Tok.type # "identifier"
    BY <1>3, EndTokens, SymbolType
  <2>2. Read /\ Return(Top.node)
    BY <1>3, <2>1 DEF ParseEnumClose
  <2> QED BY <1>1, <2>1, <2>2 DEF StepShape, Takes, Returns
<1>4. CASE Tok # Backtick /\ Tok.type = "identifier"
  <2>1. ~AtEnd /\ Tok # Symbol("}")
    BY <1>4, EndTokens, SymbolType
  <2> DEFINE f == [Top EXCEPT !.at = "EnumValueName"]
  <2>2. IsFrame(f) /\ f.at = "EnumValueName" /\ f.at \in Waiting
    BY TopIsFrame DEF IsFrame, Waiting, CallSites
  <2>3. Read /\ GoOn(Delivered(f, Ident(Tok.val)))
    BY <1>4, <2>1 DEF ParseEnumClose
  <2> HIDE DEF f
  <2>4. IsFrame(Delivered(f, Ident(Tok.val))) /\ Delivered(f, Ident(Tok.val)).at = "EnumValueSep"
    BY <2>2, DeliveredFrame DEF Continues
  <2>5. Stays("EnumValueSep")
    BY <1>1 DEF Stays, FileActions, AnnotationActions, Headers
  <2> QED BY <2>1, <2>3, <2>4, <2>5 DEF StepShape, Takes, Moves
<1>5. CASE Tok \notin {Backtick, Symbol("}")} /\ Tok.type # "identifier"
  BY <1>5, RefuseStops DEF ParseEnumClose, StepShape
<1> QED BY <1>2, <1>3, <1>4, <1>5

LEMMA ParseFixedSizeShape ==
  ASSUME CallsInv, Lookahead, ParseFixedSize PROVE StepShape
<1>1. CASE Tok.type = "number" /\ Tok.val \notin Fractions
  <2>1. ~AtEnd
    BY <1>1, EndTokens
  <2>2. Stays("FixedClose")
    BY DEF ParseFixedSize, At, Stays, FileActions, AnnotationActions, Headers
  <2>3. Read /\ \E node : Build("FixedClose", node)
    BY <1>1 DEF ParseFixedSize
  <2> QED BY <2>1, <2>2, <2>3, MovesAre DEF StepShape, Takes
<1>2. CASE ~(Tok.type = "number" /\ Tok.val \notin Fractions)
  BY <1>2, RefuseStops DEF ParseFixedSize, StepShape
<1> QED BY <1>1, <1>2

LEMMA ParseFieldOrCloseShape ==
  ASSUME CallsInv, Lookahead, ParseFieldOrClose PROVE StepShape
<1>1. Top.at = "FieldOrClose" /\ Top.at \notin FileActions
  BY DEF ParseFieldOrClose, At, FileActions
<1>2. CASE IsName(Tok)
  <2>1. Stays("FieldType") /\ Looks(Innermost("FieldType")) < Looks(Top.at)
    BY <1>1 DEF Stays, FileActions, AnnotationActions, Headers, Looks, Innermost, NoteTakers
  <2> QED BY <1>2, <2>1 DEF ParseFieldOrClose, StepShape, LooksOn
<1>3. CASE ~IsName(Tok) /\ Tok = Symbol("}")
  <2>1. ~AtEnd
    BY <1>3, EndTokens, SymbolType
  <2> QED BY <1>1, <1>3, <2>1 DEF ParseFieldOrClose, StepShape, Takes, Returns
<1>4. CASE ~IsName(Tok) /\ Tok # Symbol("}")
  BY <1>4, RefuseStops DEF ParseFieldOrClose, StepShape
<1> QED BY <1>2, <1>3, <1>4

LEMMA ParseFieldNullableOrNameShape ==
  ASSUME CallsInv, Lookahead, ParseFieldNullableOrName PROVE StepShape
<1>1. Top.at = "FieldNullableOrName"
  BY DEF ParseFieldNullableOrName, At
<1>2. /\ Stays("NameNotes") /\ Looks(Innermost("NameNotes")) < Looks(Top.at)
      /\ Stays("FieldName") /\ Looks(Innermost("FieldName")) < Looks(Top.at)
      /\ Stays("FieldDefaultOrSemicolon")
  BY <1>1 DEF Stays, FileActions, AnnotationActions, Headers, Looks, Innermost, NoteTakers
<1>3. Symbol("?").type = "symbol" /\ Backtick.type = "symbol" /\ Symbol("?") # Backtick
  BY DEF Backtick, Symbol, Token
<1>4. CASE Tok.type = "annotation"
  <2>1. Peek /\ Go("NameNotes")
    BY <1>3, <1>4 DEF ParseFieldNullableOrName
  <2> QED BY <1>2, <2>1 DEF StepShape, LooksOn
<1>5. CASE Tok.type = "identifier"
  <2>1. ~AtEnd
    BY <1>5, EndTokens
  <2> DEFINE f == [Top EXCEPT !.at = "FieldName"]
  <2>2. IsFrame(f) /\ f.at = "FieldName" /\ f.at \in Waiting
    BY TopIsFrame DEF IsFrame, Waiting, CallSites
  <2>3. Read /\ GoOn(Delivered(f, Ident(Tok.val)))
    BY <1>3, <1>5 DEF ParseFieldNullableOrName
  <2> HIDE DEF f
  <2>4. /\ IsFrame(Delivered(f, Ident(Tok.val)))
        /\ Delivered(f, Ident(Tok.val)).at = "FieldDefaultOrSemicolon"
    BY <2>2, DeliveredFrame DEF Continues
  <2> QED BY <1>2, <2>1, <2>3, <2>4 DEF StepShape, Takes, Moves
<1>6. CASE Tok = Symbol("?")
  <2>1. ~AtEnd
    BY <1>6, EndTokens, SymbolType
  <2>2. Read /\ \E node : Build("NameNotes", node)
    BY <1>3, <1>6 DEF ParseFieldNullableOrName
  <2> QED BY <1>2, <2>1, <2>2, MovesAre DEF StepShape, Takes
<1>7. CASE Tok = Backtick
  <2>1. Peek /\ Go("FieldName")
    BY <1>3, <1>7 DEF ParseFieldNullableOrName
  <2> QED BY <1>2, <2>1 DEF StepShape, LooksOn
<1>8. CASE Tok.type \notin {"annotation", "identifier"} /\ Tok \notin {Symbol("?"), Backtick}
  BY <1>8, RefuseStops DEF ParseFieldNullableOrName, StepShape
<1> QED BY <1>4, <1>5, <1>6, <1>7, <1>8

LEMMA ParseFieldDefaultOrSemicolonShape ==
  ASSUME CallsInv, Lookahead, ParseFieldDefaultOrSemicolon PROVE StepShape
<1>1. Top.at = "FieldDefaultOrSemicolon" /\ Read
  BY DEF ParseFieldDefaultOrSemicolon, At
<1>2. Stays("DefaultValue") /\ Stays("CloseDoc")
  BY <1>1 DEF Stays, FileActions, AnnotationActions, Headers
<1>3. CASE ~AtEnd
  <2>1. Go("DefaultValue") \/ Go("CloseDoc") \/ Refuse
    BY DEF ParseFieldDefaultOrSemicolon
  <2> QED BY <1>1, <1>2, <1>3, <2>1, MovesAre, RefuseStops DEF StepShape, Takes
<1>4. CASE AtEnd
  <2>1. Tok # Symbol("=") /\ Tok # Symbol(";")
    BY <1>4, EndTokens, SymbolType
  <2> QED BY <2>1, RefuseStops DEF ParseFieldDefaultOrSemicolon, StepShape
<1> QED BY <1>3, <1>4

LEMMA ParseJSONValueShape ==
  ASSUME CallsInv, Lookahead, ParseJSONValue PROVE StepShape
<1>1. Top.at = "JSONValue" /\ Top.at \notin FileActions /\ Read
  BY DEF ParseJSONValue, At, FileActions
<1>2. Stays("ListFirst") /\ Stays("ObjectFirst")
  BY <1>1 DEF Stays, FileActions, AnnotationActions, Headers
<1>3. CASE ~AtEnd
  <2>1. \/ \E v : Return(v)
        \/ \E node : Build("ListFirst", node)
        \/ \E node : Build("ObjectFirst", node)
        \/ Refuse
    BY DEF ParseJSONValue
  <2> QED BY <1>1, <1>2, <1>3, <2>1, MovesAre, RefuseStops DEF StepShape, Takes, Returns
<1>4. CASE AtEnd
  <2>1. Tok # Symbol("[") /\ Tok # Symbol("{") /\ Tok.type \in {"eof", "error"}
    BY <1>4, EndTokens, SymbolType
  <2> QED BY <2>1, RefuseStops DEF ParseJSONValue, StepShape
<1> QED BY <1>3, <1>4

LEMMA ParseJSONArrayShape ==
  ASSUME CallsInv, Lookahead, ParseJSONArray PROVE StepShape
<1>1. Top.at \in {"ListFirst", "ListSep"} /\ Top.at \notin FileActions
  BY DEF ParseJSONArray, At, FileActions
<1>2. Stays("ListItem")
  BY <1>1 DEF Stays, FileActions, AnnotationActions, Headers
<1>3. CASE Peek /\ Go("ListItem") /\ Top.at = "ListFirst"
  <2>1. Looks(Innermost("ListItem")) < Looks(Top.at)
    BY <1>3 DEF Looks, Innermost, NoteTakers
  <2> QED BY <1>2, <1>3, <2>1 DEF StepShape, LooksOn
<1>4. CASE Read /\ (Return(Top.node) \/ Go("ListItem") \/ Refuse) /\ ~AtEnd
  BY <1>1, <1>2, <1>4, MovesAre, RefuseStops DEF StepShape, Takes, Returns
<1>5. CASE AtEnd
  <2>1. Tok # Symbol("]") /\ Tok # Symbol(",") /\ Tok.type \in {"eof", "error"}
    BY <1>5, EndTokens, SymbolType
  <2>2. Refuse
    BY <2>1 DEF ParseJSONArray
  <2> QED BY <2>2, RefuseStops DEF StepShape
<1>6. ~AtEnd => \/ Peek /\ Go("ListItem") /\ Top.at = "ListFirst"
                \/ Read /\ (Return(Top.node) \/ Go("ListItem") \/ Refuse)
  BY DEF ParseJSONArray, At
<1> QED BY <1>3, <1>4, <1>5, <1>6

LEMMA ParseJSONObjectShape ==
  ASSUME CallsInv, Lookahead, ParseJSONObject PROVE StepShape
<1>1. Top.at \in {"ObjectFirst", "ObjectSep", "ObjectKey"} /\ Top.at \notin FileActions /\ Read
  BY DEF ParseJSONObject, At, FileActions
<1>2. Stays("ObjectKey") /\ Stays("ObjectColon")
  BY <1>1 DEF Stays, FileActions, AnnotationActions, Headers
<1>3. CASE ~AtEnd
  <2> DEFINE f == [Top EXCEPT !.at = "ObjectColon", !.key = Tok.val]
  <2>1. GoOn(f) \/ Return(Top.node) \/ Go("ObjectKey") \/ Refuse
    BY DEF ParseJSONObject
  <2>2. IsFrame(f) /\ f.at = "ObjectColon"
    BY TopIsFrame DEF IsFrame
  <2>3. GoOn(f) => Moves
    BY <1>2, <2>2 DEF Moves
  <2> HIDE DEF f
  <2> QED BY <1>1, <1>2, <1>3, <2>1, <2>3, MovesAre, RefuseStops DEF StepShape, Takes, Returns
<1>4. CASE AtEnd
  <2>1. Tok # Symbol("}") /\ Tok # Symbol(",") /\ Tok.type \in {"eof", "error"}
    BY <1>4, EndTokens, SymbolType
  <2> QED BY <2>1, RefuseStops DEF ParseJSONObject, StepShape
<1> QED BY <1>3, <1>4

LEMMA StepShapes == CallsInv /\ Lookahead /\ Next => StepShape
  BY ExpectSymbolShape, CloseWithSymbolShape, CollectCommentShape, CollectDocShape,
     CollectAnnotationShape, ParseIdentShape, ParseEscapedNameShape, ParseTypeRefShape,
     ParseUnionMemberShape, ParseSeparatorShape, ParseFileShape, ParseOptionalNullableShape,
     ParseTypeShape, ParseEnumOptionalDefaultShape, ParseAfterEnumDocShape, ParseEnumCloseShape,
     ParseFixedSizeShape, ParseFieldOrCloseShape, ParseFieldNullableOrNameShape,
     ParseFieldDefaultOrSemicolonShape, ParseJSONValueShape, ParseJSONArrayShape,
     ParseJSONObjectShape DEF Next

-----------------------------------------------------------------------------
LEMMA LooksBound == \A at : Looks(at) \in 0 .. 4
  BY DEF Looks

LEMMA MovesKeepCalls ==
  ASSUME CallsInv, NEW f, GoOn(f), IsFrame(f), Stays(f.at)
  PROVE  CallsInv' /\ Top'.at = Innermost(f.at)
<1>1. Len(stack) \in Nat /\ Len(stack) >= 1
  BY DEF CallsInv, IsSequence
<1>2. PICK n : n = Len(stack) - 1
  OBVIOUS
<1>3. n \in 0 .. Len(stack) - 1 /\ (n = 0 <=> Len(stack) = 1) /\ Len(stack) \in 1 .. Len(stack)
  BY <1>1, <1>2
<1>4. /\ (Top.at \in FileActions) <=> (Len(stack) = 1)
      /\ Top.at \in AnnotationActions => stack[n].at \in NoteTakers
  BY <1>2, <1>3 DEF CallsInv, Top
<1>5. Top.at \in AnnotationActions => Top.at \notin FileActions
  BY DEF AnnotationActions, FileActions
<1>6. n # 0 => n >= 1
  BY <1>3
<1>7. stack' = SubSeq(stack, 1, n) \o Entered(f)
  BY <1>2 DEF GoOn, Front
<1>8. /\ f.at \notin Headers
      /\ (f.at \in FileActions) <=> (n = 0)
      /\ f.at \in AnnotationActions => n >= 1 /\ stack[n].at \in NoteTakers
  BY <1>3, <1>4, <1>5, <1>6 DEF Stays
<1> QED BY <1>3, <1>7, <1>8, EnterKeepsCalls

LEMMA ContinuesWithin ==
  \A at \in Waiting :
    /\ Continues(at) \notin Headers
    /\ (Continues(at) \in FileActions) <=> (at \in FileActions)
    /\ Continues(at) \in AnnotationActions => at \in AnnotationActions
    /\ at \in NoteTakers => Looks(Innermost(Continues(at))) <= 2
<1>1. \A at \in {"Namespace", "SchemaType", "Enum", "Fixed", "Record", "EnumDefault"} :
         /\ at \in FileActions /\ at \notin NoteTakers
         /\ Continues(at) \in {"NamespaceSemicolon", "SchemaNullable", "EnumOptionalDefault",
                               "Type", "TypeSemicolon"}
  BY DEF Continues, FileActions, NoteTakers
<1>2. Continues("TypeNotes") = "Dispatch" /\ "TypeNotes" \in FileActions
  BY DEF Continues, FileActions
<1>3. \A at \in {"FieldNotes", "CloseNotes", "NameNotes"} :
         at \notin FileActions /\ Continues(at) \in {"FieldType", "FieldOrClose", "FieldName"}
  BY DEF Continues, FileActions
<1>4. Continues("AnnotationValue") = "AnnotationClose"
  BY DEF Continues
<1>5. \A at \in {"ArrayItems", "MapValues", "UnionType", "ListItem", "ObjectValue", "DefaultValue",
                 "EnumValueName", "FieldType", "FieldName"} :
         /\ at \notin FileActions /\ at \notin NoteTakers
         /\ Continues(at) \in {"ArrayClose", "MapClose", "UnionSep", "ListSep", "ObjectSep",
                               "FieldSemicolon", "EnumValueSep", "FieldNullableOrName",
                               "FieldDefaultOrSemicolon"}
  BY DEF Continues, FileActions, NoteTakers
<1>6. \A at \in Headers :
         /\ at \notin FileActions /\ at \notin NoteTakers
         /\ Continues(at) \in {"EnumOpen", "FixedOpen", "RecordOpen"}
  BY DEF Continues, FileActions, NoteTakers, Headers
<1>7. \A at \in {"Dispatch", "FieldType", "FieldOrClose", "FieldName"} : Looks(Innermost(at)) <= 2
  BY DEF Looks, Innermost, NoteTakers
<1>8. \A at \in Waiting :
         \/ at \in {"Namespace", "SchemaType", "Enum", "Fixed", "Record", "EnumDefault"}
         \/ at = "TypeNotes"
         \/ at \in {"FieldNotes", "CloseNotes", "NameNotes"}
         \/ at = "AnnotationValue"
         \/ at \in {"ArrayItems", "MapValues", "UnionType", "ListItem", "ObjectValue",
                    "DefaultValue", "EnumValueName", "FieldType", "FieldName"}
         \/ at \in Headers
  BY DEF Waiting, CallSites
<1> HIDE DEF Continues, Looks, Innermost
<1>9. SUFFICES ASSUME NEW at \in Waiting
      PROVE  /\ Continues(at) \notin Headers
             /\ (Continues(at) \in FileActions) <=> (at \in FileActions)
             /\ Continues(at) \in AnnotationActions => at \in AnnotationActions
             /\ at \in NoteTakers => Looks(Innermost(Continues(at))) <= 2
  OBVIOUS
<1>10. CASE at \in {"Namespace", "SchemaType", "Enum", "Fixed", "Record", "EnumDefault"}
  BY <1>1, <1>10 DEF FileActions, AnnotationActions, Headers
<1>11. CASE at = "TypeNotes"
  BY <1>2, <1>7, <1>11 DEF FileActions, AnnotationActions, Headers
<1>12. CASE at \in {"FieldNotes", "CloseNotes", "NameNotes"}
  BY <1>3, <1>7, <1>12 DEF FileActions, AnnotationActions, Headers
<1>13. CASE at = "AnnotationValue"
  BY <1>4, <1>13 DEF FileActions, AnnotationActions, Headers, NoteTakers
<1>14. CASE at \in {"ArrayItems", "MapValues", "UnionType", "ListItem", "ObjectValue",
                    "DefaultValue", "EnumValueName", "FieldType", "FieldName"}
  BY <1>5, <1>14 DEF FileActions, AnnotationActions, Headers
<1>15. CASE at \in Headers
  BY <1>6, <1>15 DEF FileActions, AnnotationActions, Headers
<1> QED BY <1>8, <1>10, <1>11, <1>12, <1>13, <1>14, <1>15

\* A call returns to the caller that waits for it.
LEMMA ReturnsKeepCalls ==
  ASSUME CallsInv, Top.at \notin FileActions, NEW v, Return(v)
  PROVE  /\ CallsInv'
         /\ Len(stack) >= 2
         /\ stack[Len(stack) - 1].at \in Waiting
         /\ Top'.at = Innermost(Continues(stack[Len(stack) - 1].at))
<1>1. Len(stack) \in Nat /\ Len(stack) >= 1
  BY DEF CallsInv, IsSequence
<1>2. Len(stack) # 1
  BY <1>1 DEF CallsInv, Top
<1>3. PICK m \in Nat : m = Len(stack) /\ m >= 2
  <2>1. PICK m \in Nat : m = Len(stack)
    BY <1>1
  <2>2. m >= 2
    BY <1>1, <1>2, <2>1
  <2> QED BY <2>1, <2>2
<1>4. PICK n : n = m - 2
  OBVIOUS
<1>5. /\ n \in 0 .. Len(stack) - 1 /\ m - 1 \in 1 .. Len(stack) /\ m - 1 < Len(stack)
      /\ (m - 1 = 1) <=> (n = 0)
      /\ m - 1 - 1 = n
  BY <1>3, <1>4
<1> DEFINE caller == stack[m - 1]
           f == Delivered(caller, v)
<1>6. /\ IsFrame(caller)
      /\ (caller.at \in FileActions) <=> (n = 0)
      /\ caller.at \in Waiting
      /\ caller.at \in AnnotationActions => stack[n].at \in NoteTakers
  <2>1. /\ IsFrame(stack[m - 1])
        /\ (stack[m - 1].at \in FileActions) <=> (m - 1 = 1)
        /\ (stack[m - 1].at \in Waiting) <=> (m - 1 < Len(stack))
        /\ stack[m - 1].at \in AnnotationActions => stack[m - 1 - 1].at \in NoteTakers
    BY <1>5 DEF CallsInv
  <2> QED BY <1>5, <2>1
<1>7. stack' = SubSeq(stack, 1, n) \o Entered(f)
  BY <1>3, <1>4 DEF Return
<1> HIDE DEF caller
<1>8. IsFrame(f) /\ f.at = Continues(caller.at)
  BY <1>6, DeliveredFrame
<1> HIDE DEF f
<1>9. caller.at \in AnnotationActions => caller.at \notin FileActions
  BY DEF AnnotationActions, FileActions
<1>10. n # 0 => n >= 1
  BY <1>5
<1>11. /\ f.at \notin Headers
       /\ (f.at \in FileActions) <=> (n = 0)
       /\ f.at \in AnnotationActions => n >= 1 /\ stack[n].at \in NoteTakers
  BY <1>6, <1>8, <1>9, <1>10, ContinuesWithin
<1>12. CallsInv' /\ Top'.at = Innermost(f.at)
  BY <1>5, <1>7, <1>8, <1>11, EnterKeepsCalls
<1> QED BY <1>3, <1>6, <1>8, <1>12 DEF caller

LEMMA StepsRunDown ==
  ASSUME CallsInv, Lookahead, Next
  PROVE  CallsInv' /\ StepsLeft \in Nat /\ StepsLeft' \in Nat /\ StepsLeft' < StepsLeft
<1>1. Lookahead' /\ source' = source /\ outcome = "parsing"
  BY ReadsOrPeeks, ReadInOrder, PeekInOrder, NextSettles DEF Read, Peek
<1>2. PICK n \in Nat : n = Len(source.tokens)
  BY Lengths
<1>3. PICK t \in Nat : t = taken /\ t <= n
  BY <1>2 DEF Lookahead
<1>4. PICK t1 \in Nat : t1 = taken' /\ t1 <= n
  BY <1>1, <1>2 DEF Lookahead
<1>5. PICK k \in 0 .. 4 : k = Looks(Top.at)
  BY LooksBound
<1>6. PICK k1 \in 0 .. 4 : k1 = Looks(Top'.at)
  BY LooksBound
<1>7. StepsLeft = 5 * (n - t) + k + 1
  BY <1>1, <1>2, <1>3, <1>5 DEF StepsLeft
<1>8. StepsLeft' = IF outcome' = "parsing" THEN 5 * (n - t1) + k1 + 1 ELSE 0
  BY <1>1, <1>2, <1>4, <1>6 DEF StepsLeft, Top
<1>9. StepsLeft \in Nat /\ StepsLeft' \in Nat /\ StepsLeft >= 1
  <2>1. \A x, y \in Nat : y <= x => 5 * (x - y) \in Nat
    OBVIOUS
  <2>2. 5 * (n - t) \in Nat /\ 5 * (n - t1) \in Nat
    BY <1>3, <1>4, <2>1
  <2> QED BY <1>7, <1>8, <2>2
<1>10. CASE Takes
  <2>1. t1 = t + 1
    BY <1>3, <1>4, <1>10 DEF Takes, Read
  <2>2. StepsLeft' < StepsLeft
    BY <1>3, <1>4, <1>7, <1>8, <2>1
  <2>3. CallsInv'
    BY <1>10, MovesKeepCalls, ReturnsKeepCalls DEF Takes, Moves, Returns
  <2> QED BY <1>9, <2>2, <2>3
<1>11. CASE Stops
  <2>1. StepsLeft' < StepsLeft
    BY <1>8, <1>9, <1>11 DEF Stops
  <2>2. CallsInv'
    BY <1>11 DEF Stops, CallsInv
  <2> QED BY <1>9, <2>1, <2>2
<1>12. ASSUME Peek, CallsInv', k1 < k
       PROVE  CallsInv' /\ StepsLeft \in Nat /\ StepsLeft' \in Nat /\ StepsLeft' < StepsLeft
  <2>1. t1 = t
    BY <1>3, <1>4, <1>12 DEF Peek
  <2>2. StepsLeft' < StepsLeft
    BY <1>3, <1>7, <1>8, <1>12, <2>1
  <2> QED BY <1>9, <1>12, <2>2
<1>13. CASE LooksOn
  <2>1. PICK at : Go(at) /\ Stays(at) /\ Looks(Innermost(at)) < Looks(Top.at)
    BY <1>13 DEF LooksOn
  <2> DEFINE f == [Top EXCEPT !.at = at]
  <2>2. IsFrame(f) /\ f.at = at
    BY TopIsFrame DEF IsFrame
  <2>3. GoOn(f)
    BY <2>1 DEF Go
  <2> HIDE DEF f
  <2>4. CallsInv' /\ Top'.at = Innermost(at)
    BY <2>1, <2>2, <2>3, MovesKeepCalls
  <2> QED BY <1>5, <1>6, <1>12, <1>13, <2>1, <2>4 DEF LooksOn
<1>14. CASE EndsNotes
  <2>1. Top.at \notin FileActions /\ Top.at \in AnnotationActions /\ Looks(Top.at) = 3
    BY <1>14 DEF EndsNotes, FileActions, AnnotationActions, Looks
  <2>2. /\ CallsInv'
        /\ Len(stack) >= 2
        /\ stack[Len(stack) - 1].at \in Waiting
        /\ Top'.at = Innermost(Continues(stack[Len(stack) - 1].at))
    BY <1>14, <2>1, ReturnsKeepCalls DEF EndsNotes
  <2>3. stack[Len(stack) - 1].at \in NoteTakers
    <3>1. Len(stack) \in 1 .. Len(stack)
      BY <2>2 DEF CallsInv, IsSequence
    <3> QED BY <2>1, <3>1 DEF CallsInv, Top
  <2>4. Looks(Top'.at) <= 2
    BY <2>2, <2>3, ContinuesWithin
  <2> QED BY <1>5, <1>6, <1>12, <1>14, <2>1, <2>2, <2>4 DEF EndsNotes
<1> QED BY <1>10, <1>11, <1>13, <1>14, StepShapes DEF StepShape

(***************************************************************************)
(* No file keeps the parser at work for ever: whatever productions call    *)
(* one another, look ahead and push back, each step of theirs runs down    *)
(* what is left, which starts at five steps for a token and one more.      *)
(***************************************************************************)
THEOREM ParserStepsRunOut ==
  Spec => /\ StepsLeft = 5 * Len(source.tokens) + 1
          /\ [](StepsLeft \in Nat)
          /\ [][StepsLeft' < StepsLeft]_vars
<1> DEFINE Inv == Lookahead /\ CallsInv
<1>1. Init => Inv /\ StepsLeft = 5 * Len(source.tokens) + 1
  <2> SUFFICES ASSUME Init PROVE Inv /\ StepsLeft = 5 * Len(source.tokens) + 1
    OBVIOUS
  <2>1. Lookahead
    BY DEF Init, Lookahead
  <2>2. Len(stack) = 1 /\ stack[1] = Frame("File", NewFile)
    BY DEF Init
  <2>3. IsSequence(stack)
    <3>1. stack \in Seq({Frame("File", NewFile)})
      BY DEF Init
    <3> QED BY <3>1 DEF IsSequence
  <2>4. IsFrame(stack[1]) /\ stack[1].at = "File"
    BY <2>2, NewIsFrame
  <2>5. "File" \in FileActions /\ "File" \notin Waiting /\ "File" \notin AnnotationActions
    BY DEF FileActions, Waiting, CallSites, Headers, AnnotationActions
  <2>6. \A i \in 1 .. 1 : i = 1
    OBVIOUS
  <2>7. CallsInv
    BY <2>2, <2>3, <2>4, <2>5, <2>6 DEF CallsInv
  <2>8. Looks(Top.at) = 0
    BY <2>2, <2>4 DEF Top, Looks
  <2> QED BY <2>1, <2>7, <2>8, Lengths DEF Init, StepsLeft
<1>2. Inv /\ [Next]_vars => Inv'
  <2>1. Inv /\ Next => Inv'
    BY StepsRunDown, ReadsOrPeeks, ReadInOrder, PeekInOrder
  <2>2. Inv /\ UNCHANGED vars => Inv'
    BY DEF Lookahead, CallsInv, vars, tokenVars
  <2> QED BY <2>1, <2>2
<1>3. Inv => StepsLeft \in Nat
  <2> SUFFICES ASSUME Inv PROVE StepsLeft \in Nat
    OBVIOUS
  <2>1. PICK k \in 0 .. 4 : k = Looks(Top.at)
    BY LooksBound
  <2>2. PICK n \in Nat : n = Len(source.tokens)
    BY Lengths
  <2>3. taken \in Nat /\ taken <= n
    BY <2>2 DEF Lookahead
  <2> QED BY <2>1, <2>2, <2>3 DEF StepsLeft
<1>4. Inv /\ [Next]_vars => [StepsLeft' < StepsLeft]_vars
  BY StepsRunDown
<1> HIDE DEF Inv
<1> QED BY <1>1, <1>2, <1>3, <1>4, PTL DEF Spec
=============================================================================

------------------------------ MODULE IdlParser ------------------------------
(***************************************************************************)
(* idl.Parse: a recursive descent over the tokens that it pulls, one at a  *)
(* time, out of the tokenizer.                                             *)
(*                                                                         *)
(* stack is the Go call stack: a frame for each call that is not over, at  *)
(* the parserAction it runs next, with the node it builds and the doc      *)
(* comment, comments and annotations it has collected for what it builds   *)
(* next, or the key of the value it awaits.                                *)
(***************************************************************************)
EXTENDS Idl, SequencesExt

CONSTANT Sources     \* what the tokenizer may yield: [tokens, end]

TokenTypes == {"comment", "doc", "identifier", "symbol", "string", "number", "annotation"}

ASSUME SourcesAssumption ==
  \A s \in Sources :
    s.tokens \in Seq([type : TokenTypes, val : STRING]) /\ s.end \in {"eof", "error"}

VARIABLES
  source,    \* the tokens, and whether an error or nothing comes after them
  pulled,    \* how many of the tokens p.next has returned
  pending,   \* p.pending: the place of the token that was pushed back, if any
  taken,     \* history: how many tokens the productions have consumed
  stack,
  outcome    \* "parsing", "ok" or "refused"

tokenVars == <<source, pulled, pending, taken>>
vars == <<tokenVars, stack, outcome>>

Frame(at, node) ==
  [at |-> at, node |-> node, doc |-> "", comments |-> << >>, notes |-> << >>,
   key |-> ""]

Init ==
  /\ source \in Sources
  /\ pulled = 0
  /\ pending = << >>
  /\ taken = 0
  /\ stack = <<Frame("File", NewFile)>>
  /\ outcome = "parsing"

-----------------------------------------------------------------------------
(***************************************************************************)
(* read, peek and unread.                                                  *)
(***************************************************************************)
\* The place of the token that a read or a peek returns.
Place == IF pending # << >> THEN pending[1] ELSE pulled + 1

AtEnd == Place > Len(source.tokens)

Tok == IF AtEnd THEN Token(source.end, "") ELSE source.tokens[Place]

Pull == pulled' = IF pending = << >> /\ ~AtEnd THEN pulled + 1 ELSE pulled

\* A token is pushed back; one that already was is lost.
Unread(place) == pending' = <<place>>

\* read; or peek, and p.pending = nil.
Read ==
  /\ Pull
  /\ pending' = << >>
  /\ taken' = IF AtEnd THEN taken ELSE taken + 1
  /\ UNCHANGED source

\* peek; or read, and unread.
Peek ==
  /\ Pull
  /\ IF AtEnd THEN pending' = << >> ELSE Unread(Place)
  /\ UNCHANGED <<source, taken>>

-----------------------------------------------------------------------------
(***************************************************************************)
(* Calls.  A frame at one of these actions waits for what a call returns.  *)
(***************************************************************************)
Callees ==
  [Namespace |-> <<"Ident">>, SchemaType |-> <<"TypeRef">>,
   ArrayItems |-> <<"TypeRef">>, MapValues |-> <<"Ident">>, UnionType |-> <<"TypeRef">>,
   TypeNotes |-> <<"Annotations">>, FieldNotes |-> <<"Annotations">>,
   CloseNotes |-> <<"Annotations">>, NameNotes |-> <<"Annotations">>,
   AnnotationValue |-> <<"JSONValue">>, ListItem |-> <<"JSONValue">>,
   ObjectValue |-> <<"JSONValue">>, DefaultValue |-> <<"JSONValue">>,
   Enum |-> <<"EnumName", "Ident">>, EnumValueName |-> <<"Ident">>, EnumDefault |-> <<"Ident">>,
   Fixed |-> <<"FixedName", "Ident">>, Record |-> <<"RecordName", "Ident">>,
   FieldType |-> <<"TypeRef">>, FieldName |-> <<"Ident">>]

NewNode ==
  [Ident |-> Nothing, TypeRef |-> Nothing, Annotations |-> << >>, JSONValue |-> Nothing,
   EnumName |-> NewEnum, FixedName |-> NewFixed, RecordName |-> NewRecord]

Called(at) == Frame(at, NewNode[at])

\* The frames of a call that has come to f.at.
Entered(f) ==
  IF f.at \in DOMAIN Callees
  THEN <<f>> \o [i \in 1 .. Len(Callees[f.at]) |-> Called(Callees[f.at][i])]
  ELSE <<f>>

Top == stack[Len(stack)]

GoOn(f) == stack' = Front(stack) \o Entered(f) /\ UNCHANGED outcome

Go(at) == GoOn([Top EXCEPT !.at = at])

Build(at, node) == GoOn([Top EXCEPT !.at = at, !.node = node])

Refuse == outcome' = "refused" /\ UNCHANGED stack

At(at) == outcome = "parsing" /\ Top.at = at

-----------------------------------------------------------------------------
(***************************************************************************)
(* What callers make of the values that are returned to them.              *)
(***************************************************************************)
Strings(value) ==
  IF value.kind # "list" THEN << >>
  ELSE LET strings == SelectSeq(value.items, LAMBDA v : v.kind = "string")
       IN  [i \in 1 .. Len(strings) |-> strings[i].val]

Put(entries, key, value) ==
  [k \in DOMAIN entries \cup {key} |-> IF k = key THEN value ELSE entries[k]]

\* applyAnnotationsToRecord, applyAnnotationsToEnum and applyAnnotationsToFixed.
Annotate(decl, note) ==
  CASE note.name = "namespace" /\ note.value.kind = "string" ->
         [decl EXCEPT !.namespace = note.value.val]
    [] note.name = "namespace" /\ note.value.kind # "string" -> decl
    [] note.name = "aliases" -> [decl EXCEPT !.aliases = Strings(note.value)]
    [] OTHER -> [decl EXCEPT !.properties = Put(@, note.name, note.value)]

SortOrders == {"ascending", "descending", "ignore"}

IsSortOrder(value) == value.kind = "string" /\ value.val \in SortOrders

\* applyAnnotationsToField.
AnnotateField(field, note) ==
  CASE note.name = "order" /\ IsSortOrder(note.value) -> [field EXCEPT !.order = note.value.val]
    [] note.name = "order" /\ ~IsSortOrder(note.value) -> field
    [] note.name = "aliases" -> [field EXCEPT !.aliases = Strings(note.value)]
    [] OTHER -> [field EXCEPT !.properties = Put(@, note.name, note.value)]

\* The frame f after the call it waits for returned v.
Delivered(f, v) ==
  LET last == Len(f.node.fields)
  IN  CASE f.at = "Namespace" -> [f EXCEPT !.at = "NamespaceSemicolon", !.node.namespace = v.name]
        [] f.at = "SchemaType" -> [f EXCEPT !.at = "SchemaNullable", !.node.type = v]
        [] f.at = "ArrayItems" -> [f EXCEPT !.at = "ArrayClose", !.node = Array(v)]
        [] f.at = "MapValues" -> [f EXCEPT !.at = "MapClose", !.node = Map(v.name)]
        [] f.at = "UnionType" -> [f EXCEPT !.at = "UnionSep", !.node.types = Append(@, v)]
        [] f.at = "TypeNotes" -> [f EXCEPT !.at = "Dispatch", !.notes = v]
        [] f.at = "FieldNotes" -> [f EXCEPT !.at = "FieldType", !.notes = v]
        [] f.at = "CloseNotes" -> [f EXCEPT !.at = "FieldOrClose", !.notes = v]
        [] f.at = "NameNotes" ->
             [f EXCEPT !.at = "FieldName", !.node.fields[last] = FoldLeft(AnnotateField, @, v)]
        [] f.at = "AnnotationValue" ->
             [f EXCEPT !.at = "AnnotationClose", !.node[Len(f.node)].value = v]
        [] f.at = "ListItem" -> [f EXCEPT !.at = "ListSep", !.node.items = Append(@, v)]
        [] f.at = "ObjectValue" ->
             [f EXCEPT !.at = "ObjectSep", !.node.entries = Put(@, f.key, v)]
        [] f.at = "DefaultValue" ->
             [f EXCEPT !.at = "FieldSemicolon", !.node.fields[last].default = <<v>>]
        [] f.at \in {"Enum", "Fixed", "Record"} ->
             [f EXCEPT !.at = IF @ = "Enum" THEN "EnumOptionalDefault" ELSE "Type",
                       !.node.types = Append(@, FoldLeft(Annotate, [v EXCEPT !.doc = f.doc], f.notes)),
                       !.doc = "", !.notes = << >>]
        [] f.at = "EnumName" -> [f EXCEPT !.at = "EnumOpen", !.node.name = v.name]
        [] f.at = "FixedName" -> [f EXCEPT !.at = "FixedOpen", !.node.name = v.name]
        [] f.at = "RecordName" -> [f EXCEPT !.at = "RecordOpen", !.node.name = v.name]
        [] f.at = "EnumValueName" ->
             [f EXCEPT !.at = "EnumValueSep",
                       !.node.values = Append(@, EnumValue(f.comments, f.doc, v.name)),
                       !.doc = "", !.comments = << >>]
        [] f.at = "EnumDefault" ->
             [f EXCEPT !.at = "TypeSemicolon", !.node.types[Len(f.node.types)].default = <<v.name>>]
        [] f.at = "FieldType" ->
             [f EXCEPT !.at = "FieldNullableOrName",
                       !.node.fields = Append(@, FoldLeft(AnnotateField, NewField(f.doc, v), f.notes)),
                       !.doc = "", !.notes = << >>]
        [] f.at = "FieldName" ->
             [f EXCEPT !.at = "FieldDefaultOrSemicolon", !.node.fields[last].name = v.name]

Return(v) ==
  /\ stack' = SubSeq(stack, 1, Len(stack) - 2) \o Entered(Delivered(stack[Len(stack) - 1], v))
  /\ UNCHANGED outcome

-----------------------------------------------------------------------------
(***************************************************************************)
(* Productions.  expect(TokenSymbol) and one symbol, then the next action. *)
(***************************************************************************)
Expects ==
  [NamespaceSemicolon |-> <<";", "Schema">>, TypeSemicolon |-> <<";", "Type">>,
   ArrayOpen |-> <<"<", "ArrayItems">>, MapOpen |-> <<"<", "MapValues">>,
   UnionOpen |-> <<"{", "UnionMember">>, EnumOpen |-> <<"{", "EnumValue">>,
   FixedOpen |-> <<"(", "FixedSize">>, FixedClose |-> <<")", "FixedSemicolon">>,
   RecordOpen |-> <<"{", "FieldDoc">>, FieldSemicolon |-> <<";", "CloseDoc">>,
   AnnotationOpen |-> <<"(", "AnnotationValue">>, AnnotationClose |-> <<")", "AnnotationNext">>,
   ObjectColon |-> <<":", "ObjectValue">>]

ExpectSymbol ==
  /\ outcome = "parsing"
  /\ Top.at \in DOMAIN Expects
  /\ Read
  /\ IF Tok = Symbol(Expects[Top.at][1]) THEN Go(Expects[Top.at][2]) ELSE Refuse

\* The same at the end of a production.
Closes ==
  [ArrayClose |-> ">", MapClose |-> ">", FixedSemicolon |-> ";", EscapedClose |-> "backtick"]

CloseWithSymbol ==
  /\ outcome = "parsing"
  /\ Top.at \in DOMAIN Closes
  /\ Read
  /\ IF Tok = Symbol(Closes[Top.at]) THEN Return(Top.node) ELSE Refuse

\* collectComments and collectDocComment, and where they go on.
Commented == [EnumValue |-> "EnumValueDoc", EnumValueOrClose |-> "EnumCloseDoc"]

Documented ==
  [EnumValueDoc |-> "EnumValueName", EnumCloseDoc |-> "EnumClose", Type |-> "TypeNotes",
   FieldDoc |-> "FieldNotes", CloseDoc |-> "CloseNotes"]

CollectComment ==
  /\ outcome = "parsing"
  /\ Top.at \in DOMAIN Commented
  /\ IF Tok.type = "comment" THEN Read /\ GoOn([Top EXCEPT !.comments = Append(@, Tok)])
     ELSE IF Tok.type = "error" THEN Read /\ Refuse
     ELSE Peek /\ Go(Commented[Top.at])

\* cleanDocComment takes the star that starts a line away.
CleanDoc(doc) ==
  CASE doc = "**d" -> "*d"
    [] doc = "*d" -> "d"
    [] OTHER -> doc

CollectDoc ==
  /\ outcome = "parsing"
  /\ Top.at \in DOMAIN Documented
  /\ IF Tok.type = "doc"
     THEN Read /\ GoOn([Top EXCEPT !.at = Documented[@], !.doc = CleanDoc(Tok.val)])
     ELSE IF Tok.type = "error" THEN Read /\ Refuse
     ELSE Peek /\ Go(Documented[Top.at])

\* collectAnnotations.
CollectAnnotation ==
  /\ At("Annotations") \/ At("AnnotationNext")
  /\ IF Tok.type = "annotation"
     THEN Read /\ Build("AnnotationOpen",
                        Append(Top.node, [name |-> Tok.val, value |-> Scalar("null", "")]))
     ELSE IF Tok.type = "error" THEN Read /\ Refuse
     ELSE Peek /\ Return(Top.node)

\* expectIdentifier.
ParseIdent ==
  /\ At("Ident")
  /\ Read
  /\ IF Tok.type = "identifier" THEN Return(Ident(Tok.val))
     ELSE IF Tok = Backtick THEN Go("EscapedName")
     ELSE Refuse

ParseEscapedName ==
  /\ At("EscapedName")
  /\ Read
  /\ IF Tok.type = "identifier" THEN Build("EscapedClose", Ident(Tok.val)) ELSE Refuse

TypeKeywords == [array |-> "ArrayOpen", map |-> "MapOpen", union |-> "UnionOpen"]

\* parseTypeRef.
ParseTypeRef ==
  /\ At("TypeRef")
  /\ IF Tok = Backtick THEN Peek /\ Go("Ident")
     ELSE /\ Read
          /\ IF Tok.type # "identifier" THEN Refuse
             ELSE IF Tok.val \in DOMAIN TypeKeywords THEN Build(TypeKeywords[Tok.val], Union(<< >>))
             ELSE Return(Ident(Tok.val))

IsName(tok) == tok.type = "identifier" \/ tok = Backtick

\* parseUnionMember; what parseUnionMemberOrClose does after a comma.
ParseUnionMember ==
  /\ At("UnionMember") \/ At("UnionMemberOrClose")
  /\ IF IsName(Tok) THEN Peek /\ Go("UnionType")
     ELSE /\ Read
          /\ IF Top.at = "UnionMemberOrClose" /\ Tok = Symbol("}") THEN Return(Top.node) ELSE Refuse

\* parseUnionMemberSep, parseEnumValueSep.
Separated == [UnionSep |-> "UnionMemberOrClose", EnumValueSep |-> "EnumValueOrClose"]

ParseSeparator ==
  /\ outcome = "parsing"
  /\ Top.at \in DOMAIN Separated
  /\ Read
  /\ CASE Tok = Symbol(",") -> Go(Separated[Top.at])
       [] Tok = Symbol("}") -> Return(Top.node)
       [] OTHER -> Refuse

\* parseFile, parseSchema.
ParseFile ==
  /\ At("File") \/ At("Schema")
  /\ Read
  /\ CASE Tok.type \in {"comment", "doc"} -> Build(Top.at, [Top.node EXCEPT !.comments = Append(@, Tok)])
       [] Tok = Name("schema") -> Go("SchemaType")
       [] Tok = Name("namespace") /\ Top.at = "File" -> Go("Namespace")
       [] OTHER -> Refuse

\* parseOptionalNullable.
ParseOptionalNullable ==
  /\ At("SchemaNullable")
  /\ Read
  /\ CASE Tok = Symbol("?") -> Build("TypeSemicolon", [Top.node EXCEPT !.type = Nullable(@)])
       [] Tok = Symbol(";") -> Go("Type")
       [] OTHER -> Refuse

Declarations == [enum |-> "Enum", fixed |-> "Fixed", record |-> "Record"]

\* Mutant: the next declaration is looked for again.
AcceptAgain == Go("Type")

\* The tokens end where another declaration may begin.
Accept == outcome' = "ok" /\ UNCHANGED stack

\* Mutant: an error is taken for the end.
DispatchUnchecked ==
  CASE Tok.type \in {"eof", "error"} -> Accept
    [] Tok.type = "identifier" /\ Tok.val \in DOMAIN Declarations -> Go(Declarations[Tok.val])
    [] OTHER -> Refuse

\* dispatchType, on the token that was read.
Dispatch ==
  CASE Tok.type = "eof" -> Accept
    [] Tok.type = "identifier" /\ Tok.val \in DOMAIN Declarations -> Go(Declarations[Tok.val])
    [] OTHER -> Refuse

\* The rest of parseType, once it has collected the annotations.
ParseType == At("Dispatch") /\ Read /\ Dispatch

\* parseEnumOptionalDefault, and what it does once it has read a doc comment.
ParseEnumOptionalDefault ==
  /\ At("EnumOptionalDefault")
  /\ CASE Tok = Symbol("=") -> Read /\ Go("EnumDefault")
       [] Tok.type = "doc" ->
            Read /\ GoOn([Top EXCEPT !.at = "EnumAfterDoc", !.doc = CleanDoc(Tok.val)])
       [] Tok.type = "annotation" -> Peek /\ Go("TypeNotes")
       [] OTHER -> Read /\ Dispatch

\* Mutant: the doc comment is pushed back behind the annotation, for parseType.
ParseAfterEnumDocAgain ==
  /\ At("EnumAfterDoc")
  /\ IF Tok.type = "annotation"
     THEN Pull /\ Unread(Place - 1) /\ taken' = taken - 1 /\ UNCHANGED source /\ Go("Type")
     ELSE Read /\ Dispatch

ParseAfterEnumDoc ==
  /\ At("EnumAfterDoc")
  /\ IF Tok.type = "annotation" THEN Peek /\ Go("TypeNotes") ELSE Read /\ Dispatch

\* parseEnumValueOrClose, once it has collected the comments.
ParseEnumClose ==
  /\ At("EnumClose")
  /\ IF Tok = Backtick THEN Peek /\ Go("EnumValueName")
     ELSE /\ Read
          /\ CASE Tok = Symbol("}") -> Return(Top.node)
               [] Tok.type = "identifier" ->
                    GoOn(Delivered([Top EXCEPT !.at = "EnumValueName"], Ident(Tok.val)))
               [] OTHER -> Refuse

\* parseFixedSize; strconv.Atoi refuses a fraction.
ParseFixedSize ==
  /\ At("FixedSize")
  /\ Read
  /\ IF Tok.type = "number" /\ Tok.val \notin Fractions
     THEN Build("FixedClose", [Top.node EXCEPT !.size = Tok.val])
     ELSE Refuse

\* Mutant: the end of the tokens is the end of the record.
ParseFieldOrEnd ==
  /\ At("FieldOrClose")
  /\ IF IsName(Tok) THEN Peek /\ Go("FieldType")
     ELSE Read /\ IF AtEnd \/ Tok = Symbol("}") THEN Return(Top.node) ELSE Refuse

\* parseRecordFieldTypeOrClose, once it has collected the annotations.
ParseFieldOrClose ==
  /\ At("FieldOrClose")
  /\ IF IsName(Tok) THEN Peek /\ Go("FieldType")
     ELSE Read /\ IF Tok = Symbol("}") THEN Return(Top.node) ELSE Refuse

\* parseRecordFieldNullableOrName.
ParseFieldNullableOrName ==
  LET last == Len(Top.node.fields)
  IN  /\ At("FieldNullableOrName")
      /\ CASE Tok.type = "annotation" -> Peek /\ Go("NameNotes")
           [] Tok.type = "identifier" ->
                Read /\ GoOn(Delivered([Top EXCEPT !.at = "FieldName"], Ident(Tok.val)))
           [] Tok = Symbol("?") ->
                Read /\ Build("NameNotes", [Top.node EXCEPT !.fields[last].type = Nullable(@)])
           [] Tok = Backtick -> Peek /\ Go("FieldName")
           [] OTHER -> Read /\ Refuse

\* parseRecordFieldDefaultOrSemicolon.
ParseFieldDefaultOrSemicolon ==
  /\ At("FieldDefaultOrSemicolon")
  /\ Read
  /\ CASE Tok = Symbol("=") -> Go("DefaultValue")
       [] Tok = Symbol(";") -> Go("CloseDoc")
       [] OTHER -> Refuse

\* What parseJSONValue makes of a token that is a whole value.
Literal(tok) ==
  CASE tok.type = "string" -> Scalar("string", tok.val)
    [] tok.type = "number" -> Scalar(IF tok.val \in Fractions THEN "float" ELSE "int", tok.val)
    [] tok.type = "identifier" ->
         IF tok.val \in {"true", "false"} THEN Scalar("bool", tok.val)
         ELSE IF tok.val = "null" THEN Scalar("null", "")
         ELSE Scalar("string", tok.val)

ParseJSONValue ==
  /\ At("JSONValue")
  /\ Read
  /\ CASE Tok.type \in {"identifier", "number", "string"} -> Return(Literal(Tok))
       [] Tok = Symbol("[") -> Build("ListFirst", List(<< >>))
       [] Tok = Symbol("{") -> Build("ObjectFirst", Object(Nothing))
       [] OTHER -> Refuse

\* parseJSONArray.
ParseJSONArray ==
  \/ /\ At("ListFirst")
     /\ CASE Tok = Symbol("]") -> Read /\ Return(Top.node)
          [] Tok.type \in {"identifier", "number", "string", "symbol"} /\ Tok # Symbol("]") ->
               Peek /\ Go("ListItem")
          [] OTHER -> Read /\ Refuse
  \/ /\ At("ListSep")
     /\ Read
     /\ CASE Tok = Symbol("]") -> Return(Top.node)
          [] Tok = Symbol(",") -> Go("ListItem")
          [] OTHER -> Refuse

\* parseJSONObject.
ParseJSONObject ==
  /\ At("ObjectFirst") \/ At("ObjectSep") \/ At("ObjectKey")
  /\ Read
  /\ CASE Tok.type = "string" /\ Top.at # "ObjectSep" ->
            GoOn([Top EXCEPT !.at = "ObjectColon", !.key = Tok.val])
       [] Tok = Symbol("}") /\ Top.at # "ObjectKey" -> Return(Top.node)
       [] Tok = Symbol(",") /\ Top.at = "ObjectSep" -> Go("ObjectKey")
       [] OTHER -> Refuse

Next ==
  \/ ExpectSymbol
  \/ CloseWithSymbol
  \/ CollectComment
  \/ CollectDoc
  \/ CollectAnnotation
  \/ ParseIdent
  \/ ParseEscapedName
  \/ ParseTypeRef
  \/ ParseUnionMember
  \/ ParseSeparator
  \/ ParseFile
  \/ ParseOptionalNullable
  \/ ParseType
  \/ ParseEnumOptionalDefault
  \/ ParseAfterEnumDoc
  \/ ParseEnumClose
  \/ ParseFixedSize
  \/ ParseFieldOrClose
  \/ ParseFieldNullableOrName
  \/ ParseFieldDefaultOrSemicolon
  \/ ParseJSONValue
  \/ ParseJSONArray
  \/ ParseJSONObject

Spec == Init /\ [][Next]_vars

-----------------------------------------------------------------------------
(***************************************************************************)
(* Whatever a production reads ahead, peeks at or pushes back, the tokens  *)
(* reach the productions each once and in order: the one that comes next   *)
(* is the first that was not consumed, and no more than that one was       *)
(* pulled.  A file is accepted only when they all were, and no error ended *)
(* them.                                                                   *)
(***************************************************************************)
TokensInOrder ==
  /\ Place = taken + 1
  /\ pulled \in taken .. taken + 1
  /\ outcome = "ok" => taken = Len(source.tokens) /\ source.end = "eof"
=============================================================================

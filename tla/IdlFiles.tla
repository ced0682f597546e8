------------------------------ MODULE IdlFiles ------------------------------
(***************************************************************************)
(* idl.Print composed with idl.Parse: a file is printed, what is written   *)
(* may be cut short or have a token too many, and it is parsed.            *)
(***************************************************************************)
EXTENDS IdlParser

Printer == INSTANCE IdlPrinter

\* A source is what the tokenizer yields of a printed file, with that file and
\* what became of it: "whole", "cut" after .at tokens, or with "extra" tokens at
\* .at, or its name token .at "escaped" between backticks.
Source(file, edit, at, printed) ==
  [file |-> file, edit |-> edit, at |-> at] @@ Printer!Tokenized(printed, Len(printed))

Whole(file) == Source(file, "whole", 0, Printer!PrintFile(file))

\* The writer fails, or what it wrote is cut off.
CutShort(file) ==
  LET printed == Printer!PrintFile(file)
  IN  {Source(file, "cut", n, SubSeq(printed, 1, n)) : n \in 0 .. Len(printed) - 1}

Extra(file, intruders) ==
  LET printed == Printer!PrintFile(file)
      put(n, toks) == SubSeq(printed, 1, n - 1) \o toks \o SubSeq(printed, n, Len(printed))
  IN  {Source(file, "extra", n, put(n, toks)) : n \in 1 .. Len(printed) + 1, toks \in intruders}

Escaped(file) ==
  LET printed == Printer!PrintFile(file)
      put(n, toks) == SubSeq(printed, 1, n - 1) \o toks \o SubSeq(printed, n + 1, Len(printed))
  IN  {Source(file, "escaped", n, put(n, <<Backtick, printed[n], Backtick>>)) :
         n \in {i \in DOMAIN printed : printed[i].type = "identifier"}}

FairSpec == Spec /\ WF_vars(Next)

-----------------------------------------------------------------------------
Parsed == stack[1].node

Accepted == outcome = "ok"

\* A union with null is written T?, which only a field and the schema may be.
RECURSIVE TypeReadsBack(_, _)
TypeReadsBack(t, mayBeNullable) ==
  CASE t = Nothing -> FALSE
    [] t.kind = "ident" -> t.name \notin DOMAIN TypeKeywords
    [] t.kind = "map" -> TRUE
    [] t.kind = "array" -> TypeReadsBack(t.items, FALSE)
    [] t.kind = "union" ->
         IF Len(t.types) = 2 /\ t.types[1] = Ident("null")
         THEN mayBeNullable /\ TypeReadsBack(t.types[2], FALSE)
         ELSE t.types # << >> /\ \A i \in DOMAIN t.types : TypeReadsBack(t.types[i], FALSE)

RECURSIVE ValueReadsBack(_)
ValueReadsBack(v) ==
  CASE v.kind = "list" -> \A i \in DOMAIN v.items : ValueReadsBack(v.items[i])
    [] v.kind = "object" -> \A k \in DOMAIN v.entries : ValueReadsBack(v.entries[k])
    [] v.kind = "float" -> v.val = "1.5"
    [] OTHER -> TRUE

DocReadsBack(doc) == doc \in {"", "d"}

FieldReadsBack(field) ==
  /\ DocReadsBack(field.doc)
  /\ TypeReadsBack(field.type, TRUE)
  /\ \A k \in DOMAIN field.properties : ValueReadsBack(field.properties[k])
  /\ field.default = Nothing \/ ValueReadsBack(field.default[1])

DeclarationReadsBack(decl) ==
  /\ DocReadsBack(decl.doc)
  /\ \A k \in DOMAIN decl.properties : ValueReadsBack(decl.properties[k])
  /\ CASE decl.kind = "fixed" -> TRUE
       [] decl.kind = "enum" ->
            decl.values # << >> /\ \A i \in DOMAIN decl.values : DocReadsBack(decl.values[i].doc)
       [] decl.kind = "record" ->
            decl.fields # << >> /\ \A i \in DOMAIN decl.fields : FieldReadsBack(decl.fields[i])

ReadsBack(file) ==
  TypeReadsBack(file.type, TRUE) /\ \A i \in DOMAIN file.types : DeclarationReadsBack(file.types[i])

Keywords == DOMAIN Declarations \cup DOMAIN TypeKeywords \cup {"schema", "namespace"}

(***************************************************************************)
(* What Print writes parses to the file that was printed, for all but the  *)
(* files that ReadsBack leaves out: a type named as a type keyword, which  *)
(* is printed without backticks; a nullable type inside another; a float   *)
(* without a fraction; a doc comment that starts with a star; an empty     *)
(* enum, record or union.  Each of those comes back as another file, or    *)
(* not at all.  Backticks around a name change nothing, wherever the name  *)
(* is; around a keyword they make the file another one, or none.           *)
(***************************************************************************)
FilesReadBack ==
  outcome # "parsing" =>
    LET back == Accepted /\ Parsed = source.file
    IN  /\ source.edit = "whole" => back = ReadsBack(source.file)
        /\ source.edit = "escaped" =>
             back = (source.tokens[source.at + 1].val \notin Keywords)

WithoutDefault(decl) == IF decl.kind = "enum" THEN [decl EXCEPT !.default = Nothing] ELSE decl

(***************************************************************************)
(* A file whose end is lost is refused, or it parses to the first of its   *)
(* declarations, whole, but that the last enum may miss its default.       *)
(***************************************************************************)
DeclarationsAreWhole ==
  source.edit = "cut" /\ Accepted /\ ReadsBack(source.file) =>
    LET n == Len(Parsed.types)
        first == SubSeq(source.file.types, 1, n)
        last == IF n = 0 THEN << >> ELSE <<WithoutDefault(Last(first))>>
    IN  /\ n <= Len(source.file.types)
        /\ \/ Parsed = [source.file EXCEPT !.types = first]
           \/ n > 0 /\ Parsed = [source.file EXCEPT !.types = Front(first) \o last]

\* A comma after the last member of a union or the last value of an enum, and a
\* doc comment or an annotation after the last field of a record or the last
\* declaration.
IsStray ==
  LET tok == source.tokens[source.at]
      extra == Len(source.tokens) - Len(Whole(source.file).tokens)
      rest == SubSeq(source.tokens, source.at + extra, Len(source.tokens))
  IN  \/ tok = Symbol(",") /\ rest[1] = Symbol("}")
      \/ tok.type \in {"doc", "annotation"} /\ (rest = << >> \/ rest[1] = Symbol("}"))

(***************************************************************************)
(* A token too many, or an annotation, is refused, or what is parsed shows *)
(* it, but for the commas, doc comments and annotations that the parser    *)
(* drops (IsStray); what the tokenizer refuses is never accepted.          *)
(***************************************************************************)
ExtraTokensShow ==
  source.edit = "extra" /\ Accepted =>
    source.end = "eof" /\ (Parsed = source.file => IsStray)

(***************************************************************************)
(* Parse returns, whatever the tokens are: no production waits for a token *)
(* that does not come, or reads one again and again.                       *)
(***************************************************************************)
ParsingEnds == <>(outcome # "parsing")
=============================================================================

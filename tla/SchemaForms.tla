----------------------------- MODULE SchemaForms -----------------------------
(***************************************************************************)
(* A schema on its way through its forms: a value of this package, JSON,   *)
(* the types of an IDL file, their canonical form.  It is marshaled and    *)
(* parsed again and again, as between programs that pass it on.            *)
(***************************************************************************)
EXTENDS Canonical

CONSTANTS
  Schemas,      \* the schemas to start with
  Documents,    \* JSON documents to start with, good and bad
  Files         \* IDL files to start with

VARIABLES
  form,      \* what it is now: "schema", "json", "file", "canonical", "refused"
  it,        \* the schema in this form
  parser,    \* which package's JSON it is
  meaning,   \* history: what it meant first, if JSON can say that, or << >>
  settled    \* history: the schema that was first parsed from plain names, or << >>

vars == <<form, it, parser, meaning, settled>>

(***************************************************************************)
(* What a schema means by Avro's rules for names: the types it declares    *)
(* and stands for by their full names.                                     *)
(***************************************************************************)
FieldsAvroNamespace(r, namespace) == AvroNamespace(r.name, r.namespace, namespace)

RECURSIVE Meaning(_, _)
Meaning(s, namespace) ==
  LET full(t) == FullName(t.name, Enclosing(t.namespace, namespace))
      fixed(t) == Fixed(full(t), << >>, t.size)
      field(f) == Field(f.name, Meaning(f.type, FieldsAvroNamespace(s, namespace)), f.default, f.order)
      branch(b) == Meaning(b, namespace)
      each(slice, made(_)) == Slice([i \in DOMAIN slice.items |-> made(slice.items[i])])
  IN  CASE s.kind = "primitive" /\ s.name \notin Primitives -> Ref(s.name, << >>)
        [] s.kind = "ref" -> Ref(full(s), << >>)
        [] s.kind = "array" -> Array(Meaning(s.items, namespace))
        [] s.kind = "map" -> Map(Meaning(s.items, namespace))
        [] s.kind = "union" -> Union(each(s.types, branch))
        [] s.kind = "record" -> Record(full(s), << >>, each(s.fields, field))
        [] s.kind = "enum" -> Enum(full(s), << >>, Slice(s.symbols.items), s.default)
        [] s.kind = "fixed" -> fixed(s)
        [] s.kind = "decimal" ->
             Decimal(IF s.under.kind = "fixed" THEN fixed(s.under) ELSE s.under, s.precision, s.scale)
        [] s.kind = "duration" ->
             Duration(fixed([s.under EXCEPT !.name = DurationName(s.under), !.size = 12]))
        [] OTHER -> s

(***************************************************************************)
(* Whether JSON, as this package writes and reads it, says what the schema *)
(* means.  It does not                                                     *)
(*   - of a reference that is named like a primitive type and has no       *)
(*     namespace: it is read as that type;                                 *)
(*   - of a name that a dot begins or ends;                                *)
(*   - of a record whose dotted name names another namespace than the one  *)
(*     around it: what it declares inherits the latter;                    *)
(*   - of a default that is a whole number beyond Exact.                   *)
(***************************************************************************)
RECURSIVE IsSayable(_, _)
IsSayable(s, namespace) ==
  LET field(f) ==
        /\ IsSayable(f.type, FieldsAvroNamespace(s, namespace))
        /\ f.default # << >> => Decoded(f.default[1]) = f.default[1]
  IN  CASE s.kind = "ref" -> IsPlain(s.name) /\ (s.name \notin Primitives \/ s.namespace # << >>)
        [] s.kind = "primitive" -> IsPlain(s.name)
        [] s.kind \in {"array", "map"} -> IsSayable(s.items, namespace)
        [] s.kind = "union" -> \A i \in DOMAIN s.types.items : IsSayable(s.types.items[i], namespace)
        [] s.kind = "record" ->
             /\ FieldsAvroNamespace(s, namespace) = Enclosing(s.namespace, namespace)
             /\ \A i \in DOMAIN s.fields.items : field(s.fields.items[i])
        [] OTHER -> TRUE

Meant(s, namespace) == IF IsSayable(s, namespace) THEN <<Meaning(s, namespace)>> ELSE << >>

\* The schema that an IDL type stands for: identifiers may be primitive types.
RECURSIVE IdlSchema(_)
IdlSchema(t) ==
  LET plain(f) == Field(f.name, IdlSchema(f.type), << >>, "ascending")
      each(slice, made(_)) == Slice([i \in DOMAIN slice.items |-> made(slice.items[i])])
  IN  CASE t.kind = "ref" /\ t.name \in Primitives -> Primitive(t.name)
        [] t.kind = "array" -> Array(IdlSchema(t.items))
        [] t.kind = "map" -> Map(IdlSchema(t.items))
        [] t.kind = "union" -> Union(each(t.types, IdlSchema))
        [] t.kind = "record" -> Record(t.name, t.namespace, each(t.fields, plain))
        [] t.kind = "enum" -> [t EXCEPT !.default = << >>]
        [] OTHER -> t

\* The types of an IDL file, in the order SchemaFrom promises.
IdlTypes(file) == SelectSeq(<<file.type>> \o file.types, LAMBDA t : t # NilSchema)

Start(f, schema, p, means) ==
  form = f /\ it = schema /\ parser = p /\ meaning = means /\ settled = << >>

Init ==
  \/ \E s \in Schemas : Start("schema", s, "avro", Meant(s, << >>))
  \/ \E d \in Documents, p \in {"avro", "canonical"} : Start("json", d, p, << >>)
  \/ \E f \in Files : Start("file", f, "canonical", << >>)

Becomes(f, schema) == form' = f /\ it' = schema

\* json.Marshal of a schema of either package.
Marshal ==
  /\ form = "schema"
  /\ IF Marshals(it) THEN Becomes("json", Json(it)) ELSE Becomes("refused", it)
  /\ UNCHANGED <<parser, meaning, settled>>

MarshalCanonical ==
  /\ form = "canonical"
  /\ IF CanonicalMarshals(it) THEN Becomes("json", CanonicalJson(it)) ELSE Becomes("refused", it)
  /\ UNCHANGED <<parser, meaning, settled>>

\* No dot begins or ends a name in a JSON text.
RECURSIVE HasPlainNames(_)
HasPlainNames(j) ==
  CASE j.json = "string" -> IsPlain(j.val)
    [] j.json \in {"list", "object"} -> \A i \in DOMAIN j.val : HasPlainNames(j.val[i])
    [] OTHER -> TRUE

Parsed(f, schema) ==
  IF schema = Bad
  THEN Becomes("refused", it) /\ UNCHANGED <<meaning, settled>>
  ELSE /\ Becomes(f, schema)
       /\ settled' = IF settled = << >> /\ HasPlainNames(it) THEN <<schema>> ELSE settled
       /\ meaning' = IF meaning = << >> THEN Meant(schema, << >>) ELSE meaning

Parse ==
  /\ form = "json"
  /\ parser = "avro"
  /\ Parsed("schema", ParseJSON(it))
  /\ UNCHANGED parser

UnmarshalCanonical ==
  /\ form = "json"
  /\ parser = "canonical"
  /\ Parsed("canonical", Unmarshal(it))
  /\ UNCHANGED parser

\* The JSON of a canonical form is a schema for a program that has no use for that form.
PassOn ==
  /\ form = "json"
  /\ parser = "canonical"
  /\ parser' = "avro"
  /\ settled' = << >>
  /\ UNCHANGED <<form, it, meaning>>

Canonicalise ==
  /\ form = "file"
  /\ \E i \in DOMAIN SchemaFrom(it) :
       /\ Becomes("canonical", SchemaFrom(it)[i])
       /\ meaning' = Meant(IdlSchema(IdlTypes(it)[i]), it.namespace)
  /\ UNCHANGED <<parser, settled>>

Next ==
  \/ Marshal
  \/ MarshalCanonical
  \/ Parse
  \/ UnmarshalCanonical
  \/ PassOn
  \/ Canonicalise

Spec == Init /\ [][Next]_vars

-----------------------------------------------------------------------------
(***************************************************************************)
(* However a schema is spelled on its way, every declaration and every     *)
(* reference in it keeps its full name by Avro's rules, and everything     *)
(* else its place: through json.Marshal and ParseJSON, from an IDL file to *)
(* its canonical form, and from there to a program that parses it as a     *)
(* schema.  IsSayable names the schemas of which that is not so.           *)
(***************************************************************************)
MeaningIsKept ==
  (form \in {"schema", "canonical"} /\ meaning # << >>) => Meaning(it, << >>) = meaning[1]

(***************************************************************************)
(* What ParseJSON or the canonical parser made of a document, good or bad, *)
(* is itself written and read back without change: nothing that was        *)
(* accepted is refused later, nor lost, be it a null default, a null       *)
(* symbol, a logical type that was ignored or a namespace that was         *)
(* inherited; and a canonical form keeps its text.  Excepted are names     *)
(* that a dot begins or ends, which are not read as they are written, and  *)
(* a canonical reference with a quote in it, which cannot be written.      *)
(***************************************************************************)
ParsedSchemasSettle ==
  settled # << >> =>
    /\ form = "refused" => ~CanonicalMarshals(settled[1])
    /\ form = "schema" => it = settled[1]
    /\ form = "canonical" => CanonicalJson(it) = CanonicalJson(settled[1])
=============================================================================

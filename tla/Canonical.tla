------------------------------ MODULE Canonical ------------------------------
(***************************************************************************)
(* canonical.Schema: the schemas of an IDL file without what a reader of   *)
(* data does not need, every name of a type in full, and their JSON.       *)
(*                                                                         *)
(* IDL types are written like the schemas of SchemaJson, with Ref(name,    *)
(* << >>) for an identifier; so are canonical schemas, whose namespaces    *)
(* are empty and whose references are primitives.                          *)
(***************************************************************************)
EXTENDS SchemaJson

\* A segment of a name that JSON must escape.
Quoted == "\""

\* schemaFromIdent.
SchemaFromIdent(namespace, name) ==
  Primitive(IF name \in Primitives THEN name ELSE FullName(name, namespace))

\* The namespace the fields of a record are qualified with.
MemberNamespace(r, namespace) == Enclosing(r.namespace, namespace)

RECURSIVE SchemaFromType(_, _)
SchemaFromType(namespace, t) ==
  LET ns == MemberNamespace(t, namespace)
      plain(f) == Field(f.name, SchemaFromType(ns, f.type), << >>, "ascending")
      branch(b) == SchemaFromType(namespace, b)
      each(slice, made(_)) == Slice([i \in DOMAIN slice.items |-> made(slice.items[i])])
      full == FullName(t.name, Enclosing(t.namespace, namespace))
  IN  CASE t.kind = "ref" -> SchemaFromIdent(namespace, t.name)
        [] t.kind = "record" -> Record(full, << >>, each(t.fields, plain))
        [] t.kind = "enum" -> Enum(full, << >>, Slice(t.symbols.items), << >>)
        [] t.kind = "fixed" -> Fixed(full, << >>, t.size)
        [] t.kind = "array" -> Array(SchemaFromType(namespace, t.items))
        [] t.kind = "map" -> Map(SchemaFromIdent(namespace, t.items.name))
        [] t.kind = "union" -> Union(each(t.types, branch))

\* The type of a file, if it has one, and the types it declares.
TypesOf(file) == (IF file.type = NilSchema THEN << >> ELSE <<file.type>>) \o file.types

\* SchemaFrom: one schema for each of them.
SchemaFrom(file) ==
  [i \in DOMAIN TypesOf(file) |-> SchemaFromType(file.namespace, TypesOf(file)[i])]

\* Whether json.Marshal succeeds: marshalPrimitive escapes nothing.
RECURSIVE CanonicalMarshals(_)
CanonicalMarshals(s) ==
  CASE s.kind = "primitive" -> \A i \in DOMAIN s.name : s.name[i] # Quoted
    [] s.kind \in {"array", "map"} -> CanonicalMarshals(s.items)
    [] s.kind = "union" -> \A i \in DOMAIN s.types.items : CanonicalMarshals(s.types.items[i])
    [] s.kind = "record" -> \A i \in DOMAIN s.fields.items : CanonicalMarshals(s.fields.items[i].type)
    [] OTHER -> TRUE

RECURSIVE CanonicalJson(_)
CanonicalJson(s) ==
  LET member(f) == Object([name |-> Text(f.name), type |-> CanonicalJson(f.type)])
      list(slice, json(_)) == Items([i \in DOMAIN slice.items |-> json(slice.items[i])])
  IN  CASE s.kind = "primitive" -> Text(s.name)
        [] s.kind = "record" ->
             Object([name |-> Text(s.name), type |-> Keyword("record"), fields |-> list(s.fields, member)])
        [] s.kind = "enum" ->
             Object([name |-> Text(s.name), type |-> Keyword("enum"), symbols |-> list(s.symbols, Text)])
        [] s.kind = "array" -> Object([type |-> Keyword("array"), items |-> CanonicalJson(s.items)])
        [] s.kind = "map" -> Object([type |-> Keyword("map"), values |-> CanonicalJson(s.items)])
        [] s.kind = "union" -> list(s.types, CanonicalJson)
        [] s.kind = "fixed" ->
             Object([name |-> Text(s.name), type |-> Keyword("fixed"), size |-> Number(s.size)])

\* What encoding/json takes for a value of the type: a null for any.
Takes(obj, key, json) == key \in DOMAIN obj /\ Fits(obj, key, json)

\* A list of strings as a slice, nil for a null.
TextsAt(obj, key) == IF obj[key].json = "list" THEN Slice(Texts(obj[key].val)) ELSE NilSlice

\* The items of a list, none if it is null.
ItemsAt(obj, key) == IF obj[key].json = "list" THEN obj[key].val ELSE << >>

\* UnmarshalJSON of a canonical Schema: no logical types, no nested types.
RECURSIVE Unmarshal(_)
Unmarshal(j) ==
  LET obj == j.val
      at(key) == IF key \in DOMAIN obj THEN Unmarshal(obj[key]) ELSE Bad
      field(f) ==
        LET type == IF "type" \in DOMAIN f.val THEN Unmarshal(f.val.type) ELSE Bad
        IN  IF f.json = "object" /\ Takes(f.val, "name", "string") /\ type # Bad
            THEN Field(TextAt(f.val, "name"), type, << >>, "ascending")
            ELSE Bad
      all(items, read(_)) == [i \in DOMAIN items |-> read(items[i])]
      type == TextAt(obj, "type")
  IN  CASE j.json = "string" -> Primitive(j.val)
        [] j.json = "list" -> LET types == all(j.val, Unmarshal) IN Whole(types, Union(Slice(types)))
        [] j.json \in {"null", "number"} -> Bad
        [] ~Takes(obj, "type", "string") -> Bad
        [] type = <<"array">> -> LET items == at("items") IN Whole(<<items>>, Array(items))
        [] type = <<"map">> -> LET values == at("values") IN Whole(<<values>>, Map(values))
        [] type = <<"record">> /\ Takes(obj, "name", "string") /\ Takes(obj, "fields", "list") ->
             LET fields == all(ItemsAt(obj, "fields"), field)
             IN  Whole(fields, Record(TextAt(obj, "name"), << >>, Slice(fields)))
        [] type = <<"enum">> /\ Takes(obj, "name", "string")
            /\ Takes(obj, "symbols", "list") /\ AreTexts(ItemsAt(obj, "symbols")) ->
             Enum(TextAt(obj, "name"), << >>, TextsAt(obj, "symbols"), << >>)
        [] type = <<"fixed">> /\ Takes(obj, "name", "string") /\ Takes(obj, "size", "number") ->
             Fixed(TextAt(obj, "name"), << >>, NumberAt(obj, "size"))
        [] OTHER -> Bad
=============================================================================

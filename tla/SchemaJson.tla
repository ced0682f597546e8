----------------------------- MODULE SchemaJson -----------------------------
(***************************************************************************)
(* avro.Schema and its JSON form: the marshalers of the schema types, and  *)
(* ParseJSON.                                                              *)
(*                                                                         *)
(* JSON texts are names (see Names), whatever they are used for; a default *)
(* is the JSON that json.Marshal makes of it, if any.  Documentation and   *)
(* aliases are left out: they are copied like an enum's default.           *)
(***************************************************************************)
EXTENDS Names, Integers, TLC

CONSTANT
  Exact         \* a float64 holds every whole number up to this one: 2^53

\* JSON.
Text(name) == [json |-> "string", val |-> name]
Number(n) == [json |-> "number", val |-> n]
Items(items) == [json |-> "list", val |-> items]
Object(members) == [json |-> "object", val |-> members]
Null == [json |-> "null", val |-> 0]

Keyword(k) == Text(<<k>>)

\* What encoding/json decodes into an any: a number becomes the nearest float64,
\* the even one of two.  Numbers are below 2 * Exact.
Decoded(json) ==
  IF json.json # "number" \/ json.val <= Exact \/ json.val % 2 = 0 THEN json
  ELSE Number(4 * ((json.val + 1) \div 4))

\* A default that json.Marshal refuses, as a channel or a NaN.
NotJson == [json |-> "none", val |-> 0]

\* A Go slice, which may be nil.
Slice(items) == [nil |-> FALSE, items |-> items]
NilSlice == [nil |-> TRUE, items |-> << >>]

\* Schemas.  NilSchema stands for a missing one, Bad for an error.
NilSchema == [kind |-> "nil"]
Bad == [kind |-> "error"]
Primitive(name) == [kind |-> "primitive", name |-> name]
Logical(logical) == [kind |-> "logical", logical |-> logical]
Ref(name, namespace) == [kind |-> "ref", name |-> name, namespace |-> namespace]
Array(items) == [kind |-> "array", items |-> items]
Map(values) == [kind |-> "map", items |-> values]
Union(types) == [kind |-> "union", types |-> types]
Fixed(name, namespace, size) ==
  [kind |-> "fixed", name |-> name, namespace |-> namespace, size |-> size]
Enum(name, namespace, symbols, default) ==
  [kind |-> "enum", name |-> name, namespace |-> namespace, symbols |-> symbols, default |-> default]
Record(name, namespace, fields) ==
  [kind |-> "record", name |-> name, namespace |-> namespace, fields |-> fields]
Decimal(under, precision, scale) ==
  [kind |-> "decimal", under |-> under, precision |-> precision, scale |-> scale]
Duration(under) == [kind |-> "duration", under |-> under]

\* default is << >> or the one default value.
Field(name, type, default, order) ==
  [name |-> name, type |-> type, default |-> default, order |-> order]

Primitives ==
  {<<p>> : p \in {"null", "boolean", "int", "long", "float", "double", "bytes", "string"}}

Orders == {"ascending", "descending", "ignore"}

\* The logical types that have no attributes, and what each is written as.
LogicalBase ==
  ("uuid" :> "string") @@ ("date" :> "int") @@ ("time-millis" :> "int") @@
  [l \in {"time-micros", "timestamp-millis", "timestamp-micros", "timestamp-nanos",
          "local-timestamp-millis", "local-timestamp-micros", "local-timestamp-nanos"} |-> "long"]

-----------------------------------------------------------------------------
DurationName(under) == IF under.name = << >> THEN <<"duration">> ELSE under.name

\* Whether json.Marshal succeeds.
RECURSIVE Marshals(_)
Marshals(s) ==
  CASE s.kind \in {"array", "map"} -> Marshals(s.items)
    [] s.kind = "union" -> \A i \in DOMAIN s.types.items : Marshals(s.types.items[i])
    [] s.kind = "record" ->
         \A i \in DOMAIN s.fields.items :
           /\ s.fields.items[i].order \in Orders
           /\ s.fields.items[i].default # <<NotJson>>
           /\ Marshals(s.fields.items[i].type)
    [] s.kind = "decimal" -> s.under.kind = "fixed" \/ s.under = Primitive(<<"bytes">>)
    [] s.kind = "duration" -> s.under.size \in {0, 12}
    [] OTHER -> TRUE

\* omitempty.
Unless(absent, member) == IF absent THEN << >> ELSE member

Namespaced(s) ==
  [name |-> Text(s.name)] @@ Unless(s.namespace = << >>, [namespace |-> Text(s.namespace)])

FixedMembers(s) == Namespaced(s) @@ [type |-> Keyword("fixed"), size |-> Number(s.size)]

\* Mutant: a null default is taken for none.
DefaultUnlessNull(f) == Unless(f.default \in {<< >>, <<Null>>}, [default |-> f.default[1]])

DefaultMember(f) == Unless(f.default = << >>, [default |-> f.default[1]])

RECURSIVE Json(_)
Json(s) ==
  LET each(slice, json(_)) ==
        IF slice.nil THEN Null ELSE Items([i \in DOMAIN slice.items |-> json(slice.items[i])])
      member(f) ==
        Object([name |-> Text(f.name), type |-> Json(f.type)]
                 @@ DefaultMember(f)
                 @@ Unless(f.order = "ascending", [order |-> Keyword(f.order)]))
  IN  CASE s.kind = "nil" -> Null
        [] s.kind = "primitive" -> Text(s.name)
        [] s.kind = "ref" -> Text(FullName(s.name, s.namespace))
        [] s.kind = "logical" ->
             Object([type |-> Keyword(LogicalBase[s.logical]), logicalType |-> Keyword(s.logical)])
        [] s.kind = "array" -> Object([type |-> Keyword("array"), items |-> Json(s.items)])
        [] s.kind = "map" -> Object([type |-> Keyword("map"), values |-> Json(s.items)])
        [] s.kind = "union" -> each(s.types, Json)
        [] s.kind = "fixed" -> Object(FixedMembers(s))
        [] s.kind = "enum" ->
             Object([type |-> Keyword("enum"), symbols |-> each(s.symbols, Text)] @@ Namespaced(s)
                      @@ Unless(s.default = << >>, [default |-> Text(s.default)]))
        [] s.kind = "record" ->
             Object([type |-> Keyword("record"), fields |-> each(s.fields, member)] @@ Namespaced(s))
        [] s.kind = "decimal" ->
             Object([logicalType |-> Keyword("decimal"), precision |-> Number(s.precision)]
                      @@ Unless(s.scale = 0, [scale |-> Number(s.scale)])
                      @@ IF s.under.kind = "fixed" THEN FixedMembers(s.under)
                         ELSE [type |-> Keyword("bytes")])
        [] s.kind = "duration" ->
             Object([logicalType |-> Keyword("duration")]
                      @@ FixedMembers([s.under EXCEPT !.size = 12, !.name = DurationName(s.under)]))

-----------------------------------------------------------------------------
\* unmarshalIfPresent: a null leaves what was there, anything else must fit.
Fits(obj, key, json) == key \in DOMAIN obj => obj[key].json \in {json, "null"}

TextAt(obj, key) ==
  IF key \in DOMAIN obj /\ obj[key].json = "string" THEN obj[key].val ELSE << >>

NumberAt(obj, key) ==
  IF key \in DOMAIN obj /\ obj[key].json = "number" THEN obj[key].val ELSE 0

\* Texts of a list of strings: a null leaves an empty one.
AreTexts(items) == \A i \in DOMAIN items : items[i].json \in {"string", "null"}

Texts(items) == [i \in DOMAIN items |-> IF items[i].json = "string" THEN items[i].val ELSE << >>]

\* A list that must be there, and not be null.
HasList(obj, key) == key \in DOMAIN obj /\ obj[key].json = "list"

\* name and namespace of a named type.
HasNames(obj) ==
  /\ Fits(obj, "name", "string") /\ TextAt(obj, "name") # << >>
  /\ Fits(obj, "namespace", "string")

\* parseTypeName: what is neither primitive nor qualified inherits its namespace.
TypeName(name, namespace) ==
  IF name \in Primitives THEN Primitive(name)
  ELSE IF IsDotted(name)
       THEN Ref(AsName(<<name[Len(name)]>>), AsName(SubSeq(name, 1, Len(name) - 1)))
  ELSE Ref(name, namespace)

\* The schema made of parts, if none of them is bad.
Whole(parts, schema) == IF \E i \in DOMAIN parts : parts[i] = Bad THEN Bad ELSE schema

ParseEnum(obj, namespace) ==
  IF /\ HasNames(obj)
     /\ HasList(obj, "symbols")
     /\ AreTexts(obj.symbols.val)
     /\ Fits(obj, "default", "string")
  THEN Enum(TextAt(obj, "name"), Enclosing(TextAt(obj, "namespace"), namespace),
            Slice(Texts(obj.symbols.val)), TextAt(obj, "default"))
  ELSE Bad

ParseFixed(obj, namespace) ==
  IF HasNames(obj) /\ "size" \in DOMAIN obj /\ Fits(obj, "size", "number")
  THEN Fixed(TextAt(obj, "name"), Enclosing(TextAt(obj, "namespace"), namespace), NumberAt(obj, "size"))
  ELSE Bad

\* Mutant: the namespace around a record is preferred to its own.
FieldsNamespaceOuter(obj, namespace) == Enclosing(namespace, TextAt(obj, "namespace"))

FieldsNamespace(obj, namespace) == Enclosing(TextAt(obj, "namespace"), namespace)

OrderAt(obj) == IF "order" \in DOMAIN obj THEN obj.order.val ELSE <<"ascending">>

RECURSIVE ParseSchema(_, _)

\* A member that holds a schema.
ParseAt(obj, key, namespace) == IF key \in DOMAIN obj THEN ParseSchema(obj[key], namespace) ELSE Bad

ParseField(j, namespace) ==
  LET obj == j.val
      type == ParseAt(obj, "type", namespace)
  IN  IF /\ j.json = "object"
         /\ Fits(obj, "name", "string") /\ TextAt(obj, "name") # << >>
         /\ type # Bad
         /\ "order" \in DOMAIN obj => obj.order.json = "string"
         /\ OrderAt(obj) \in {<<o>> : o \in Orders}
      THEN Field(TextAt(obj, "name"), type,
                 IF "default" \in DOMAIN obj THEN <<Decoded(obj.default)>> ELSE << >>, OrderAt(obj)[1])
      ELSE Bad

ParseRecord(obj, namespace) ==
  IF HasNames(obj) /\ HasList(obj, "fields")
  THEN LET fields == [i \in DOMAIN obj.fields.val |->
                        ParseField(obj.fields.val[i], FieldsNamespace(obj, namespace))]
       IN  Whole(fields, Record(TextAt(obj, "name"), TextAt(obj, "namespace"), Slice(fields)))
  ELSE Bad

\* parseObjectJSON without a logical type, and parseLogicalUnderlying.
ParseUnder(type, obj, namespace) ==
  CASE type = <<"record">> -> ParseRecord(obj, namespace)
    [] type = <<"enum">> -> ParseEnum(obj, namespace)
    [] type = <<"array">> -> LET items == ParseAt(obj, "items", namespace) IN Whole(<<items>>, Array(items))
    [] type = <<"map">> -> LET values == ParseAt(obj, "values", namespace) IN Whole(<<values>>, Map(values))
    [] type = <<"fixed">> -> ParseFixed(obj, namespace)
    [] OTHER -> TypeName(type, namespace)

\* A logical type that does not go with the type under it is ignored.
ParseLogical(type, logical, obj, namespace) ==
  LET under == ParseUnder(type, obj, namespace)
  IN  CASE under = Bad -> Bad
        [] logical = "decimal" /\ type \in {<<"bytes">>, <<"fixed">>} ->
             IF "precision" \in DOMAIN obj /\ Fits(obj, "precision", "number") /\ Fits(obj, "scale", "number")
             THEN Decimal(under, NumberAt(obj, "precision"), NumberAt(obj, "scale"))
             ELSE Bad
        [] logical \in DOMAIN LogicalBase /\ type = <<LogicalBase[logical]>> -> Logical(logical)
        [] logical = "duration" /\ under.kind = "fixed" /\ under.size = 12 -> Duration(under)
        [] OTHER -> under

ParseObject(obj, namespace) ==
  IF "type" \notin DOMAIN obj THEN Bad
  ELSE IF ~Fits(obj, "type", "string") THEN ParseSchema(obj.type, namespace)
  ELSE IF "logicalType" \notin DOMAIN obj THEN ParseUnder(TextAt(obj, "type"), obj, namespace)
  ELSE IF Fits(obj, "logicalType", "string")
       THEN ParseLogical(TextAt(obj, "type"), (TextAt(obj, "logicalType") \o <<"">>)[1], obj, namespace)
  ELSE Bad

ParseSchema(j, namespace) ==
  CASE j.json = "string" -> TypeName(j.val, namespace)
    [] j.json = "list" ->
         LET types == [i \in DOMAIN j.val |-> ParseSchema(j.val[i], namespace)]
         IN  Whole(types, Union(Slice(types)))
    [] j.json = "object" -> ParseObject(j.val, namespace)
    [] OTHER -> Bad

ParseJSON(j) == ParseSchema(j, << >>)
=============================================================================

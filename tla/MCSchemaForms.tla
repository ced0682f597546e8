---------------------------- MODULE MCSchemaForms ----------------------------
(***************************************************************************)
(* Schemas, IDL types and documents of up to three levels: a record in a   *)
(* namespace of its own or around, with declarations and references in it  *)
(* that inherit one, bring their own, or are dotted; and every way the     *)
(* attributes of a document can be missing, null or of another type.       *)
(* Among the names are some that are odd: a dot at an end, a quote, and    *)
(* references called like a primitive type.  Numbers up to 2 are exact.    *)
(***************************************************************************)
EXTENDS SchemaForms

A == <<"A">>
B == <<"B">>
F == <<"f">>
X == <<"x">>
XA == <<"x", "A">>
None == << >>
Twelve == 12
Symbols == Slice(<<<<"s">>>>)

OneField(type) == Slice(<<Field(F, type, << >>, "ascending")>>)

\* Types an IDL file can have, and a schema as well.
Plain ==
  {Ref(A, None), Ref(XA, None), Fixed(A, None, 1), Fixed(A, X, 1), Fixed(XA, None, 1),
   Enum(B, None, Symbols, None), Enum(A, X, Symbols, <<"s">>)}

RecordsOf(types) ==
  {Record(n, ns, OneField(t)) : n \in {B, X \o B}, ns \in {None, X}, t \in types}

Wraps(types) ==
  {Array(t) : t \in types} \cup {Union(Slice(<<Ref(A, None), t>>)) : t \in types}

SomeTypes ==
  LET inner == Plain \cup {Ref(<<"int">>, None), Map(Ref(A, None)), Map(Ref(<<"int">>, None))}
      outer == inner \cup Wraps(inner) \cup RecordsOf(inner)
  IN  outer \cup RecordsOf(Wraps(inner)) \cup
      {Record(<<"C">>, ns, OneField(t)) : ns \in {None, <<"y">>}, t \in RecordsOf(inner)}

File(ns, type, types) == [namespace |-> ns, type |-> type, types |-> types]

SomeFiles ==
  {File(ns, NilSchema, <<t>>) : ns \in {None, <<"z">>}, t \in SomeTypes}
    \cup {File(<<"z">>, Ref(A, None), <<t, Map(Ref(A, None))>>) : t \in Plain}
    \cup {File(None, Array(Ref(A, None)), << >>)}

Leaves ==
  Plain \cup
  {Primitive(<<"int">>), Logical("date"), Logical("uuid"), Ref(A, X), Ref(XA, <<"y">>), NilSchema,
   Ref(<<"int">>, None), Ref(<<"int">>, X), Ref(None, X), Ref(<<"x", "">>, None), Ref(A, <<"x", "">>),
   Enum(B, None, NilSlice, None), Union(NilSlice), Union(Slice(<< >>)), Record(B, X, NilSlice),
   Record(None, X, Slice(<< >>)),
   Decimal(Primitive(<<"bytes">>), 4, 0), Decimal(Fixed(A, None, 2), 4, 2),
   Decimal(Primitive(<<"int">>), 4, 2),
   Duration(Fixed(None, None, 0)), Duration(Fixed(A, X, Twelve)), Duration(Fixed(A, X, 11))}

\* A field with attributes.
OddFields(type) ==
  {Slice(<<Field(F, type, d, o), Field(<<"g">>, Ref(A, None), << >>, "ascending")>>) :
     d \in {<< >>, <<Null>>, <<Text(A)>>, <<Number(3)>>, <<NotJson>>}, o \in Orders \cup {"sideways"}}

SomeSchemas ==
  LET outer == Leaves \cup Wraps(Leaves) \cup {Map(t) : t \in Leaves} \cup RecordsOf(Leaves)
  IN  outer \cup RecordsOf(Wraps(Leaves)) \cup
      {Record(<<"C">>, ns, OneField(t)) : ns \in {None, <<"y">>}, t \in RecordsOf(Leaves)} \cup
      {Record(B, X, fs) : fs \in UNION {OddFields(t) : t \in Plain}}

-----------------------------------------------------------------------------
\* Members of an object that may be missing, and the values they may have.
Optional(key, values) == {<< >>} \cup {key :> v : v \in values}

Objects(parts) == {Object(m) : m \in parts}

Join(ms, ns) == {m @@ n : m \in ms, n \in ns}

Spaces == Optional("namespace", {Null, Text(X), Number(1)})
NamesOf(name) == Join(Optional("name", {Text(name), Text(X \o name), Text(None), Null}), Spaces)
TypeIs(k) == {[type |-> Keyword(k)]}

FixedDocs ==
  Join(TypeIs("fixed"),
       Join(NamesOf(A),
            Join(Optional("size", {Number(1), Number(12), Null, Text(A)}),
                 Optional("logicalType", {Keyword("duration"), Keyword("uuid"), Keyword("new"), Null}))))

DecimalDocs ==
  Join(UNION {TypeIs(k) : k \in {"fixed", "bytes", "int"}},
       Join({[logicalType |-> Keyword("decimal"), name |-> Text(A), size |-> Number(2)]},
            Join(Optional("precision", {Number(4), Null, Text(A)}), Optional("scale", {Number(2), Null}))))

EnumDocs ==
  Join(TypeIs("enum"),
       Join(NamesOf(A),
            Join(Optional("symbols", {Null, Items(<< >>), Items(<<Text(F)>>),
                                      Items(<<Text(F), Null>>), Items(<<Number(1)>>)}),
                 Optional("default", {Text(F), Null, Number(1)}))))

LogicalDocs ==
  Join(UNION {TypeIs(k) : k \in {"int", "string", "A"}},
       Optional("logicalType", {Keyword("date"), Keyword("uuid"), Keyword("duration"), Number(1)}))

Odd ==
  {Object(<< >>), Object([type |-> Null]), Null, Number(1), Text(None),
   Text(<<"x", "">>), Text(<<"", "A">>), Text(<<"", "int">>), Text(<<"", "">>), Text(<<Quoted>>)}

LeafDocs ==
  Objects(FixedDocs \cup DecimalDocs \cup EnumDocs \cup LogicalDocs) \cup Odd \cup
  {Text(<<"int">>), Text(A), Text(XA), Items(<< >>), Items(<<Text(A), Keyword("int")>>)}

\* The leaves that go inside others.
InnerDocs ==
  Odd \cup
  {Text(<<"int">>), Text(A), Text(XA), Items(<<Text(A)>>),
   Object([type |-> Keyword("fixed"), name |-> Text(A), size |-> Number(12)]),
   Object([type |-> Keyword("fixed"), name |-> Text(A), size |-> Number(12),
           logicalType |-> Keyword("duration")]),
   Object([type |-> Keyword("enum"), name |-> Text(A), symbols |-> Items(<<Text(F)>>)])}

FieldDocs ==
  Join(Optional("name", {Text(F), Text(None)}),
       Join(Optional("type", InnerDocs),
            Join(Optional("default", {Null, Text(A), Number(3)}), Optional("order", {Keyword("ignore"), Text(A), Null}))))

WrapDocs(docs) ==
  Join(UNION {TypeIs(k) : k \in {"array", "map"}},
       Join(Optional("items", docs), Optional("values", docs)))

RecordDocs(fields) == Join(TypeIs("record"), Join(NamesOf(B), {[fields |-> Items(<<f>>)] : f \in fields}))

SomeDocuments ==
  LeafDocs \cup {Object([type |-> d]) : d \in LeafDocs}
  \cup Objects(WrapDocs(InnerDocs))
  \cup Objects(RecordDocs(Objects(FieldDocs)))
  \cup Objects(Join(TypeIs("record"), Join(NamesOf(B), Optional("fields", {Null, Items(<< >>), Items(<<Null>>)}))))
  \cup {Items(<<d, Text(A)>>) : d \in Objects(WrapDocs(InnerDocs))}
=============================================================================

-------------------------- MODULE MCArbitraryBytes --------------------------
(***************************************************************************)
(* Bytes of one payload bit and longs of four: a stream of seven bytes can *)
(* hold a complete sized block, a count or a size that overflows, or a     *)
(* varint that goes on for too long.                                       *)
(***************************************************************************)
EXTENDS GenericBytes

EmptyItem == {<< >>}
PowersUpTo12 == [i \in 0 .. 12 |-> 2 ^ i]
BothEnds == {"eof", "fault"}
PowersOfTwo == [i \in 0 .. 4 |-> 2 ^ i]

\* Bytes of two bits, of which the last one of a long has room for one.
PowersOfFour == [i \in 0 .. 3 |-> 4 ^ i]
Clean == {"eof"}

\* A list: records that end in an optional reference to the next one.
Reference == Plan("ref", "record", 1, << >>)
Optional(plan) == Plan("union", "union", 0, <<Simple("null"), plan>>)
ListPlan == Plan("record", "record", 0, <<Simple("boolean"), Optional(Reference)>>)
Lists == <<ListPlan>>

Date == Plan("int", "date", 0, << >>)
Enum == Plan("enum", "enum", 3, << >>)
Fixed == Plan("fixed", "fixed", 2, << >>)
ArrayOf(plan) == Plan("array", "array", 0, <<plan>>)
MapOf(plan) == Plan("map", "map", 0, <<plan>>)
RecordOf(plans) == Plan("record", "record", 0, plans)

SomePlans ==
  {Simple("long"), Date, ArrayOf(Date), ArrayOf(Simple("null")),
   ArrayOf(ArrayOf(Simple("boolean"))), MapOf(Simple("boolean")), MapOf(Enum),
   Plan("union", "union", 0, <<Simple("string"), Date>>), Optional(Enum),
   RecordOf(<<Enum, Fixed, Simple("string")>>), RecordOf(<<Simple("boolean"), MapOf(Date)>>), ListPlan}

\* The plans under these, and those of map keys and of the arrays an ArrayReader reads.
RECURSIVE WithParts(_)
WithParts(plans) ==
  LET parts == UNION {Range(plan.parts) : plan \in plans}
  IN  IF parts \subseteq plans THEN plans ELSE WithParts(plans \cup parts)

AllLayouts ==
  WithParts(SomePlans \cup {Simple("string"), ArrayOf(Simple("null")), ArrayOf(Simple("string"))})

SomeStrings == {<< >>, <<1>>, <<0, 3>>, <<1, 0, 3, 1>>}

\* A value of a Go type that fits no plan.
Strange == <<"strange">>

\* A few values of a plan or beside it, lists of at most depth records.
RECURSIVE Tries(_, _)
Tries(plan, depth) ==
  LET of(i) == Tries(plan.parts[i], depth)
      some == of(1)
  IN {Strange} \cup
     CASE plan.kind = "null" -> {<<"null">>}
       [] plan.kind = "boolean" -> {<<plan.tag, b>> : b \in BOOLEAN}
       [] plan.kind = "long" -> {<<plan.tag, l>> : l \in Long}
       [] plan.kind = "int" -> {<<plan.tag, i>> : i \in (-IntHalf) .. (IntHalf - 1)}
       [] plan.kind = "string" -> {<<plan.tag, s>> : s \in SomeStrings}
       [] plan.kind = "fixed" -> {<<plan.tag, s>> : s \in SomeStrings}
       [] plan.kind = "enum" -> {<<plan.tag, i>> : i \in 0 .. plan.size}
       [] plan.kind = "array" ->
            {<<"array", vs>> : vs \in {<< >>} \cup {<<v>> : v \in some} \cup {<<v, u>> : v, u \in some}}
       [] plan.kind = "map" ->
            {<<"map", vs>> : vs \in {{}} \cup {{<<<< >>, v>>} : v \in some}
                                        \cup {{<<<< >>, v>>, <<<<1>>, u>>} : v, u \in some}}
       [] plan.kind = "union" ->
            {<<"union", 3, Strange>>} \cup
              UNION {{<<"union", i, v>> : v \in of(i)} : i \in DOMAIN plan.parts}
       [] plan.kind = "record" ->
            {<<"record", << >>>>} \cup
              {<<"record", vs>> : vs \in IF Len(plan.parts) = 2
                                         THEN {<<v, u>> : v \in of(1), u \in of(2)}
                                         ELSE {<<v, u, t>> : v \in of(1), u \in of(2), t \in of(3)}}
       [] plan.kind = "ref" -> IF depth = 0 THEN {} ELSE Tries(Definitions[plan.size], depth - 1)

TriedWith == [plan \in SomePlans |-> Tries(plan, 1)]
=============================================================================

-------------------------- MODULE MCGenericCompile --------------------------
(***************************************************************************)
(* Every schema of up to MaxNodes nodes over a handful of nodes: one or    *)
(* two simple names, in a namespace of their own or in the one around      *)
(* them, and dotted ones.                                                  *)
(***************************************************************************)
EXTENDS GenericCompile, FiniteSets

CONSTANTS
  MaxNodes,    \* bound: nodes of a schema
  Dotted       \* whether dotted names occur

Leaf(kind, name, namespace, refused) ==
  [kind |-> kind, name |-> name, namespace |-> namespace, arity |-> 0, refused |-> refused]

Letters == {"A", "B", "x"}
A == <<"A">>
None == << >>
X == <<"x">>

Leaves ==
  {Leaf("int", None, None, 0), Leaf("date", None, None, 0),
   Leaf("fixed", A, None, 0), Leaf("fixed", A, X, 0), Leaf("fixed", A, None, 1),
   Leaf("ref", A, None, 0), Leaf("ref", A, X, 0), Leaf("ref", <<"B">>, None, 0)}
  \cup IF Dotted THEN {Leaf("ref", X \o A, None, 0)} ELSE {}

Inner(kind, name, namespace, arity, refused) ==
  [kind |-> kind, name |-> name, namespace |-> namespace, arity |-> arity, refused |-> refused]

Inners ==
  {Inner("array", None, None, 1, 0),
   Inner("union", None, None, 1, 0), Inner("union", None, None, 2, 0),
   Inner("record", A, None, 1, 0), Inner("record", A, X, 1, 0),
   Inner("record", <<"B">>, X, 2, 0), Inner("record", <<"B">>, None, 2, 0),
   Inner("record", A, None, 2, 2)}
  \cup IF Dotted THEN {Inner("record", X \o <<"B">>, None, 2, 0)} ELSE {}

\* Trees[n] are the schemas of n nodes, Pairs[n] what two of them make.
Trees[n \in 1 .. MaxNodes] ==
  IF n = 1 THEN {<<l>> : l \in Leaves \cup {Inner("union", None, None, 0, 0)}}
  ELSE {<<i>> \o t : i \in {j \in Inners : j.arity = 1}, t \in Trees[n - 1]}
       \cup UNION {{<<i>> \o t \o u : i \in {j \in Inners : j.arity = 2},
                                     t \in Trees[k], u \in Trees[n - 1 - k]}
                   : k \in 1 .. n - 2}

SmallSchemas == UNION {Trees[n] : n \in 1 .. MaxNodes}
=============================================================================

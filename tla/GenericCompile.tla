--------------------------- MODULE GenericCompile ---------------------------
(***************************************************************************)
(* generic.compileSchema: one walk over a schema that validates it,        *)
(* registers its named types and builds the plans of its nodes.            *)
(*                                                                         *)
(* A schema is the sequence of its nodes in the order of the walk, parents *)
(* before children; arity is the number of children, and refused is the    *)
(* place of a child that is refused before it is compiled (nil, or the     *)
(* type of a field whose name is missing or taken), 0 if there is none.    *)
(* Of a node without children, refused # 0 says that its own attributes    *)
(* are bad (its size, symbols, precision).                                 *)
(*                                                                         *)
(* The Go call stack is stack: a frame for each node whose children are    *)
(* being compiled.                                                         *)
(***************************************************************************)
EXTENDS Names, Integers

CONSTANTS
  Segments,    \* of which names are made
  Schemas      \* the schemas to compile

\* Kinds of nodes; fixed stands for enum, decimal over fixed and duration too.
Unnamed == {"int", "date", "string", "array", "union"}
Named == {"record", "fixed"}
Kinds == Unnamed \cup Named \cup {"ref"}
Branching == {"array", "union", "record"}

Nodes ==
  [kind : Kinds, name : Seq(Segments), namespace : Seq(Segments), arity : Nat, refused : Nat]

ASSUME SchemasAssumption ==
  /\ Schemas \subseteq Seq(Nodes)
  /\ \A schema \in Schemas : \A n \in 1 .. Len(schema) :
       schema[n].kind = "array" => schema[n].arity = 1

VARIABLES
  schema,      \* the schema of this run
  next,        \* the node to compile next
  stack,       \* the frames of the nodes being compiled, innermost last
  named,       \* ctx.named: pairs of a full name and the node it was given to
  bound,       \* the named nodes whose enc and dec pointers are set
  plan,        \* the entries references were resolved to: pairs of nodes
  children,    \* history: pairs of a compiled node and its parent
  outcome,     \* "compiling", "ok" or "refused"
  \* What Avro's rules make of the same schema:
  avroNamed,   \* the full names of the named nodes
  avroRefs     \* the full names the references stand for

planVars == <<named, bound, plan>>
avroVars == <<avroNamed, avroRefs>>
vars == <<schema, next, stack, planVars, children, outcome, avroVars>>

\* keys: the branches of a union seen so far; avro: the namespace by the rules.
Frame(node, namespace, avro, left) ==
  [node |-> node, namespace |-> namespace, avro |-> avro, left |-> left, keys |-> {}]

Init ==
  /\ schema \in Schemas
  /\ next = 1
  /\ stack = <<Frame(0, << >>, << >>, 1)>>
  /\ named = {}
  /\ bound = {}
  /\ plan = {}
  /\ children = {}
  /\ outcome = "compiling"
  /\ avroNamed = {}
  /\ avroRefs = {}

Top == stack[Len(stack)]
Node == schema[next]

KindOf(n) == IF n = 0 THEN "root" ELSE schema[n].kind

\* The place of the next child among the children of the innermost node.
Place == schema[Top.node].arity - Top.left + 1

\* Checks a parent makes of a child before it compiles it.
ChildRefused ==
  /\ Top.node # 0
  /\ \/ schema[Top.node].refused = Place
     \/ KindOf(Top.node) = "union" /\ Node.kind = "union"

\* A child of the innermost node is due.
Due(kinds) ==
  /\ outcome = "compiling"
  /\ Top.left > 0
  /\ next <= Len(schema)
  /\ Node.kind \in kinds

\* Mutant: logical types are told from the types they are written as.
WireKindOwn(kind) == kind

WireKind(kind) == IF kind = "date" THEN "int" ELSE kind

\* unionBranchKey.
BranchKey(s, namespace) ==
  IF s.kind \in Named \cup {"ref"}
  THEN <<"named", FullName(s.name, Enclosing(s.namespace, namespace))>>
  ELSE <<"unnamed", WireKind(s.kind)>>

\* Mutant: the child is not counted.
CountedNot(frame, key) == [frame EXCEPT !.keys = @ \cup {key}]

\* The parent's frame once a child with this key was compiled.
Counted(frame, key) == [frame EXCEPT !.left = @ - 1, !.keys = @ \cup {key}]

(***************************************************************************)
(* Node n is compiled; frames are those around it.  A union now refuses a  *)
(* branch whose key it has seen.                                           *)
(***************************************************************************)
Compiled(n, frames) ==
  LET parent == frames[Len(frames)]
      key == BranchKey(schema[n], parent.namespace)
  IN  /\ children' = children \cup {<<n, parent.node>>}
      /\ IF KindOf(parent.node) = "union" /\ key \in parent.keys
         THEN outcome' = "refused" /\ stack' = frames
         ELSE /\ stack' = [frames EXCEPT ![Len(frames)] = Counted(parent, key)]
              /\ UNCHANGED outcome

Refuse ==
  /\ outcome' = "refused"
  /\ UNCHANGED <<stack, planVars, children, avroVars>>

\* Primitives, and logical types over them.
CompileUnnamed ==
  /\ Due(Unnamed \ Branching)
  /\ IF ChildRefused
     THEN Refuse
     ELSE Compiled(next, stack) /\ UNCHANGED <<planVars, avroVars>>
  /\ next' = next + 1
  /\ UNCHANGED schema

\* resolveNamed: what the registry holds for a reference.
Resolved(r, namespace) ==
  {e \in named : e[1] = FullName(r.name, Enclosing(r.namespace, namespace))}

CompileRef ==
  /\ Due({"ref"})
  /\ IF ChildRefused \/ Resolved(Node, Top.namespace) = {}
     THEN Refuse
     ELSE \E e \in Resolved(Node, Top.namespace) :
            /\ plan' = plan \cup {<<next, e[2]>>}
            /\ avroRefs' = avroRefs \cup
                 {<<next, AvroFullName(Node.name, Node.namespace, Top.avro)>>}
            /\ Compiled(next, stack)
            /\ UNCHANGED <<named, bound, avroNamed>>
  /\ next' = next + 1
  /\ UNCHANGED schema

\* registerNamed accepts the name.
MayRegister(full) == full # << >> /\ \A e \in named : e[1] # full

Register(full) ==
  /\ named' = named \cup {<<full, next>>}
  /\ avroNamed' = avroNamed \cup
       {<<AvroFullName(Node.name, Node.namespace, Top.avro), next>>}
  /\ UNCHANGED <<plan, avroRefs>>

\* compileFixed, compileEnum, compileDuration and compileDecimal over a fixed.
CompileFixed ==
  /\ Due({"fixed"})
  /\ LET full == FullName(Node.name, Enclosing(Node.namespace, Top.namespace))
     IN  IF ChildRefused \/ Node.refused # 0 \/ ~MayRegister(full)
         THEN Refuse
         ELSE /\ Register(full)
              /\ bound' = bound \cup {next}
              /\ Compiled(next, stack)
  /\ next' = next + 1
  /\ UNCHANGED schema

\* Mutant: the fields of a record see the namespace around it.
InnerNamespaceOuter(r, namespace) == namespace

\* The namespace the fields of a record are compiled in.
InnerNamespace(r, namespace) == Enclosing(r.namespace, namespace)

\* compileRecord, up to its first field.
OpenRecord ==
  /\ Due({"record"})
  /\ LET full == FullName(Node.name, Enclosing(Node.namespace, Top.namespace))
         avro == AvroNamespace(Node.name, Node.namespace, Top.avro)
         inner == InnerNamespace(Node, Top.namespace)
     IN  IF ChildRefused \/ ~MayRegister(full)
         THEN Refuse
         ELSE /\ Register(full)
              /\ stack' = Append(stack, Frame(next, inner, avro, Node.arity))
              /\ UNCHANGED <<bound, children, outcome>>
  /\ next' = next + 1
  /\ UNCHANGED schema

\* compileArray, compileMap and compileUnion, up to the first child.
OpenUnnamed ==
  /\ Due(Unnamed \cap Branching)
  /\ IF ChildRefused \/ Node.arity = 0
     THEN Refuse
     ELSE /\ stack' = Append(stack, Frame(next, Top.namespace, Top.avro, Node.arity))
          /\ UNCHANGED <<planVars, children, outcome, avroVars>>
  /\ next' = next + 1
  /\ UNCHANGED schema

\* Mutants: a record never sets its pointers; every node sets some.
BindsNot(n) == {}
BindsAny(n) == {n}

\* The pointers set when the children of node n are compiled.
Binds(n) == IF KindOf(n) = "record" THEN {n} ELSE {}

\* The children of the innermost node are compiled, so it is.
Return ==
  /\ outcome = "compiling"
  /\ Top.left = 0
  /\ Top.node # 0
  /\ bound' = bound \cup Binds(Top.node)
  /\ Compiled(Top.node, SubSeq(stack, 1, Len(stack) - 1))
  /\ UNCHANGED <<schema, next, named, plan, avroVars>>

\* NewEncoder and NewDecoder have their plan.
Finish ==
  /\ outcome = "compiling"
  /\ Top.left = 0
  /\ Top.node = 0
  /\ outcome' = "ok"
  /\ UNCHANGED <<schema, next, stack, planVars, children, avroVars>>

Next ==
  \/ CompileUnnamed
  \/ CompileRef
  \/ CompileFixed
  \/ OpenRecord
  \/ OpenUnnamed
  \/ Return
  \/ Finish

Spec == Init /\ [][Next]_vars

\* The walk is one call: it goes on by itself.
FairSpec == Spec /\ WF_vars(Next)

-----------------------------------------------------------------------------
BranchKeys == ({"named"} \X Seq(Segments)) \cup ({"unnamed"} \X Kinds)

Frames ==
  [node : Nat, namespace : Seq(Segments), avro : Seq(Segments), left : Nat,
   keys : SUBSET BranchKeys]

TypeOK ==
  /\ next \in Nat \ {0}
  /\ stack \in Seq(Frames) \ {<< >>}
  /\ named \subseteq Seq(Segments) \X (1 .. next - 1)
  /\ bound \subseteq {e[2] : e \in named}
  /\ plan \subseteq (1 .. next - 1) \X {e[2] : e \in named}
  /\ outcome \in {"compiling", "ok", "refused"}

(***************************************************************************)
(* A compiled schema has no nil in it: every reference was resolved to an  *)
(* entry whose pointers are set by the time the plan is used, those of the *)
(* records around it included, whose pointers were still nil when it was.  *)
(***************************************************************************)
RefsAreBound ==
  outcome = "ok" =>
    \A n \in 1 .. next - 1 :
      KindOf(n) = "ref" => \E p \in plan : p[1] = n /\ p[2] \in bound

(***************************************************************************)
(* The branches of a union can be told apart by what they are on the wire, *)
(* however they are written down: by reference or in place, with or        *)
(* without namespace, as a logical type or the type under it.              *)
(***************************************************************************)
Identity(n) ==
  CASE KindOf(n) = "ref" -> {<<"named", p[2]>> : p \in {q \in plan : q[1] = n}}
    [] KindOf(n) \in Named -> {<<"named", n>>}
    [] KindOf(n) \in {"int", "date"} -> {<<"unnamed", "int">>}
    [] OTHER -> {<<"unnamed", KindOf(n)>>}

UnionBranchesDistinct ==
  outcome = "ok" =>
    \A c, d \in children :
      (c[2] = d[2] /\ c # d /\ KindOf(c[2]) = "union") => Identity(c[1]) # Identity(d[1])

(***************************************************************************)
(* Names are resolved by "Avro's name resolution rules"                    *)
(* (generic/codec.go:28): a reference stands for the declaration that has  *)
(* its full name by those rules, and no other declaration has that name,   *)
(* be it compiled before the reference or after it.                        *)
(***************************************************************************)
Declared(full) == {e[2] : e \in {d \in avroNamed : d[1] = full}}

ResolvesAsAvro ==
  \A p \in plan : \E r \in avroRefs : r[1] = p[1] /\ Declared(r[2]) = {p[2]}

(***************************************************************************)
(* Every schema is compiled or refused.                                    *)
(***************************************************************************)
CompilationEnds == <>(outcome # "compiling")
=============================================================================

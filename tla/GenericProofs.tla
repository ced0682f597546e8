---------------------------- MODULE GenericProofs ----------------------------
(***************************************************************************)
(* Proofs about package generic.                                           *)
(*                                                                         *)
(* generic.compileSchema, for every set of schemas: names are registered   *)
(* once, a compiled schema has no reference whose pointers are nil,        *)
(* references are resolved as Avro says if no record has a dotted name,    *)
(* the branches of every union can be told apart, and the walk ends.       *)
(*                                                                         *)
(* The decimal plans, for every number of bits in a byte and of bytes in a *)
(* value: what they write is read back, and a fixed with room for its      *)
(* precision refuses none of its values.                                   *)
(***************************************************************************)
EXTENDS GenericCompile, Decimal, SequenceTheorems, NaturalsInduction,
        WellFoundedInduction, TLAPS

\* The frames around the innermost one wait for it; node 0 is outermost.
StackInv ==
  /\ stack[1].node = 0
  /\ \A i \in 2 .. Len(stack) : stack[i].node \in 1 .. next - 1
  /\ \A i \in 1 .. Len(stack) - 1 : stack[i].left > 0

\* A record being compiled is registered.
RecordsInv ==
  \A i \in 2 .. Len(stack) :
    KindOf(stack[i].node) = "record" => \E e \in named : e[2] = stack[i].node

\* Entry e is that of a record being compiled.
Pending(e) ==
  /\ KindOf(e[2]) = "record"
  /\ \E i \in 2 .. Len(stack) : e[2] = stack[i].node

\* A registered node that is not bound is a record being compiled.
PendingInv == \A e \in named : e[2] \in bound \/ Pending(e)

\* Every reference so far was resolved, or compilation has failed.
ResolvedInv ==
  outcome # "refused" =>
    \A n \in 1 .. next - 1 : KindOf(n) = "ref" => \E p \in plan : p[1] = n

\* registerNamed gives no full name to two types.
NamesAreUnique == \A d, e \in named : d[1] = e[1] => d = e

CompileInv ==
  /\ TypeOK
  /\ schema \in Schemas
  /\ next <= Len(schema) + 1
  /\ StackInv
  /\ RecordsInv
  /\ PendingInv
  /\ ResolvedInv
  /\ NamesAreUnique
  /\ outcome = "ok" => Len(stack) = 1

-----------------------------------------------------------------------------
\* Names stay names, whichever rules qualify them.
LEMMA NamesAreSequences ==
  ASSUME NEW name \in Seq(Segments), NEW declared \in Seq(Segments),
         NEW namespace \in Seq(Segments)
  PROVE  /\ FullName(name, namespace) \in Seq(Segments)
         /\ Enclosing(declared, namespace) \in Seq(Segments)
         /\ AvroNamespace(name, declared, namespace) \in Seq(Segments)
<1>1. namespace \o name \in Seq(Segments)
  OBVIOUS
<1>2. IsDotted(name) => SubSeq(name, 1, Len(name) - 1) \in Seq(Segments)
  BY SubSeqProperties DEF IsDotted
<1> QED
  BY <1>1, <1>2 DEF FullName, Enclosing, AvroNamespace

\* A schema is a sequence of nodes.
LEMMA NodesAreNodes ==
  ASSUME schema \in Schemas, NEW n \in 1 .. Len(schema)
  PROVE  schema[n] \in Nodes /\ Len(schema) \in Nat
BY SchemasAssumption

LEMMA BranchKeyType ==
  ASSUME NEW s \in Nodes, NEW namespace \in Seq(Segments)
  PROVE  BranchKey(s, namespace) \in BranchKeys
<1>1. FullName(s.name, Enclosing(s.namespace, namespace)) \in Seq(Segments)
  BY NamesAreSequences DEF Nodes
<1>2. WireKind(s.kind) \in Kinds
  BY DEF Nodes, WireKind, Kinds, Unnamed
<1> QED
  BY <1>1, <1>2 DEF BranchKey, BranchKeys

\* What counting a compiled child leaves of the frames around it.
LEMMA CompiledStep ==
  ASSUME schema \in Schemas,
         NEW n \in 1 .. Len(schema),
         NEW frames \in Seq(Frames) \ {<< >>},
         frames[Len(frames)].left > 0,
         Compiled(n, frames)
  PROVE  /\ stack' \in Seq(Frames) \ {<< >>}
         /\ Len(stack') = Len(frames)
         /\ \A i \in 1 .. Len(frames) : stack'[i].node = frames[i].node
         /\ \A i \in 1 .. Len(frames) - 1 : stack'[i] = frames[i]
         /\ outcome' = "refused" \/ outcome' = outcome
<1> DEFINE L == Len(frames)
           parent == frames[L]
           key == BranchKey(schema[n], parent.namespace)
<1>1. L \in Nat \ {0} /\ parent \in Frames /\ \A i \in 1 .. L : frames[i] \in Frames
  OBVIOUS
<1>2. key \in BranchKeys
  <2>1. schema[n] \in Nodes /\ parent.namespace \in Seq(Segments)
    BY <1>1, NodesAreNodes DEF Frames
  <2> QED
    BY <2>1, BranchKeyType
<1>3. Counted(parent, key) \in Frames /\ Counted(parent, key).node = parent.node
  <2>1. parent.left - 1 \in Nat
    BY <1>1 DEF Frames
  <2> QED
    BY <1>1, <1>2, <2>1 DEF Counted, Frames
<1> DEFINE counted == [frames EXCEPT ![L] = Counted(parent, key)]
<1>4. /\ counted \in Seq(Frames) \ {<< >>}
      /\ Len(counted) = L
      /\ \A i \in 1 .. L : counted[i].node = frames[i].node
      /\ \A i \in 1 .. L - 1 : counted[i] = frames[i]
  BY <1>1, <1>3
<1>5. \/ outcome' = "refused" /\ stack' = frames
      \/ stack' = counted /\ UNCHANGED outcome
  BY DEF Compiled
<1> QED
  BY <1>1, <1>4, <1>5

-----------------------------------------------------------------------------
\* What the invariant says of the node that is due and the frame it is due in.
LEMMA DueFacts ==
  ASSUME CompileInv, NEW kinds, Due(kinds)
  PROVE  /\ next \in 1 .. Len(schema) /\ next \in Nat /\ next + 1 \in Nat \ {0}
         /\ next + 1 <= Len(schema) + 1
         /\ Node \in Nodes /\ Node.kind \in kinds
         /\ Top \in Frames /\ Top.left > 0
         /\ outcome = "compiling"
<1>1. next \in 1 .. Len(schema)
  <2>1. Len(schema) \in Nat
    BY SchemasAssumption DEF CompileInv
  <2> QED
    BY <2>1 DEF CompileInv, TypeOK, Due
<1> QED
  BY <1>1, NodesAreNodes DEF CompileInv, TypeOK, Due, Node, Top

\* The innermost frame may lose a child to compile; the frames stay.
Stays ==
  /\ stack' \in Seq(Frames) \ {<< >>}
  /\ Len(stack') = Len(stack)
  /\ \A i \in 1 .. Len(stack) : stack'[i].node = stack[i].node
  /\ \A i \in 1 .. Len(stack) - 1 : stack'[i] = stack[i]

\* A node without children keeps what is said of the frames.
LEMMA LeafKeepsFrames ==
  ASSUME CompileInv, Stays, next' = next + 1, schema' = schema,
         named \subseteq named', bound \subseteq bound'
  PROVE  /\ StackInv'
         /\ RecordsInv'
         /\ \A e \in named : e[2] \in bound' \/ Pending(e)'
<1>1. Len(stack) \in Nat \ {0} /\ next \in Nat
  BY DEF CompileInv, TypeOK
<1>2. StackInv'
  BY <1>1 DEF CompileInv, StackInv, Stays
<1>3. RecordsInv'
  BY <1>1 DEF CompileInv, RecordsInv, Stays, KindOf
<1>4. \A e \in named : e[2] \in bound' \/ Pending(e)'
  BY <1>1 DEF CompileInv, PendingInv, Pending, KindOf, Stays
<1> QED
  BY <1>2, <1>3, <1>4

\* A node that is refused.
LEMMA RefuseKeeps ==
  ASSUME CompileInv, NEW kinds, Due(kinds), Refuse, next' = next + 1, schema' = schema
  PROVE  CompileInv'
<1> USE DEF Refuse, planVars
<1>1. next \in Nat /\ next + 1 \in Nat \ {0} /\ next' <= Len(schema') + 1
  BY DueFacts
<1>2. TypeOK'
  BY <1>1 DEF CompileInv, TypeOK
<1>3. Stays
  BY DEF CompileInv, TypeOK, Stays
<1>4. StackInv' /\ RecordsInv' /\ PendingInv'
  BY <1>3, LeafKeepsFrames DEF PendingInv
<1>5. ResolvedInv' /\ NamesAreUnique'
  BY DEF CompileInv, ResolvedInv, NamesAreUnique
<1> QED
  BY <1>1, <1>2, <1>4, <1>5 DEF CompileInv

\* A node without children that is compiled.
LEMMA LeafCompiled ==
  ASSUME CompileInv, NEW kinds, Due(kinds), Compiled(next, stack)
  PROVE  Stays /\ outcome' \in {"compiling", "refused"}
<1>1. stack \in Seq(Frames) \ {<< >>} /\ schema \in Schemas
  BY DEF CompileInv, TypeOK
<1>2. stack[Len(stack)].left > 0 /\ next \in 1 .. Len(schema) /\ outcome = "compiling"
  BY DueFacts DEF Top
<1> QED
  BY <1>1, <1>2, CompiledStep DEF Stays

LEMMA UnnamedKeeps ==
  ASSUME CompileInv, CompileUnnamed
  PROVE  CompileInv'
<1> USE DEF CompileUnnamed, planVars
<1>1. CASE ChildRefused
  BY <1>1, RefuseKeeps
<1>2. CASE ~ChildRefused
  <2>1. Stays /\ outcome' \in {"compiling", "refused"}
    BY <1>2, LeafCompiled
  <2>2. /\ next \in Nat /\ next + 1 \in Nat \ {0} /\ next' <= Len(schema') + 1
        /\ Node.kind # "ref" /\ next # 0 /\ outcome = "compiling"
    BY DueFacts DEF Unnamed, Branching
  <2>3. TypeOK'
    BY <1>2, <2>1, <2>2 DEF CompileInv, TypeOK, Stays
  <2>4. StackInv' /\ RecordsInv' /\ PendingInv'
    BY <1>2, <2>1, LeafKeepsFrames DEF PendingInv
  <2>5. ResolvedInv'
    BY <1>2, <2>2 DEF CompileInv, ResolvedInv, KindOf, Node
  <2>6. NamesAreUnique'
    BY <1>2 DEF CompileInv, NamesAreUnique
  <2> QED
    BY <2>1, <2>2, <2>3, <2>4, <2>5, <2>6 DEF CompileInv
<1> QED
  BY <1>1, <1>2

LEMMA RefKeeps ==
  ASSUME CompileInv, CompileRef
  PROVE  CompileInv'
<1> USE DEF CompileRef
<1>1. CASE ChildRefused \/ Resolved(Node, Top.namespace) = {}
  BY <1>1, RefuseKeeps
<1>2. CASE ~(ChildRefused \/ Resolved(Node, Top.namespace) = {})
  <2>1. PICK e \in Resolved(Node, Top.namespace) :
          /\ plan' = plan \cup {<<next, e[2]>>}
          /\ Compiled(next, stack)
          /\ UNCHANGED <<named, bound, avroNamed>>
    BY <1>2
  <2>2. e \in named
    BY DEF Resolved
  <2>3. Stays /\ outcome' \in {"compiling", "refused"}
    BY <2>1, LeafCompiled
  <2>4. /\ next \in Nat /\ next + 1 \in Nat \ {0} /\ next' <= Len(schema') + 1
        /\ next # 0 /\ outcome = "compiling"
    BY DueFacts
  <2>5. TypeOK'
    BY <2>1, <2>2, <2>3, <2>4 DEF CompileInv, TypeOK, Stays
  <2>6. StackInv' /\ RecordsInv' /\ PendingInv'
    BY <2>1, <2>3, LeafKeepsFrames DEF PendingInv
  <2>7. ResolvedInv'
    <3>1. \A n \in 1 .. next' - 1 : n = next \/ n \in 1 .. next - 1
      BY <2>4
    <3>2. <<next, e[2]>> \in plan' /\ plan \subseteq plan'
      BY <2>1
    <3> QED
      BY <2>4, <3>1, <3>2 DEF CompileInv, ResolvedInv, KindOf
  <2>8. NamesAreUnique'
    BY <2>1 DEF CompileInv, NamesAreUnique
  <2> QED
    BY <2>3, <2>4, <2>5, <2>6, <2>7, <2>8 DEF CompileInv
<1> QED
  BY <1>1, <1>2

\* What the due node is called in the registry, by the code and by Avro.
LEMMA FullNames ==
  ASSUME CompileInv, NEW kinds, Due(kinds)
  PROVE  /\ FullName(Node.name, Enclosing(Node.namespace, Top.namespace)) \in Seq(Segments)
         /\ InnerNamespace(Node, Top.namespace) \in Seq(Segments)
         /\ AvroNamespace(Node.name, Node.namespace, Top.avro) \in Seq(Segments)
BY DueFacts, NamesAreSequences DEF Nodes, Frames, InnerNamespace

\* Registering the due node under a name that is free.
LEMMA RegisterKeeps ==
  ASSUME CompileInv, NEW full \in Seq(Segments), next \in Nat, next # 0, MayRegister(full),
         Register(full), next' = next + 1
  PROVE  /\ NamesAreUnique'
         /\ named' \subseteq Seq(Segments) \X (1 .. next' - 1)
         /\ {e[2] : e \in named'} = {e[2] : e \in named} \cup {next}
         /\ plan' \subseteq (1 .. next' - 1) \X {e[2] : e \in named'}
<1>1. named' = named \cup {<<full, next>>} /\ plan' = plan
  BY DEF Register
<1>2. NamesAreUnique'
  BY <1>1 DEF CompileInv, NamesAreUnique, MayRegister
<1>3. named' \subseteq Seq(Segments) \X (1 .. next' - 1)
  BY <1>1 DEF CompileInv, TypeOK
<1>4. {e[2] : e \in named'} = {e[2] : e \in named} \cup {next}
  <2>1. <<full, next>>[2] = next
    OBVIOUS
  <2>2. \A x : x \in {e[2] : e \in named'} <=> x \in {e[2] : e \in named} \cup {next}
    BY <1>1, <2>1
  <2> QED
    BY <2>2
<1>5. plan' \subseteq (1 .. next' - 1) \X {e[2] : e \in named'}
  BY <1>1, <1>4 DEF CompileInv, TypeOK
<1> QED
  BY <1>2, <1>3, <1>4, <1>5

LEMMA FixedKeeps ==
  ASSUME CompileInv, CompileFixed
  PROVE  CompileInv'
<1> DEFINE full == FullName(Node.name, Enclosing(Node.namespace, Top.namespace))
           refused == ChildRefused \/ Node.refused # 0 \/ ~MayRegister(full)
<1> USE DEF CompileFixed
<1>1. CASE refused
  BY <1>1, RefuseKeeps
<1>2. CASE ~refused
  <2>1. Register(full) /\ bound' = bound \cup {next} /\ Compiled(next, stack)
    BY <1>2
  <2>2. Stays /\ outcome' \in {"compiling", "refused"}
    BY <2>1, LeafCompiled
  <2>3. /\ next \in Nat /\ next + 1 \in Nat \ {0} /\ next' <= Len(schema') + 1
        /\ next # 0 /\ Node.kind = "fixed" /\ outcome = "compiling"
    BY DueFacts
  <2>4. full \in Seq(Segments)
    BY FullNames
  <2>5. MayRegister(full) /\ named' = named \cup {<<full, next>>} /\ plan' = plan
    BY <1>2, <2>1 DEF Register
  <2> HIDE DEF full, refused
  <2>6. /\ NamesAreUnique'
        /\ named' \subseteq Seq(Segments) \X (1 .. next' - 1)
        /\ {e[2] : e \in named'} = {e[2] : e \in named} \cup {next}
        /\ plan' \subseteq (1 .. next' - 1) \X {e[2] : e \in named'}
    BY <2>1, <2>3, <2>4, <2>5, RegisterKeeps
  <2>7. TypeOK'
    BY <2>1, <2>2, <2>3, <2>6 DEF CompileInv, TypeOK, Stays
  <2>8. StackInv' /\ RecordsInv' /\ PendingInv'
    <3>1. /\ StackInv' /\ RecordsInv'
          /\ \A e \in named : e[2] \in bound' \/ Pending(e)'
      BY <2>1, <2>2, <2>5, LeafKeepsFrames
    <3> QED
      BY <2>1, <2>5, <3>1 DEF PendingInv
  <2>9. ResolvedInv'
    BY <2>3, <2>5 DEF CompileInv, ResolvedInv, KindOf, Node
  <2> QED
    BY <2>2, <2>3, <2>6, <2>7, <2>8, <2>9 DEF CompileInv
<1> QED
  BY <1>1, <1>2

\* The stack grows by a frame for the due node.
LEMMA OpenKeepsFrames ==
  ASSUME CompileInv, NEW kinds, Due(kinds), NEW namespace \in Seq(Segments),
         NEW avro \in Seq(Segments),
         stack' = Append(stack, Frame(next, namespace, avro, Node.arity)),
         next' = next + 1, schema' = schema, named \subseteq named', bound' = bound,
         Node.kind = "record" => \E e \in named' : e[2] = next
  PROVE  /\ stack' \in Seq(Frames) \ {<< >>}
         /\ StackInv'
         /\ RecordsInv'
         /\ \A e \in named : e[2] \in bound' \/ Pending(e)'
         /\ \E i \in 2 .. Len(stack') : stack'[i].node = next
<1> DEFINE frame == Frame(next, namespace, avro, Node.arity)
           L == Len(stack)
<1>1. /\ next \in Nat /\ next # 0 /\ Node \in Nodes /\ stack[L].left > 0
  BY DueFacts DEF Top
<1>2. frame \in Frames /\ frame.node = next
  BY <1>1 DEF Frame, Frames, Nodes
<1>3. stack \in Seq(Frames) \ {<< >>} /\ L \in Nat \ {0}
  BY DEF CompileInv, TypeOK
<1> HIDE DEF frame
<1>4. /\ stack' \in Seq(Frames) \ {<< >>}
      /\ Len(stack') = L + 1
      /\ \A i \in 1 .. L : stack'[i] = stack[i]
      /\ stack'[L + 1] = frame
  BY <1>2, <1>3 DEF frame
<1>5. StackInv'
  <2>1. stack'[1].node = 0
    BY <1>3, <1>4 DEF CompileInv, StackInv
  <2>2. \A i \in 2 .. Len(stack') : stack'[i].node \in 1 .. next' - 1
    BY <1>1, <1>2, <1>3, <1>4 DEF CompileInv, StackInv
  <2>3. \A i \in 1 .. Len(stack') - 1 : stack'[i].left > 0
    BY <1>1, <1>3, <1>4 DEF CompileInv, StackInv
  <2> QED
    BY <2>1, <2>2, <2>3 DEF StackInv
<1>6. RecordsInv'
  BY <1>1, <1>2, <1>3, <1>4 DEF CompileInv, RecordsInv, KindOf, Node
<1>7. \A e \in named : e[2] \in bound' \/ Pending(e)'
  BY <1>3, <1>4 DEF CompileInv, PendingInv, Pending, KindOf
<1>8. \E i \in 2 .. Len(stack') : stack'[i].node = next
  <2>1. L + 1 \in 2 .. Len(stack')
    BY <1>3, <1>4
  <2> QED
    BY <1>2, <1>4, <2>1
<1> QED
  BY <1>4, <1>5, <1>6, <1>7, <1>8

LEMMA RecordKeeps ==
  ASSUME CompileInv, OpenRecord
  PROVE  CompileInv'
<1> DEFINE full == FullName(Node.name, Enclosing(Node.namespace, Top.namespace))
           avro == AvroNamespace(Node.name, Node.namespace, Top.avro)
           inner == InnerNamespace(Node, Top.namespace)
           refused == ChildRefused \/ ~MayRegister(full)
<1> USE DEF OpenRecord
<1>1. CASE refused
  BY <1>1, RefuseKeeps
<1>2. CASE ~refused
  <2>1. /\ Register(full) /\ MayRegister(full)
        /\ stack' = Append(stack, Frame(next, inner, avro, Node.arity))
        /\ bound' = bound /\ outcome' = outcome
    BY <1>2
  <2>2. /\ next \in Nat /\ next + 1 \in Nat \ {0} /\ next' <= Len(schema') + 1
        /\ next # 0 /\ Node.kind = "record" /\ outcome = "compiling"
    BY DueFacts
  <2>3. full \in Seq(Segments) /\ inner \in Seq(Segments) /\ avro \in Seq(Segments)
    BY FullNames
  <2>4. named' = named \cup {<<full, next>>} /\ plan' = plan /\ Due({"record"})
        /\ next' = next + 1 /\ schema' = schema
    BY <2>1 DEF Register
  <2> HIDE DEF full, refused, inner, avro
  <2>5. /\ NamesAreUnique'
        /\ named' \subseteq Seq(Segments) \X (1 .. next' - 1)
        /\ {e[2] : e \in named'} = {e[2] : e \in named} \cup {next}
        /\ plan' \subseteq (1 .. next' - 1) \X {e[2] : e \in named'}
    BY <2>1, <2>2, <2>3, <2>4, RegisterKeeps
  <2>6. /\ stack' \in Seq(Frames) \ {<< >>} /\ StackInv' /\ RecordsInv'
        /\ \A e \in named : e[2] \in bound' \/ Pending(e)'
        /\ \E i \in 2 .. Len(stack') : stack'[i].node = next
    <3>1. named \subseteq named' /\ <<full, next>> \in named' /\ <<full, next>>[2] = next
      BY <2>4
    <3> QED
      BY <2>1, <2>3, <2>4, <3>1, OpenKeepsFrames
  <2>7. TypeOK'
    BY <2>1, <2>2, <2>4, <2>5, <2>6 DEF CompileInv, TypeOK
  <2>8. PendingInv'
    <3>1. schema'[next].kind = "record"
      BY <2>2, <2>4 DEF Node
    <3> QED
      BY <2>2, <2>4, <2>6, <3>1 DEF PendingInv, Pending, KindOf
  <2>9. ResolvedInv'
    BY <2>2, <2>4 DEF CompileInv, ResolvedInv, KindOf, Node
  <2> QED
    BY <2>1, <2>2, <2>4, <2>5, <2>6, <2>7, <2>8, <2>9 DEF CompileInv
<1> QED
  BY <1>1, <1>2

LEMMA UnnamedOpenKeeps ==
  ASSUME CompileInv, OpenUnnamed
  PROVE  CompileInv'
<1> USE DEF OpenUnnamed, planVars
<1>1. CASE ChildRefused \/ Node.arity = 0
  BY <1>1, RefuseKeeps
<1>2. CASE ~(ChildRefused \/ Node.arity = 0)
  <2>1. /\ next \in Nat /\ next + 1 \in Nat \ {0} /\ next' <= Len(schema') + 1
        /\ next # 0 /\ Node.kind \notin {"record", "ref"} /\ outcome = "compiling"
        /\ Top \in Frames
    BY DueFacts DEF Unnamed, Branching
  <2>2. Top.namespace \in Seq(Segments) /\ Top.avro \in Seq(Segments)
    BY <2>1 DEF Frames
  <2>3. /\ stack' \in Seq(Frames) \ {<< >>} /\ StackInv' /\ RecordsInv'
        /\ \A e \in named : e[2] \in bound' \/ Pending(e)'
    BY <1>2, <2>1, <2>2, OpenKeepsFrames
  <2>4. TypeOK'
    BY <1>2, <2>1, <2>3 DEF CompileInv, TypeOK
  <2>5. PendingInv' /\ NamesAreUnique'
    BY <1>2, <2>3 DEF CompileInv, PendingInv, NamesAreUnique
  <2>6. ResolvedInv'
    BY <1>2, <2>1 DEF CompileInv, ResolvedInv, KindOf, Node
  <2> QED
    BY <1>2, <2>1, <2>3, <2>4, <2>5, <2>6 DEF CompileInv
<1> QED
  BY <1>1, <1>2

\* The innermost node is compiled, and a record gets its pointers.
LEMMA ReturnKeeps ==
  ASSUME CompileInv, Return
  PROVE  CompileInv'
<1> DEFINE L == Len(stack)
           n == Top.node
           frames == SubSeq(stack, 1, L - 1)
<1>1. /\ stack \in Seq(Frames) \ {<< >>} /\ L \in Nat \ {0} /\ next \in Nat
      /\ Len(schema) \in Nat
  BY SchemasAssumption DEF CompileInv, TypeOK
<1>2. n # 0 /\ n = stack[L].node
  BY DEF Return, Top
<1>3. L >= 2
  <2> HIDE DEF L, n
  <2>1. L # 1
    BY <1>2 DEF CompileInv, StackInv
  <2> QED
    BY <1>1, <2>1
<1>4. n \in 1 .. next - 1 /\ n \in 1 .. Len(schema)
  <2>1. n \in 1 .. next - 1
    BY <1>1, <1>2, <1>3 DEF CompileInv, StackInv
  <2> QED
    BY <1>1, <2>1 DEF CompileInv
<1>5. /\ frames \in Seq(Frames) \ {<< >>}
      /\ Len(frames) = L - 1
      /\ \A i \in 1 .. L - 1 : frames[i] = stack[i]
  <2>1. \A i \in 1 .. L - 1 : stack[i] \in Frames
    BY <1>1
  <2>2. L - 1 \in Nat /\ L - 1 >= 1 /\ L - 1 <= Len(stack)
    BY <1>1, <1>3
  <2> HIDE DEF L
  <2>3. Len(frames) = L - 1 /\ \A i \in 1 .. L - 1 : frames[i] = stack[i]
    BY <1>1, <2>2
  <2>4. frames \in Seq(Frames)
    BY <1>1, <2>1, <2>2
  <2> QED
    BY <2>2, <2>3, <2>4
<1>6. /\ Compiled(n, frames) /\ bound' = bound \cup Binds(n)
      /\ UNCHANGED <<schema, next, named, plan>> /\ outcome = "compiling"
  BY DEF Return
<1>7. frames[Len(frames)].left > 0
  BY <1>1, <1>3, <1>5 DEF CompileInv, StackInv
<1> HIDE DEF n, frames, L
<1>8. /\ stack' \in Seq(Frames) \ {<< >>}
      /\ Len(stack') = L - 1
      /\ \A i \in 1 .. L - 1 : stack'[i].node = stack[i].node
      /\ \A i \in 1 .. L - 2 : stack'[i] = stack[i]
      /\ outcome' \in {"refused", "compiling"}
  <2>1. schema \in Schemas
    BY DEF CompileInv
  <2>2. /\ stack' \in Seq(Frames) \ {<< >>}
        /\ Len(stack') = Len(frames)
        /\ \A i \in 1 .. Len(frames) : stack'[i].node = frames[i].node
        /\ \A i \in 1 .. Len(frames) - 1 : stack'[i] = frames[i]
        /\ outcome' = "refused" \/ outcome' = outcome
    BY <1>4, <1>5, <1>6, <1>7, <2>1, CompiledStep
  <2> QED
    BY <1>1, <1>3, <1>5, <1>6, <2>2
<1>9. Binds(n) \subseteq {e[2] : e \in named}
  BY <1>1, <1>2, <1>3 DEF CompileInv, RecordsInv, Binds, L
<1>10. TypeOK'
  BY <1>6, <1>8, <1>9 DEF CompileInv, TypeOK
<1>11. StackInv'
  <2>1. stack'[1].node = 0
    BY <1>1, <1>3, <1>8 DEF CompileInv, StackInv
  <2>2. \A i \in 2 .. Len(stack') : stack'[i].node \in 1 .. next' - 1
    BY <1>1, <1>3, <1>6, <1>8 DEF CompileInv, StackInv, L
  <2>3. \A i \in 1 .. Len(stack') - 1 : stack'[i].left > 0
    BY <1>1, <1>3, <1>8 DEF CompileInv, StackInv, L
  <2> QED
    BY <2>1, <2>2, <2>3 DEF StackInv
<1>12. RecordsInv'
  <2> SUFFICES ASSUME NEW i \in 2 .. Len(stack'), KindOf(stack[i].node)' = "record"
               PROVE  \E e \in named : e[2] = stack'[i].node
    BY <1>6 DEF RecordsInv
  <2>1. i \in 2 .. Len(stack) /\ i \in 1 .. L - 1
    BY <1>1, <1>3, <1>8 DEF L
  <2>2. stack'[i].node = stack[i].node
    BY <1>8, <2>1
  <2>3. KindOf(stack[i].node) = "record"
    BY <1>6, <2>2 DEF KindOf
  <2> QED
    BY <2>1, <2>2, <2>3 DEF CompileInv, RecordsInv
<1>13. PendingInv'
  <2> SUFFICES ASSUME NEW e \in named, e[2] \notin bound'
               PROVE  Pending(e)'
    BY <1>6 DEF PendingInv
  <2>1. KindOf(e[2]) = "record" /\ \E i \in 2 .. L : e[2] = stack[i].node
    BY <1>6 DEF CompileInv, PendingInv, Pending, L
  <2>2. PICK i \in 2 .. L : e[2] = stack[i].node
    BY <2>1
  <2>3. i # L
    BY <1>2, <1>6, <2>1, <2>2 DEF Binds, L
  <2>4. i \in 2 .. Len(stack') /\ stack'[i].node = stack[i].node
    BY <1>1, <1>3, <1>8, <2>2, <2>3
  <2> QED
    BY <1>6, <2>1, <2>2, <2>4 DEF Pending, KindOf
<1>14. ResolvedInv' /\ NamesAreUnique'
  BY <1>6 DEF CompileInv, ResolvedInv, NamesAreUnique, KindOf
<1> QED
  BY <1>6, <1>8, <1>10, <1>11, <1>12, <1>13, <1>14 DEF CompileInv

\* The plan is complete: what is not bound would still be compiling.
LEMMA FinishKeeps ==
  ASSUME CompileInv, Finish
  PROVE  CompileInv'
<1> USE DEF Finish, planVars
<1>1. Len(stack) \in Nat \ {0} /\ next \in Nat
  BY DEF CompileInv, TypeOK
<1>2. Len(stack) = 1
  <2>1. Top.node \notin 1 .. next - 1
    BY <1>1
  <2>2. ~(Len(stack) \in 2 .. Len(stack))
    BY <2>1 DEF CompileInv, StackInv, Top
  <2> QED
    BY <1>1, <2>2
<1>3. TypeOK' /\ StackInv' /\ NamesAreUnique' /\ ResolvedInv'
  BY DEF CompileInv, TypeOK, StackInv, NamesAreUnique, ResolvedInv, KindOf
<1>4. RecordsInv' /\ PendingInv'
  BY DEF CompileInv, RecordsInv, PendingInv, Pending, KindOf
<1> QED
  BY <1>2, <1>3, <1>4 DEF CompileInv

LEMMA InitInv ==
  ASSUME Init
  PROVE  CompileInv
<1> USE DEF Init
<1>1. Frame(0, << >>, << >>, 1) \in Frames /\ Frame(0, << >>, << >>, 1).node = 0
  BY DEF Frame, Frames
<1>2. /\ stack \in Seq(Frames) \ {<< >>} /\ Len(stack) = 1 /\ stack[1].node = 0
      /\ Len(schema) \in Nat
  BY <1>1, SchemasAssumption
<1>3. TypeOK
  BY <1>2 DEF TypeOK
<1>4. StackInv /\ RecordsInv /\ PendingInv /\ ResolvedInv /\ NamesAreUnique
  BY <1>2 DEF StackInv, RecordsInv, PendingInv, ResolvedInv, NamesAreUnique
<1> QED
  BY <1>2, <1>3, <1>4 DEF CompileInv

LEMMA StutterKeeps ==
  ASSUME CompileInv, UNCHANGED vars
  PROVE  CompileInv'
<1> USE DEF vars, planVars
<1>1. TypeOK' /\ StackInv' /\ NamesAreUnique' /\ ResolvedInv'
  BY DEF CompileInv, TypeOK, StackInv, NamesAreUnique, ResolvedInv, KindOf
<1>2. RecordsInv' /\ PendingInv'
  BY DEF CompileInv, RecordsInv, PendingInv, Pending, KindOf
<1> QED
  BY <1>1, <1>2 DEF CompileInv

\* The invariant is inductive.
LEMMA Invariance == Spec => []CompileInv
<1>1. Init => CompileInv
  BY InitInv
<1>2. CompileInv /\ [Next]_vars => CompileInv'
  BY UnnamedKeeps, RefKeeps, FixedKeeps, RecordKeeps, UnnamedOpenKeeps, ReturnKeeps,
     FinishKeeps, StutterKeeps DEF Next
<1> QED
  BY <1>1, <1>2, PTL DEF Spec

-----------------------------------------------------------------------------
(***************************************************************************)
(* compileSchema keeps its types: a reference is only ever resolved to a   *)
(* registered node, and pointers are set for registered nodes alone.       *)
(***************************************************************************)
THEOREM CompileTypeCorrect == Spec => []TypeOK
<1>1. CompileInv => TypeOK
  BY DEF CompileInv
<1> QED
  BY <1>1, Invariance, PTL

(***************************************************************************)
(* When compileSchema succeeds every reference in the schema was resolved, *)
(* and the pointers of what it was resolved to are set, however deep in    *)
(* the record it refers to the reference was compiled.                     *)
(***************************************************************************)
THEOREM CompiledRefsAreBound == Spec => []RefsAreBound
<1>1. CompileInv => RefsAreBound
  <2> SUFFICES ASSUME CompileInv, outcome = "ok", NEW n \in 1 .. next - 1, KindOf(n) = "ref"
               PROVE  \E p \in plan : p[1] = n /\ p[2] \in bound
    BY DEF RefsAreBound
  <2>1. PICK p \in plan : p[1] = n
    BY DEF CompileInv, ResolvedInv
  <2>2. PICK e \in named : e[2] = p[2]
    BY DEF CompileInv, TypeOK
  <2>3. ~Pending(e)
    <3>1. Len(stack) = 1
      BY DEF CompileInv
    <3>2. ~\E i \in 2 .. 1 : e[2] = stack[i].node
      OBVIOUS
    <3> QED
      BY <3>1, <3>2 DEF Pending
  <2> QED
    BY <2>1, <2>2, <2>3 DEF CompileInv, PendingInv
<1> QED
  BY <1>1, Invariance, PTL

-----------------------------------------------------------------------------
\* Enums, fixed types and references may have dotted names.
RecordsUndotted ==
  \A s \in Schemas : \A n \in 1 .. Len(s) :
    s[n].kind = "record" => ~IsDotted(s[n].name)

\* The code and the rules agree on the namespace in force.
SameNamespaces(frames) == \A i \in 1 .. Len(frames) : frames[i].avro = frames[i].namespace

\* A reference stands for a declaration that has its full name by the rules.
RefsAsAvro == \A p \in plan : \E r \in avroRefs : r[1] = p[1] /\ <<r[2], p[2]>> \in avroNamed

NamesInv ==
  /\ SameNamespaces(stack)
  /\ avroNamed = named
  /\ \A e \in named : e[1] # << >>
  /\ RefsAsAvro

\* A dotted name is its namespace and its last segment.
LEMMA NameIsWhole ==
  ASSUME NEW name \in Seq(Segments), name # << >>
  PROVE  /\ SubSeq(name, 1, Len(name) - 1) \o <<name[Len(name)]>> = name
         /\ ~IsDotted(name) => <<name[Len(name)]>> = name
<1> DEFINE L == Len(name)
           front == SubSeq(name, 1, L - 1)
<1>1. L \in Nat \ {0} /\ \A i \in 1 .. L : name[i] \in Segments
  OBVIOUS
<1>2. L - 1 \in Nat /\ L - 1 <= L /\ (\A i \in 1 .. L - 1 : name[i] \in Segments)
  BY <1>1
<1>3. /\ front \in Seq(Segments) /\ Len(front) = L - 1
      /\ \A i \in 1 .. L - 1 : front[i] = name[i]
  <2> HIDE DEF L
  <2>1. Len(front) = L - 1 /\ \A i \in 1 .. L - 1 : front[i] = name[i]
    BY <1>1, <1>2
  <2>2. front \in Seq(Segments)
    BY <1>1, <1>2
  <2> QED
    BY <2>1, <2>2
<1>4. front \o <<name[L]>> = name
  BY <1>1, <1>3
<1>5. ~IsDotted(name) => <<name[L]>> = name
  <2> SUFFICES ASSUME ~IsDotted(name)
               PROVE  <<name[L]>> = name
    OBVIOUS
  <2>1. ~(L > 1)
    BY DEF IsDotted
  <2>2. L = 1
    <3> HIDE DEF L
    <3> QED
      BY <1>1, <2>1
  <2> QED
    BY <2>2
<1> QED
  BY <1>4, <1>5

\* In the same namespace the code and the rules qualify a name alike.
LEMMA SameFullName ==
  ASSUME NEW name \in Seq(Segments), name # << >>, NEW declared \in Seq(Segments),
         NEW namespace \in Seq(Segments)
  PROVE  AvroFullName(name, declared, namespace) = FullName(name, Enclosing(declared, namespace))
BY NameIsWhole DEF AvroFullName, AvroNamespace, FullName

\* Only a dotted name has a namespace in it.
LEMMA SameNamespace ==
  ASSUME NEW name, ~IsDotted(name), NEW declared, NEW namespace
  PROVE  AvroNamespace(name, declared, namespace) = Enclosing(declared, namespace)
BY DEF AvroNamespace

\* The due node is qualified alike, if it is registered or resolved.
LEMMA DueFullName ==
  ASSUME CompileInv, SameNamespaces(stack), NEW kinds, Due(kinds),
         FullName(Node.name, Enclosing(Node.namespace, Top.namespace)) # << >>
  PROVE  AvroFullName(Node.name, Node.namespace, Top.avro)
           = FullName(Node.name, Enclosing(Node.namespace, Top.namespace))
<1>1. /\ Node.name \in Seq(Segments) /\ Node.namespace \in Seq(Segments)
      /\ Top.namespace \in Seq(Segments)
  BY DueFacts DEF Nodes, Frames
<1>2. Top.avro = Top.namespace
  <2>1. Len(stack) \in 1 .. Len(stack)
    BY DEF CompileInv, TypeOK
  <2> QED
    BY <2>1 DEF SameNamespaces, Top
<1>3. Node.name # << >>
  BY DEF FullName
<1> QED
  BY <1>1, <1>2, <1>3, SameFullName

\* Counting a child leaves the namespaces of the frames alone.
LEMMA CompiledNamespaces ==
  ASSUME NEW n, NEW frames \in Seq(Frames) \ {<< >>}, SameNamespaces(frames),
         Compiled(n, frames)
  PROVE  SameNamespaces(stack')
<1> DEFINE L == Len(frames)
           parent == frames[L]
           key == BranchKey(schema[n], parent.namespace)
           counted == [frames EXCEPT ![L] = Counted(parent, key)]
<1>1. L \in Nat \ {0} /\ \A i \in 1 .. L : frames[i] \in Frames
  OBVIOUS
<1>2. stack' = frames \/ stack' = counted
  BY DEF Compiled
<1>3. Counted(parent, key).avro = parent.avro /\ Counted(parent, key).namespace = parent.namespace
  BY <1>1 DEF Counted, Frames
<1>4. Len(counted) = L /\ \A i \in 1 .. L : counted[i] = IF i = L THEN Counted(parent, key) ELSE frames[i]
  BY <1>1
<1>5. SameNamespaces(counted)
  BY <1>1, <1>3, <1>4 DEF SameNamespaces
<1> QED
  BY <1>2, <1>5

\* Pushing a frame in which the code and the rules agree.
LEMMA PushNamespaces ==
  ASSUME CompileInv, SameNamespaces(stack), NEW node, NEW namespace, NEW left,
         stack' = Append(stack, Frame(node, namespace, namespace, left))
  PROVE  SameNamespaces(stack')
<1> DEFINE frame == Frame(node, namespace, namespace, left)
<1>1. stack \in Seq(Frames) /\ Len(stack) \in Nat
  BY DEF CompileInv, TypeOK
<1>2. frame.avro = frame.namespace
  BY DEF Frame
<1> HIDE DEF frame
<1>3. /\ Len(stack') = Len(stack) + 1
      /\ \A i \in 1 .. Len(stack) : stack'[i] = stack[i]
      /\ stack'[Len(stack) + 1] = frame
  BY <1>1 DEF frame
<1> QED
  BY <1>1, <1>2, <1>3 DEF SameNamespaces

\* Registering the due node, by the code and by the rules.
LEMMA RegisterNames ==
  ASSUME CompileInv, NamesInv, NEW kinds, Due(kinds), NEW full,
         full = FullName(Node.name, Enclosing(Node.namespace, Top.namespace)),
         MayRegister(full), Register(full)
  PROVE  /\ avroNamed' = named'
         /\ \A e \in named' : e[1] # << >>
         /\ RefsAsAvro'
<1>1. AvroFullName(Node.name, Node.namespace, Top.avro) = full /\ full # << >>
  BY DueFullName DEF NamesInv, MayRegister
<1>2. /\ named' = named \cup {<<full, next>>} /\ avroNamed' = avroNamed \cup {<<full, next>>}
      /\ plan' = plan /\ avroRefs' = avroRefs
  BY <1>1 DEF Register
<1> QED
  BY <1>1, <1>2 DEF NamesInv, RefsAsAvro

\* What the code resolves a reference to has the name the rules give it.
LEMMA RefNames ==
  ASSUME CompileInv, NamesInv, CompileRef
  PROVE  NamesInv'
<1> USE DEF CompileRef
<1> DEFINE full == FullName(Node.name, Enclosing(Node.namespace, Top.namespace))
<1>1. CASE ChildRefused \/ Resolved(Node, Top.namespace) = {}
  BY <1>1 DEF Refuse, planVars, avroVars, NamesInv, RefsAsAvro
<1>2. CASE ~(ChildRefused \/ Resolved(Node, Top.namespace) = {})
  <2>1. PICK e \in Resolved(Node, Top.namespace) :
          /\ plan' = plan \cup {<<next, e[2]>>}
          /\ avroRefs' = avroRefs \cup
               {<<next, AvroFullName(Node.name, Node.namespace, Top.avro)>>}
          /\ Compiled(next, stack)
          /\ UNCHANGED <<named, bound, avroNamed>>
    BY <1>2
  <2>2. e \in named /\ e[1] = full /\ full # << >>
    BY DEF Resolved, NamesInv
  <2>3. AvroFullName(Node.name, Node.namespace, Top.avro) = full
    BY <2>2, DueFullName DEF NamesInv
  <2>4. e = <<full, e[2]>>
    BY <2>2 DEF CompileInv, TypeOK
  <2> HIDE DEF full
  <2>5. RefsAsAvro'
    <3> SUFFICES ASSUME NEW p \in plan'
                 PROVE  \E r \in avroRefs' : r[1] = p[1] /\ <<r[2], p[2]>> \in named
      BY <2>1 DEF RefsAsAvro, NamesInv
    <3>1. CASE p \in plan
      BY <2>1, <3>1 DEF NamesInv, RefsAsAvro
    <3>2. CASE p = <<next, e[2]>>
      <4>1. <<next, full>> \in avroRefs'
        BY <2>1, <2>3
      <4>2. <<full, p[2]>> \in named
        BY <2>2, <2>4, <3>2
      <4> QED
        BY <3>2, <4>1, <4>2
    <3> QED
      BY <2>1, <3>1, <3>2
  <2>6. SameNamespaces(stack')
    BY <2>1, CompiledNamespaces DEF CompileInv, TypeOK, NamesInv
  <2> QED
    BY <2>1, <2>5, <2>6 DEF NamesInv, SameNamespaces
<1> QED
  BY <1>1, <1>2

LEMMA FixedNames ==
  ASSUME CompileInv, NamesInv, CompileFixed
  PROVE  NamesInv'
<1> DEFINE full == FullName(Node.name, Enclosing(Node.namespace, Top.namespace))
           refused == ChildRefused \/ Node.refused # 0 \/ ~MayRegister(full)
<1> USE DEF CompileFixed
<1>1. CASE refused
  BY <1>1 DEF Refuse, planVars, avroVars, NamesInv, RefsAsAvro
<1>2. CASE ~refused
  <2>1. Register(full) /\ MayRegister(full) /\ Compiled(next, stack)
    BY <1>2
  <2>2. SameNamespaces(stack')
    BY <2>1, CompiledNamespaces DEF CompileInv, TypeOK, NamesInv
  <2>3. avroNamed' = named' /\ (\A e \in named' : e[1] # << >>) /\ RefsAsAvro'
    BY <2>1, RegisterNames
  <2> QED
    BY <2>2, <2>3 DEF NamesInv, SameNamespaces
<1> QED
  BY <1>1, <1>2

\* The one place where a dotted name would make a difference.
LEMMA RecordNames ==
  ASSUME RecordsUndotted, CompileInv, NamesInv, OpenRecord
  PROVE  NamesInv'
<1> DEFINE full == FullName(Node.name, Enclosing(Node.namespace, Top.namespace))
           avro == AvroNamespace(Node.name, Node.namespace, Top.avro)
           inner == InnerNamespace(Node, Top.namespace)
           refused == ChildRefused \/ ~MayRegister(full)
<1> USE DEF OpenRecord
<1>1. CASE refused
  BY <1>1 DEF Refuse, planVars, avroVars, NamesInv, RefsAsAvro
<1>2. CASE ~refused
  <2>1. /\ Register(full) /\ MayRegister(full)
        /\ stack' = Append(stack, Frame(next, inner, avro, Node.arity))
    BY <1>2
  <2>2. inner = avro
    <3>1. ~IsDotted(Node.name)
      BY DueFacts DEF RecordsUndotted, CompileInv, Node
    <3>2. Top.avro = Top.namespace
      <4>1. Len(stack) \in 1 .. Len(stack)
        BY DEF CompileInv, TypeOK
      <4> QED
        BY <4>1 DEF NamesInv, SameNamespaces, Top
    <3> QED
      BY <3>1, <3>2, SameNamespace DEF InnerNamespace
  <2>3. SameNamespaces(stack')
    BY <2>1, <2>2, PushNamespaces DEF NamesInv
  <2>4. avroNamed' = named' /\ (\A e \in named' : e[1] # << >>) /\ RefsAsAvro'
    BY <2>1, RegisterNames
  <2> QED
    BY <2>3, <2>4 DEF NamesInv, SameNamespaces
<1> QED
  BY <1>1, <1>2

LEMMA UnnamedNames ==
  ASSUME CompileInv, NamesInv, CompileUnnamed \/ OpenUnnamed \/ Return \/ Finish \/ UNCHANGED vars
  PROVE  NamesInv'
<1> USE DEF planVars, avroVars
<1>1. UNCHANGED <<named, plan, avroNamed, avroRefs>>
  BY DEF CompileUnnamed, OpenUnnamed, Return, Finish, Refuse, vars
<1>2. SameNamespaces(stack')
  <2>1. stack \in Seq(Frames) \ {<< >>} /\ SameNamespaces(stack)
    BY DEF CompileInv, TypeOK, NamesInv
  <2>2. CASE CompileUnnamed
    BY <2>1, <2>2, CompiledNamespaces DEF CompileUnnamed, Refuse
  <2>3. CASE OpenUnnamed
    <3>1. Top.avro = Top.namespace
      <4>1. Len(stack) \in 1 .. Len(stack)
        BY <2>1
      <4> QED
        BY <2>1, <4>1 DEF SameNamespaces, Top
    <3> QED
      BY <2>1, <2>3, <3>1, PushNamespaces DEF OpenUnnamed, Refuse
  <2>4. CASE Return
    <3> DEFINE L == Len(stack)
               frames == SubSeq(stack, 1, L - 1)
    <3>1. L \in Nat /\ L >= 2
      <4>1. stack[L].node # 0 /\ stack[1].node = 0
        BY <2>4 DEF CompileInv, StackInv, Return, Top
      <4>2. L \in Nat \ {0}
        BY <2>1
      <4> HIDE DEF L
      <4>3. L # 1
        BY <4>1
      <4> QED
        BY <4>2, <4>3
    <3>2. /\ frames \in Seq(Frames) \ {<< >>} /\ Len(frames) = L - 1
          /\ \A i \in 1 .. L - 1 : frames[i] = stack[i]
      <4>1. L - 1 \in Nat /\ L - 1 >= 1 /\ \A i \in 1 .. L - 1 : stack[i] \in Frames
        BY <2>1, <3>1
      <4>2. L - 1 <= Len(stack)
        BY <3>1
      <4> HIDE DEF L
      <4>3. Len(frames) = L - 1 /\ \A i \in 1 .. L - 1 : frames[i] = stack[i]
        BY <2>1, <4>1, <4>2
      <4>4. frames \in Seq(Frames)
        BY <2>1, <4>1, <4>2
      <4>5. frames # << >>
        <5>1. Len(frames) # Len(<< >>)
          BY <3>1, <4>3
        <5> QED
          BY <5>1
      <4> HIDE DEF frames
      <4> QED
        BY <4>3, <4>4, <4>5
    <3>3. SameNamespaces(frames)
      BY <2>1, <3>1, <3>2 DEF SameNamespaces
    <3>4. Compiled(Top.node, frames)
      BY <2>4 DEF Return
    <3> QED
      BY <3>2, <3>3, <3>4, CompiledNamespaces
  <2>5. CASE Finish \/ UNCHANGED vars
    BY <2>1, <2>5 DEF Finish, vars, SameNamespaces
  <2> QED
    BY <2>2, <2>3, <2>4, <2>5
<1> QED
  BY <1>1, <1>2 DEF NamesInv, RefsAsAvro, SameNamespaces

LEMMA InitNames ==
  ASSUME Init
  PROVE  NamesInv
<1>1. Len(stack) = 1 /\ stack[1].avro = << >> /\ stack[1].namespace = << >>
  BY DEF Init, Frame
<1> QED
  BY <1>1 DEF Init, NamesInv, SameNamespaces, RefsAsAvro

-----------------------------------------------------------------------------
(***************************************************************************)
(* If no record has a dotted name, compileSchema resolves every reference  *)
(* to the declaration Avro's rules say it means, however declarations with *)
(* and without namespaces are nested.  Of dotted record names it is not    *)
(* true: InnerNamespace does not take the namespace such a name brings.    *)
(***************************************************************************)
THEOREM UndottedResolvesAsAvro ==
  ASSUME RecordsUndotted
  PROVE  Spec => []ResolvesAsAvro
<1>1. Init => NamesInv
  BY InitNames
<1>2. CompileInv /\ NamesInv /\ [Next]_vars => NamesInv'
  BY RefNames, FixedNames, RecordNames, UnnamedNames DEF Next
<1>3. CompileInv /\ NamesInv => ResolvesAsAvro
  <2> SUFFICES ASSUME CompileInv, NamesInv, NEW p \in plan
               PROVE  \E r \in avroRefs : r[1] = p[1] /\ Declared(r[2]) = {p[2]}
    BY DEF ResolvesAsAvro
  <2>1. PICK r \in avroRefs : r[1] = p[1] /\ <<r[2], p[2]>> \in avroNamed
    BY DEF NamesInv, RefsAsAvro
  <2>2. \A d, e \in avroNamed : d[1] = e[1] => d = e
    BY DEF NamesInv, CompileInv, NamesAreUnique
  <2>3. PICK full : full = r[2]
    OBVIOUS
  <2>4. PICK n : n = p[2]
    OBVIOUS
  <2>5. PICK named1 : named1 = <<full, n>> /\ named1 \in avroNamed /\ named1[1] = full /\ named1[2] = n
    BY <2>1, <2>3, <2>4
  <2>6. \A d \in avroNamed : d[1] = full => d[2] = n
    BY <2>2, <2>5
  <2>7. Declared(full) = {n}
    BY <2>5, <2>6 DEF Declared
  <2> QED
    BY <2>1, <2>3, <2>4, <2>7
<1> QED
  BY <1>1, <1>2, <1>3, Invariance, PTL DEF Spec

-----------------------------------------------------------------------------
\* The branches of every accepted union can be told apart.

\* The full name of node n, in this namespace.
NodeName(n, namespace) ==
  FullName(schema[n].name, Enclosing(schema[n].namespace, namespace))

\* k is the key of what is this on the wire.
KeyFits(k, identity, names) ==
  \/ \E e \in names : k = <<"named", e[1]>> /\ identity = {<<"named", e[2]>>}
  \/ \E kind : k = <<"unnamed", kind>> /\ identity = {k}

\* k is the key of the compiled node n.
Keyed(n, k) == KeyFits(k, Identity(n), named)

\* Frames are of nodes with children, inner ones of later nodes, and a record
\* is registered under its name in the namespace around it.
Placed(frames) ==
  /\ \A i \in 2 .. Len(frames) :
       LET n == frames[i].node
       IN  /\ KindOf(n) \in Branching
           /\ KindOf(n) = "record" => <<NodeName(n, frames[i - 1].namespace), n>> \in named
  /\ \A i, j \in 1 .. Len(frames) : i < j => frames[i].node < frames[j].node

\* A union has seen the keys of its compiled branches.
KeysSeen(frames) ==
  \A i \in 1 .. Len(frames) :
    KindOf(frames[i].node) = "union" =>
      \A c \in children :
        c[2] = frames[i].node => \E k \in frames[i].keys : Keyed(c[1], k)

Distinct ==
  \A c, d \in children :
    (c[2] = d[2] /\ c # d /\ KindOf(c[2]) = "union") => Identity(c[1]) # Identity(d[1])

NodesOnce == \A d, e \in named : d[2] = e[2] => d = e

UnionsInv ==
  /\ Placed(stack)
  /\ NodesOnce
  /\ children \subseteq (1 .. next - 1) \X (0 .. next - 1)
  /\ outcome # "refused" => KeysSeen(stack) /\ Distinct

\* What is known of the nodes compiled so far stays so.
Stable ==
  /\ \A c \in children : Identity(c[1])' = Identity(c[1])
  /\ \A c \in children : \A k : Keyed(c[1], k) => Keyed(c[1], k)'

-----------------------------------------------------------------------------
\* Nodes that are the same on the wire have the same key.
LEMMA SameIdentitySameKey ==
  ASSUME NEW names, \A d, e \in names : d[2] = e[2] => d = e,
         NEW identity, NEW k, NEW l,
         KeyFits(k, identity, names), KeyFits(l, identity, names)
  PROVE  k = l
<1> DEFINE registered(x) == \E e \in names : x = <<"named", e[1]>> /\ identity = {<<"named", e[2]>>}
           plain(x) == \E kind : x = <<"unnamed", kind>> /\ identity = {x}
<1>1. CASE registered(k) /\ registered(l)
  <2>1. PICK d \in names : k = <<"named", d[1]>> /\ identity = {<<"named", d[2]>>}
    BY <1>1
  <2>2. PICK e \in names : l = <<"named", e[1]>> /\ identity = {<<"named", e[2]>>}
    BY <1>1
  <2>3. <<"named", d[2]>> = <<"named", e[2]>>
    BY <2>1, <2>2
  <2>4. d = e
    BY <2>3
  <2> QED
    BY <2>1, <2>2, <2>4
<1>2. CASE plain(k) /\ plain(l)
  BY <1>2
<1>3. ASSUME NEW x, NEW y, registered(x), plain(y)
      PROVE  FALSE
  <2>1. PICK e \in names : identity = {<<"named", e[2]>>}
    BY <1>3
  <2>2. PICK kind : identity = {<<"unnamed", kind>>}
    BY <1>3
  <2>3. <<"named", e[2]>> # <<"unnamed", kind>>
    OBVIOUS
  <2> QED
    BY <2>1, <2>2, <2>3
<1> QED
  BY <1>1, <1>2, <1>3 DEF KeyFits

\* What a node is on the wire depends on what references were resolved to.
LEMMA SameIdentity ==
  ASSUME schema' = schema, plan' = plan
  PROVE  \A n : KindOf(n)' = KindOf(n) /\ Identity(n)' = Identity(n)
<1> SUFFICES ASSUME NEW n
             PROVE  KindOf(n)' = KindOf(n) /\ Identity(n)' = Identity(n)
  OBVIOUS
<1>1. KindOf(n)' = KindOf(n)
  BY DEF KindOf
<1>2. {q \in plan' : q[1] = n} = {q \in plan : q[1] = n}
  OBVIOUS
<1> QED
  BY <1>1, <1>2 DEF Identity

\* Names are only added, and references resolved once.
LEMMA Stability ==
  ASSUME UnionsInv, next \in Nat, schema' = schema, named \subseteq named',
         plan' = plan \/ \E x : plan' = plan \cup {<<next, x>>}
  PROVE  Stable
<1> SUFFICES ASSUME NEW c \in children
             PROVE  /\ Identity(c[1])' = Identity(c[1])
                    /\ \A k : Keyed(c[1], k) => Keyed(c[1], k)'
  BY DEF Stable
<1>1. c[1] # next
  BY DEF UnionsInv
<1>2. {q \in plan' : q[1] = c[1]} = {q \in plan : q[1] = c[1]}
  BY <1>1
<1>3. KindOf(c[1])' = KindOf(c[1])
  BY DEF KindOf
<1>4. Identity(c[1])' = Identity(c[1])
  BY <1>2, <1>3 DEF Identity
<1>5. ASSUME NEW k, Keyed(c[1], k)
      PROVE  Keyed(c[1], k)'
  BY <1>4, <1>5 DEF Keyed, KeyFits
<1> QED
  BY <1>4, <1>5

\* What counting a compiled child changes in the frames around it.
LEMMA CountedFrames ==
  ASSUME NEW n, NEW frames \in Seq(Frames) \ {<< >>}, Compiled(n, frames)
  PROVE  LET parent == frames[Len(frames)]
             key == BranchKey(schema[n], parent.namespace)
         IN  /\ children' = children \cup {<<n, parent.node>>}
             /\ Len(stack') = Len(frames)
             /\ \A i \in 1 .. Len(frames) :
                  stack'[i].node = frames[i].node /\ stack'[i].namespace = frames[i].namespace
             /\ outcome' # "refused" =>
                  /\ \A i \in 1 .. Len(frames) - 1 : stack'[i].keys = frames[i].keys
                  /\ stack'[Len(frames)].keys = parent.keys \cup {key}
                  /\ KindOf(parent.node) = "union" => key \notin parent.keys
<1> DEFINE L == Len(frames)
           parent == frames[L]
           key == BranchKey(schema[n], parent.namespace)
           counted == [frames EXCEPT ![L] = Counted(parent, key)]
<1>1. L \in Nat \ {0} /\ \A i \in 1 .. L : frames[i] \in Frames
  OBVIOUS
<1>2. /\ Counted(parent, key).node = parent.node
      /\ Counted(parent, key).namespace = parent.namespace
      /\ Counted(parent, key).keys = parent.keys \cup {key}
  BY <1>1 DEF Counted, Frames
<1>3. /\ Len(counted) = L
      /\ counted[L] = Counted(parent, key)
      /\ \A i \in 1 .. L - 1 : counted[i] = frames[i]
  BY <1>1
<1>4. /\ children' = children \cup {<<n, parent.node>>}
      /\ \/ outcome' = "refused" /\ stack' = frames
         \/ stack' = counted /\ ~(KindOf(parent.node) = "union" /\ key \in parent.keys)
  BY DEF Compiled
<1> HIDE DEF parent, key, counted
<1>5. CASE outcome' = "refused" /\ stack' = frames
  BY <1>4, <1>5 DEF parent, key
<1>6. CASE stack' = counted /\ ~(KindOf(parent.node) = "union" /\ key \in parent.keys)
  <2>1. \A i \in 1 .. L :
          stack'[i].node = frames[i].node /\ stack'[i].namespace = frames[i].namespace
    BY <1>1, <1>2, <1>3, <1>6 DEF parent
  <2>2. /\ \A i \in 1 .. L - 1 : stack'[i].keys = frames[i].keys
        /\ stack'[L].keys = parent.keys \cup {key}
    BY <1>1, <1>2, <1>3, <1>6
  <2> QED
    BY <1>3, <1>4, <1>6, <2>1, <2>2 DEF parent, key
<1> QED
  BY <1>4, <1>5, <1>6

\* A compiled branch differs from those before it, and is seen.
LEMMA BranchKeeps ==
  ASSUME Stable, NodesOnce', NEW n, NEW frames \in Seq(Frames) \ {<< >>},
         \A i, j \in 1 .. Len(frames) : i < j => frames[i].node < frames[j].node,
         \A i \in 1 .. Len(frames) : frames[i].node \in Nat,
         KeysSeen(frames), Distinct, schema' = schema,
         Compiled(n, frames), outcome' # "refused", NEW key,
         key = BranchKey(schema[n], frames[Len(frames)].namespace), Keyed(n, key)'
  PROVE  KeysSeen(stack)' /\ Distinct'
<1> DEFINE L == Len(frames)
           parent == frames[L]
           child == <<n, parent.node>>
<1>1. L \in Nat \ {0}
  OBVIOUS
<1>2. /\ children' = children \cup {child}
      /\ Len(stack') = L
      /\ \A i \in 1 .. L : stack'[i].node = frames[i].node
      /\ \A i \in 1 .. L - 1 : stack'[i].keys = frames[i].keys
      /\ stack'[L].keys = parent.keys \cup {key}
      /\ KindOf(parent.node) = "union" => key \notin parent.keys
  BY CountedFrames
<1>3. \A i \in 1 .. L - 1 : frames[i].node # parent.node
  BY <1>1
<1>5. \A x : KindOf(x)' = KindOf(x)
  BY DEF KindOf
<1>6. ASSUME NEW c \in children, c[2] = parent.node, KindOf(parent.node) = "union"
      PROVE  /\ \E k \in parent.keys : Keyed(c[1], k)'
             /\ Identity(c[1])' # Identity(n)'
  <2>1. PICK k \in parent.keys : Keyed(c[1], k)
    BY <1>1, <1>6 DEF KeysSeen
  <2>2. Keyed(c[1], k)' /\ k # key
    BY <1>2, <1>6, <2>1 DEF Stable
  <2>3. Identity(c[1])' # Identity(n)'
    <3> SUFFICES ASSUME Identity(c[1])' = Identity(n)'
                 PROVE  FALSE
      OBVIOUS
    <3>1. KeyFits(k, Identity(n)', named') /\ KeyFits(key, Identity(n)', named')
      BY <2>2 DEF Keyed
    <3>2. \A d, e \in named' : d[2] = e[2] => d = e
      BY DEF NodesOnce
    <3>3. k = key
      BY <3>1, <3>2, SameIdentitySameKey
    <3> QED
      BY <2>2, <3>3
  <2> QED
    BY <2>2, <2>3
<1> HIDE DEF parent, L
<1>7. KeysSeen(stack)'
  <2> SUFFICES ASSUME NEW i \in 1 .. L, KindOf(frames[i].node) = "union",
                      NEW c \in children \cup {child}, c[2] = frames[i].node
               PROVE  \E k \in stack'[i].keys : Keyed(c[1], k)'
    BY <1>2, <1>5 DEF KeysSeen
  <2>1. CASE i = L
    <3>1. stack'[i].keys = parent.keys \cup {key} /\ frames[i].node = parent.node
      BY <1>2, <2>1 DEF parent
    <3>2. CASE c \in children
      BY <1>6, <3>1, <3>2
    <3>3. CASE c = child
      BY <3>1, <3>3
    <3> QED
      BY <3>2, <3>3
  <2>2. CASE i # L
    <3>1. i \in 1 .. L - 1 /\ stack'[i].keys = frames[i].keys
      BY <1>1, <1>2, <2>2
    <3>2. c \in children
      BY <1>3, <3>1
    <3>3. \E k \in frames[i].keys : Keyed(c[1], k)
      BY <3>2 DEF KeysSeen, L
    <3> QED
      BY <3>1, <3>2, <3>3 DEF Stable
  <2> QED
    BY <2>1, <2>2
<1>8. Distinct'
  <2> SUFFICES ASSUME NEW c \in children \cup {child}, NEW d \in children \cup {child},
                      c[2] = d[2], c # d, KindOf(c[2]) = "union"
               PROVE  Identity(c[1])' # Identity(d[1])'
    BY <1>2, <1>5 DEF Distinct
  <2>1. CASE c \in children /\ d \in children
    BY <2>1 DEF Distinct, Stable
  <2>2. CASE c \in children /\ d = child
    BY <1>6, <2>2
  <2>3. CASE c = child /\ d \in children
    BY <1>6, <2>3
  <2> QED
    BY <2>1, <2>2, <2>3
<1> QED
  BY <1>7, <1>8

\* A node is compiled: the due one, or the innermost one that waited.
LEMMA CountKeeps ==
  ASSUME CompileInv, UnionsInv, outcome = "compiling",
         NEW frames \in Seq(Frames) \ {<< >>}, Len(frames) <= Len(stack),
         \A i \in 1 .. Len(frames) : frames[i] = stack[i],
         next' \in Nat, next <= next', NEW n \in 1 .. next' - 1, Compiled(n, frames),
         Stable, NodesOnce', named \subseteq named', schema' = schema,
         NEW key, key = BranchKey(schema[n], frames[Len(frames)].namespace), Keyed(n, key)'
  PROVE  UnionsInv'
<1> DEFINE L == Len(frames)
           parent == frames[L]
<1>1. L \in Nat \ {0} /\ next \in Nat /\ Len(stack) \in Nat
  BY DEF CompileInv, TypeOK
<1>2. \A i \in 1 .. L : i \in 1 .. Len(stack) /\ frames[i].node \in 0 .. next - 1
  <2>1. \A i \in 1 .. L : i \in 1 .. Len(stack)
    BY <1>1
  <2>2. \A i \in 1 .. Len(stack) : stack[i].node \in 0 .. next - 1
    BY <1>1 DEF CompileInv, StackInv, TypeOK
  <2> QED
    BY <2>1, <2>2
<1>3. /\ children' = children \cup {<<n, parent.node>>}
      /\ Len(stack') = L
      /\ \A i \in 1 .. L :
           stack'[i].node = stack[i].node /\ stack'[i].namespace = stack[i].namespace
  BY CountedFrames
<1>4. Placed(stack)'
  <2>1. ASSUME NEW i \in 2 .. L
        PROVE  /\ KindOf(stack[i].node)' \in Branching
               /\ KindOf(stack[i].node)' = "record" =>
                    <<NodeName(stack[i].node, stack[i - 1].namespace)', stack'[i].node>> \in named'
    <3>1. i \in 2 .. Len(stack) /\ i \in 1 .. L /\ i - 1 \in 1 .. L
      BY <1>1, <1>2
    <3>2. stack'[i].node = stack[i].node /\ stack'[i - 1].namespace = stack[i - 1].namespace
      BY <1>3, <3>1
    <3>3. /\ KindOf(stack[i].node) \in Branching
          /\ KindOf(stack[i].node) = "record" =>
               <<NodeName(stack[i].node, stack[i - 1].namespace), stack[i].node>> \in named
      BY <3>1 DEF UnionsInv, Placed
    <3>4. /\ KindOf(stack[i].node)' = KindOf(stack[i].node)
          /\ NodeName(stack[i].node, stack[i - 1].namespace)'
               = NodeName(stack[i].node, stack[i - 1].namespace)
      BY <3>2 DEF KindOf, NodeName
    <3> QED
      BY <3>2, <3>3, <3>4
  <2>2. \A i, j \in 1 .. L : i < j => stack'[i].node < stack'[j].node
    BY <1>2, <1>3 DEF UnionsInv, Placed
  <2> QED
    BY <1>3, <2>1, <2>2 DEF Placed
<1>5. children' \subseteq (1 .. next' - 1) \X (0 .. next' - 1)
  <2>1. parent.node \in 0 .. next - 1
    BY <1>1, <1>2
  <2>2. <<n, parent.node>> \in (1 .. next' - 1) \X (0 .. next' - 1)
    <3>1. parent.node \in 0 .. next' - 1
      <4> HIDE DEF parent
      <4> QED
        BY <1>1, <2>1
    <3> QED
      BY <3>1
  <2>3. children \subseteq (1 .. next' - 1) \X (0 .. next' - 1)
    BY <1>1 DEF UnionsInv
  <2> QED
    BY <1>3, <2>2, <2>3
<1>6. outcome' # "refused" => KeysSeen(stack)' /\ Distinct'
  <2>1. KeysSeen(frames)
    BY <1>2 DEF UnionsInv, KeysSeen
  <2>2. /\ \A i, j \in 1 .. Len(frames) : i < j => frames[i].node < frames[j].node
        /\ \A i \in 1 .. Len(frames) : frames[i].node \in Nat
    <3>1. \A i \in 1 .. Len(frames) : frames[i].node \in Nat
      BY <1>1, <1>2
    <3>2. \A i, j \in 1 .. Len(stack) : i < j => stack[i].node < stack[j].node
      BY DEF UnionsInv, Placed
    <3>3. \A i \in 1 .. Len(frames) : i \in 1 .. Len(stack) /\ frames[i] = stack[i]
      BY <1>2
    <3> QED
      BY <3>1, <3>2, <3>3
  <2>3. Distinct
    BY DEF UnionsInv
  <2> QED
    BY <2>1, <2>2, <2>3, BranchKeeps
<1> QED
  BY <1>4, <1>5, <1>6 DEF UnionsInv

\* The due node has no children, and was compiled.
LEMMA LeafCounts ==
  ASSUME CompileInv, UnionsInv, NEW kinds, Due(kinds), NEW n, n = next, Compiled(n, stack),
         next' = n + 1, Stable, NodesOnce', named \subseteq named', schema' = schema,
         NEW key, key = BranchKey(Node, Top.namespace), Keyed(n, key)'
  PROVE  UnionsInv'
<1>1. n \in 1 .. next' - 1 /\ next' \in Nat /\ next <= next' /\ outcome = "compiling"
  BY DueFacts
<1>2. stack \in Seq(Frames) \ {<< >>} /\ Len(stack) <= Len(stack)
  BY DEF CompileInv, TypeOK
<1>3. \A i \in 1 .. Len(stack) : stack[i] = stack[i]
  OBVIOUS
<1>4. key = BranchKey(schema[n], stack[Len(stack)].namespace)
  BY DEF Node, Top
<1> QED
  BY <1>1, <1>2, <1>3, <1>4, CountKeeps

\* The frames stay as they are, or compilation has failed.
LEMMA RestKeeps ==
  ASSUME CompileInv, UnionsInv, schema' = schema, stack' = stack, named' = named,
         plan' = plan, children' = children, next' \in Nat, next <= next',
         outcome' = "refused" \/ outcome # "refused" \/ outcome' = outcome
  PROVE  UnionsInv'
<1>1. next \in Nat
  BY DEF CompileInv, TypeOK
<1>2. Placed(stack)' /\ NodesOnce'
  BY DEF UnionsInv, Placed, NodesOnce, KindOf, NodeName
<1>3. children' \subseteq (1 .. next' - 1) \X (0 .. next' - 1)
  BY <1>1 DEF UnionsInv
<1>4. KeysSeen(stack) => KeysSeen(stack)'
  <2> SUFFICES ASSUME KeysSeen(stack), NEW i \in 1 .. Len(stack), KindOf(stack[i].node)' = "union",
                      NEW c \in children, c[2] = stack[i].node
               PROVE  \E k \in stack[i].keys : Keyed(c[1], k)'
    BY DEF KeysSeen
  <2>1. KindOf(stack[i].node) = "union"
    BY DEF KindOf
  <2>2. PICK k \in stack[i].keys : Keyed(c[1], k)
    BY <2>1 DEF KeysSeen
  <2>3. Keyed(c[1], k)'
    BY <2>2, SameIdentity DEF Keyed, KeyFits
  <2> QED
    BY <2>3
<1>5. Distinct => Distinct'
  BY SameIdentity DEF Distinct
<1> QED
  BY <1>2, <1>3, <1>4, <1>5 DEF UnionsInv

LEMMA RefuseDistinct ==
  ASSUME CompileInv, UnionsInv, NEW kinds, Due(kinds), Refuse, next' = next + 1, schema' = schema
  PROVE  UnionsInv'
<1>1. next' \in Nat /\ next <= next'
  BY DueFacts
<1> QED
  BY <1>1, RestKeeps DEF Refuse, planVars

LEMMA UnnamedDistinct ==
  ASSUME CompileInv, UnionsInv, CompileUnnamed
  PROVE  UnionsInv'
<1> USE DEF CompileUnnamed, planVars
<1>1. CASE ChildRefused
  BY <1>1, RefuseDistinct
<1>2. CASE ~ChildRefused
  <2>1. next # 0 /\ Node.kind \in {"int", "date", "string"}
    BY DueFacts DEF Unnamed, Branching
  <2>2. Stable /\ NodesOnce'
    BY <1>2, DueFacts, Stability DEF UnionsInv, NodesOnce
  <2>3. PICK n : n = next
    OBVIOUS
  <2>4. PICK key : key = BranchKey(Node, Top.namespace)
    OBVIOUS
  <2>5. Keyed(n, key)'
    <3>1. key = <<"unnamed", WireKind(Node.kind)>>
      BY <2>1, <2>4 DEF BranchKey, Named
    <3>2. Identity(n) = {key}
      BY <2>1, <2>3, <3>1 DEF Identity, KindOf, Node, Named, WireKind
    <3>3. Identity(n)' = Identity(n)
      BY <1>2, SameIdentity
    <3> QED
      BY <3>1, <3>2, <3>3 DEF Keyed, KeyFits
  <2> QED
    BY <1>2, <2>2, <2>3, <2>4, <2>5, LeafCounts
<1> QED
  BY <1>1, <1>2

\* The registry has the due node, under one name.
LEMMA RegisterOnce ==
  ASSUME CompileInv, UnionsInv, NEW full, Register(full)
  PROVE  /\ NodesOnce' /\ named \subseteq named' /\ plan' = plan
         /\ <<full, next>> \in named'
<1>1. named' = named \cup {<<full, next>>} /\ plan' = plan
  BY DEF Register
<1>2. \A e \in named : e[2] # next
  BY DEF CompileInv, TypeOK
<1>3. NodesOnce'
  BY <1>1, <1>2 DEF UnionsInv, NodesOnce
<1> QED
  BY <1>1, <1>3

LEMMA RefDistinct ==
  ASSUME CompileInv, UnionsInv, CompileRef
  PROVE  UnionsInv'
<1> USE DEF CompileRef
<1>1. CASE ChildRefused \/ Resolved(Node, Top.namespace) = {}
  BY <1>1, RefuseDistinct
<1>2. CASE ~(ChildRefused \/ Resolved(Node, Top.namespace) = {})
  <2>1. PICK e \in Resolved(Node, Top.namespace) :
          /\ plan' = plan \cup {<<next, e[2]>>}
          /\ Compiled(next, stack)
          /\ UNCHANGED <<named, bound, avroNamed>>
    BY <1>2
  <2>2. /\ e \in named
        /\ e[1] = FullName(Node.name, Enclosing(Node.namespace, Top.namespace))
    BY DEF Resolved
  <2>3. next # 0 /\ next \in Nat /\ Node.kind = "ref"
    BY DueFacts
  <2>4. Stable /\ NodesOnce'
    BY <2>1, <2>3, Stability DEF UnionsInv, NodesOnce
  <2>5. PICK n : n = next
    OBVIOUS
  <2>6. PICK key : key = BranchKey(Node, Top.namespace)
    OBVIOUS
  <2>7. Keyed(n, key)'
    <3>1. key = <<"named", e[1]>>
      BY <2>2, <2>3, <2>6 DEF BranchKey
    <3>2. {q \in plan' : q[1] = n} = {<<n, e[2]>>}
      <4>1. \A q \in plan : q[1] # n
        BY <2>3, <2>5 DEF CompileInv, TypeOK
      <4> QED
        BY <2>1, <2>5, <4>1
    <3>3. KindOf(n)' = "ref"
      BY <2>3, <2>5 DEF KindOf, Node
    <3>4. Identity(n)' = {<<"named", e[2]>>}
      <4>1. Identity(n)' = {<<"named", p[2]>> : p \in {q \in plan' : q[1] = n}}
        BY <3>3 DEF Identity, Named
      <4>2. {<<"named", p[2]>> : p \in {<<n, e[2]>>}} = {<<"named", e[2]>>}
        OBVIOUS
      <4> QED
        BY <3>2, <4>1, <4>2
    <3> QED
      BY <2>1, <2>2, <3>1, <3>4 DEF Keyed, KeyFits
  <2> QED
    BY <2>1, <2>4, <2>5, <2>6, <2>7, LeafCounts
<1> QED
  BY <1>1, <1>2

LEMMA FixedDistinct ==
  ASSUME CompileInv, UnionsInv, CompileFixed
  PROVE  UnionsInv'
<1> DEFINE full == FullName(Node.name, Enclosing(Node.namespace, Top.namespace))
           refused == ChildRefused \/ Node.refused # 0 \/ ~MayRegister(full)
<1> USE DEF CompileFixed
<1>1. CASE refused
  BY <1>1, RefuseDistinct
<1>2. CASE ~refused
  <2>1. Register(full) /\ Compiled(next, stack)
    BY <1>2
  <2>2. next # 0 /\ next \in Nat /\ Node.kind = "fixed"
    BY DueFacts
  <2>3. NodesOnce' /\ named \subseteq named' /\ plan' = plan /\ <<full, next>> \in named'
    BY <2>1, RegisterOnce
  <2>4. Stable
    BY <2>2, <2>3, Stability
  <2>5. PICK n : n = next
    OBVIOUS
  <2>6. PICK key : key = BranchKey(Node, Top.namespace)
    OBVIOUS
  <2>7. Keyed(n, key)'
    <3>1. key = <<"named", full>>
      BY <2>2, <2>6 DEF BranchKey, Named
    <3>2. Identity(n) = {<<"named", n>>}
      BY <2>2, <2>5 DEF Identity, KindOf, Node, Named
    <3>3. Identity(n)' = {<<"named", n>>}
      BY <2>3, <3>2, SameIdentity
    <3> HIDE DEF full
    <3>4. PICK e : e = <<full, next>>
      OBVIOUS
    <3>5. e \in named' /\ key = <<"named", e[1]>> /\ Identity(n)' = {<<"named", e[2]>>}
      BY <2>3, <2>5, <3>1, <3>3, <3>4
    <3> QED
      BY <3>5 DEF Keyed, KeyFits
  <2> QED
    BY <2>1, <2>3, <2>4, <2>5, <2>6, <2>7, LeafCounts
<1> QED
  BY <1>1, <1>2

\* The due node waits for its children; a union has seen none yet.
LEMMA PushKeeps ==
  ASSUME CompileInv, UnionsInv, NEW kinds, Due(kinds), NEW n, n = next, next' = n + 1,
         NEW namespace, NEW avro, stack' = Append(stack, Frame(n, namespace, avro, Node.arity)),
         Stable, NodesOnce', named \subseteq named', children' = children, schema' = schema,
         outcome' = outcome, Node.kind \in Branching,
         Node.kind = "record" => <<NodeName(n, Top.namespace), n>> \in named'
  PROVE  UnionsInv'
<1> DEFINE frame == Frame(n, namespace, avro, Node.arity)
           L == Len(stack)
<1>1. n \in Nat /\ n # 0 /\ next = n /\ outcome = "compiling" /\ stack \in Seq(Frames) \ {<< >>}
  BY DueFacts DEF CompileInv, TypeOK
<1>2. L \in Nat \ {0} /\ frame.node = n
  BY <1>1 DEF Frame
<1> HIDE DEF frame
<1>3. /\ Len(stack') = L + 1
      /\ \A i \in 1 .. L : stack'[i] = stack[i]
      /\ stack'[L + 1] = frame
  BY <1>1, <1>2 DEF frame
<1>4. \A i \in 1 .. L : stack[i].node \in 0 .. n - 1
  BY <1>1, <1>2 DEF CompileInv, StackInv
<1>5. \A m : KindOf(m)' = KindOf(m)
  BY DEF KindOf
<1>6. \A m, outer : NodeName(m, outer)' = NodeName(m, outer)
  BY DEF NodeName
<1> HIDE DEF L
<1>7. Placed(stack)'
  <2>1. ASSUME NEW i \in 2 .. L + 1
        PROVE  LET m == stack[i].node
               IN  (/\ KindOf(m) \in Branching
                    /\ KindOf(m) = "record" =>
                         <<NodeName(m, stack[i - 1].namespace), m>> \in named)'
    <3>1. CASE i = L + 1
      <4>1. stack'[i].node = n /\ stack'[i - 1] = Top
        BY <1>2, <1>3, <3>1 DEF Top, L
      <4>2. KindOf(n) = Node.kind
        BY <1>1 DEF KindOf, Node
      <4> QED
        BY <4>1, <4>2 DEF KindOf, NodeName
    <3>2. CASE i # L + 1
      <4>1. i \in 2 .. L /\ i \in 1 .. L /\ i - 1 \in 1 .. L
        BY <1>2, <3>2
      <4>2. stack'[i] = stack[i] /\ stack'[i - 1] = stack[i - 1]
        BY <1>3, <4>1
      <4>3. /\ KindOf(stack[i].node) \in Branching
            /\ KindOf(stack[i].node) = "record" =>
                 <<NodeName(stack[i].node, stack[i - 1].namespace), stack[i].node>> \in named
        BY <4>1 DEF UnionsInv, Placed, L
      <4> QED
        BY <4>2, <4>3 DEF KindOf, NodeName
    <3> QED
      BY <3>1, <3>2
  <2>2. \A i, j \in 1 .. L + 1 : i < j => stack'[i].node < stack'[j].node
    <3>1. \A i, j \in 1 .. L : i < j => stack[i].node < stack[j].node
      BY DEF UnionsInv, Placed, L
    <3>2. \A i \in 1 .. L : stack[i].node < n
      BY <1>1, <1>4
    <3> QED
      BY <1>2, <1>3, <3>1, <3>2
  <2> QED
    BY <1>3, <2>1, <2>2 DEF Placed
<1>8. children' \subseteq (1 .. next' - 1) \X (0 .. next' - 1)
  BY <1>1 DEF UnionsInv
<1>9. KeysSeen(stack)'
  <2> SUFFICES ASSUME NEW i \in 1 .. L + 1, KindOf(stack[i].node)' = "union",
                      NEW c \in children, c[2] = stack'[i].node
               PROVE  \E k \in stack'[i].keys : Keyed(c[1], k)'
    BY <1>3 DEF KeysSeen
  <2>1. i \in 1 .. L
    <3>1. c[2] \in 0 .. n - 1
      BY <1>1 DEF UnionsInv
    <3> QED
      BY <1>1, <1>2, <1>3, <3>1
  <2>2. stack'[i] = stack[i]
    BY <1>3, <2>1
  <2>3. KindOf(stack[i].node) = "union"
    BY <2>2 DEF KindOf
  <2>4. \E k \in stack[i].keys : Keyed(c[1], k)
    BY <1>1, <2>1, <2>2, <2>3 DEF UnionsInv, KeysSeen, L
  <2> QED
    BY <2>2, <2>4 DEF Stable
<1>10. Distinct'
  <2>1. Distinct
    BY <1>1 DEF UnionsInv
  <2> QED
    BY <1>5, <2>1 DEF Distinct, Stable
<1> QED
  BY <1>7, <1>8, <1>9, <1>10 DEF UnionsInv

LEMMA RecordDistinct ==
  ASSUME CompileInv, UnionsInv, OpenRecord
  PROVE  UnionsInv'
<1> DEFINE full == FullName(Node.name, Enclosing(Node.namespace, Top.namespace))
           avro == AvroNamespace(Node.name, Node.namespace, Top.avro)
           inner == InnerNamespace(Node, Top.namespace)
           refused == ChildRefused \/ ~MayRegister(full)
<1> USE DEF OpenRecord
<1>1. CASE refused
  BY <1>1, RefuseDistinct
<1>2. CASE ~refused
  <2>1. /\ Register(full) /\ UNCHANGED <<bound, children, outcome>>
        /\ stack' = Append(stack, Frame(next, inner, avro, Node.arity))
    BY <1>2
  <2>2. next \in Nat /\ Node.kind = "record"
    BY DueFacts
  <2>3. NodesOnce' /\ named \subseteq named' /\ plan' = plan /\ <<full, next>> \in named'
    BY <2>1, RegisterOnce
  <2>4. Stable
    BY <2>2, <2>3, Stability
  <2>5. PICK n : n = next
    OBVIOUS
  <2>6. full = NodeName(n, Top.namespace)
    BY <2>5 DEF NodeName, Node
  <2>7. Node.kind \in Branching
    BY <2>2 DEF Branching
  <2> HIDE DEF full, inner, avro
  <2> QED
    BY <2>1, <2>3, <2>4, <2>5, <2>6, <2>7, PushKeeps
<1> QED
  BY <1>1, <1>2

LEMMA UnnamedOpenDistinct ==
  ASSUME CompileInv, UnionsInv, OpenUnnamed
  PROVE  UnionsInv'
<1> USE DEF OpenUnnamed, planVars
<1>1. CASE ChildRefused \/ Node.arity = 0
  BY <1>1, RefuseDistinct
<1>2. CASE ~(ChildRefused \/ Node.arity = 0)
  <2>1. next \in Nat /\ Node.kind \in Branching /\ Node.kind # "record"
    BY DueFacts DEF Unnamed
  <2>2. Stable /\ NodesOnce'
    BY <1>2, <2>1, Stability DEF UnionsInv, NodesOnce
  <2>3. PICK n : n = next
    OBVIOUS
  <2>4. stack' = Append(stack, Frame(n, Top.namespace, Top.avro, Node.arity))
    BY <1>2, <2>3
  <2> QED
    BY <1>2, <2>1, <2>2, <2>3, <2>4, PushKeeps
<1> QED
  BY <1>1, <1>2

\* A node whose children are compiled is a branch in its turn.
LEMMA ReturnDistinct ==
  ASSUME CompileInv, UnionsInv, Return
  PROVE  UnionsInv'
<1>1. PICK L : L = Len(stack)
  OBVIOUS
<1>2. PICK n : n = Top.node
  OBVIOUS
<1>3. PICK frames : frames = SubSeq(stack, 1, L - 1)
  OBVIOUS
<1>4. /\ Compiled(n, frames) /\ n # 0 /\ n = stack[L].node /\ outcome = "compiling"
      /\ UNCHANGED <<schema, next, named, plan>>
  BY <1>1, <1>2, <1>3 DEF Return, Top
<1>5. L \in Nat /\ L >= 2 /\ stack \in Seq(Frames) /\ next \in Nat
  <2>1. L \in Nat \ {0} /\ stack \in Seq(Frames) /\ next \in Nat
    BY <1>1 DEF CompileInv, TypeOK
  <2>2. L # 1
    BY <1>4 DEF CompileInv, StackInv
  <2> QED
    BY <2>1, <2>2
<1>6. /\ frames \in Seq(Frames) \ {<< >>}
      /\ Len(frames) = L - 1
      /\ \A i \in 1 .. L - 1 : frames[i] = stack[i]
  <2>1. L - 1 \in Nat /\ L - 1 >= 1 /\ L - 1 <= Len(stack) /\ \A i \in 1 .. L - 1 : stack[i] \in Frames
    BY <1>1, <1>5
  <2>2. Len(frames) = L - 1 /\ \A i \in 1 .. L - 1 : frames[i] = stack[i]
    BY <1>3, <1>5, <2>1
  <2>3. frames \in Seq(Frames)
    BY <1>3, <1>5, <2>1
  <2>4. frames # << >>
    <3>1. Len(frames) # Len(<< >>)
      BY <2>1, <2>2
    <3> QED
      BY <3>1
  <2> QED
    BY <2>2, <2>3, <2>4
<1>7. n \in 1 .. next' - 1 /\ next' \in Nat /\ next <= next'
  <2>1. n \in 1 .. next - 1
    BY <1>1, <1>4, <1>5 DEF CompileInv, StackInv
  <2> QED
    BY <1>4, <1>5, <2>1
<1>8. Stable /\ NodesOnce'
  BY <1>4, <1>5, Stability DEF UnionsInv, NodesOnce
<1>9. PICK key : key = BranchKey(schema[n], frames[Len(frames)].namespace)
  OBVIOUS
<1>10. Keyed(n, key)
  <2>1. frames[Len(frames)] = stack[L - 1]
    BY <1>5, <1>6
  <2>2. /\ KindOf(n) \in Branching
        /\ KindOf(n) = "record" => <<NodeName(n, stack[L - 1].namespace), n>> \in named
    BY <1>1, <1>4, <1>5 DEF UnionsInv, Placed
  <2>3. KindOf(n) = schema[n].kind
    BY <1>4 DEF KindOf
  <2>4. CASE KindOf(n) = "record"
    <3>1. key = <<"named", NodeName(n, stack[L - 1].namespace)>>
      BY <1>9, <2>1, <2>3, <2>4 DEF BranchKey, Named, NodeName
    <3>2. Identity(n) = {<<"named", n>>}
      BY <2>4 DEF Identity, Named
    <3>3. PICK e : e = <<NodeName(n, stack[L - 1].namespace), n>>
      OBVIOUS
    <3>4. e \in named /\ key = <<"named", e[1]>> /\ Identity(n) = {<<"named", e[2]>>}
      BY <2>2, <2>4, <3>1, <3>2, <3>3
    <3> QED
      BY <3>4 DEF Keyed, KeyFits
  <2>5. CASE KindOf(n) # "record"
    <3>1. KindOf(n) \in {"array", "union"}
      BY <2>2, <2>5 DEF Branching
    <3>2. key = <<"unnamed", KindOf(n)>>
      BY <1>9, <2>3, <3>1 DEF BranchKey, Named, WireKind
    <3>3. Identity(n) = {key}
      BY <3>1, <3>2 DEF Identity, Named
    <3> QED
      BY <3>2, <3>3 DEF Keyed, KeyFits
  <2> QED
    BY <2>4, <2>5
<1>11. Keyed(n, key)'
  BY <1>4, <1>10, SameIdentity DEF Keyed, KeyFits
<1>12. Len(frames) <= Len(stack) /\ named \subseteq named' /\ schema' = schema
       /\ \A i \in 1 .. Len(frames) : frames[i] = stack[i]
  BY <1>1, <1>4, <1>5, <1>6
<1> QED
  BY <1>4, <1>6, <1>7, <1>8, <1>9, <1>11, <1>12, CountKeeps

LEMMA RestDistinct ==
  ASSUME CompileInv, UnionsInv, Finish \/ UNCHANGED vars
  PROVE  UnionsInv'
<1>1. next \in Nat
  BY DEF CompileInv, TypeOK
<1> QED
  BY <1>1, RestKeeps DEF Finish, vars, planVars

LEMMA InitUnions ==
  ASSUME Init
  PROVE  UnionsInv
<1>1. Len(stack) = 1 /\ stack[1].node = 0
  BY DEF Init, Frame
<1> QED
  BY <1>1 DEF Init, UnionsInv, Placed, NodesOnce, KeysSeen, Distinct

-----------------------------------------------------------------------------
(***************************************************************************)
(* What compileSchema accepts has unions whose branches can be told apart, *)
(* whatever the schema: the keys compileUnion compares, full names by the  *)
(* namespace in force and wire kinds, differ only if the types do.         *)
(***************************************************************************)
THEOREM BranchesToldApart == Spec => []UnionBranchesDistinct
<1>1. Init => UnionsInv
  BY InitUnions
<1>2. CompileInv /\ UnionsInv /\ [Next]_vars => UnionsInv'
  BY UnnamedDistinct, RefDistinct, FixedDistinct, RecordDistinct, UnnamedOpenDistinct,
     ReturnDistinct, RestDistinct DEF Next
<1>3. UnionsInv => UnionBranchesDistinct
  BY DEF UnionsInv, Distinct, UnionBranchesDistinct
<1> QED
  BY <1>1, <1>2, <1>3, Invariance, PTL DEF Spec

-----------------------------------------------------------------------------
(***************************************************************************)
(* Termination: a node is still to be entered and left, a frame is still   *)
(* to be left.                                                             *)
(***************************************************************************)
WalkLeft ==
  IF outcome = "compiling" THEN 2 * (Len(schema) + 1 - next) + Len(stack) ELSE 0

\* What a step does to the walk: it enters a node, or leaves the innermost one.
Enters ==
  /\ UNCHANGED schema
  /\ next <= Len(schema) /\ next' = next + 1
  /\ Len(stack') <= Len(stack) + 1

Leaves ==
  /\ UNCHANGED <<schema, next>>
  /\ Len(stack') = Len(stack) - 1

LEMMA CompiledLength ==
  ASSUME NEW n, NEW frames \in Seq(Frames), Compiled(n, frames)
  PROVE  Len(stack') = Len(frames)
<1>1. \/ stack' = frames
      \/ \E f : stack' = [frames EXCEPT ![Len(frames)] = f]
  BY DEF Compiled
<1>2. \A f : Len([frames EXCEPT ![Len(frames)] = f]) = Len(frames)
  OBVIOUS
<1> QED
  BY <1>1, <1>2

LEMMA WalkSteps ==
  ASSUME CompileInv, Next
  PROVE  outcome = "compiling" /\ (Enters \/ Leaves \/ outcome' # "compiling")
<1>1. stack \in Seq(Frames) /\ Len(stack) \in Nat
  BY DEF CompileInv, TypeOK
<1>2. CASE CompileUnnamed
  <2>1. Refuse \/ Compiled(next, stack)
    BY <1>2 DEF CompileUnnamed
  <2>2. outcome' # "compiling" \/ Len(stack') <= Len(stack) + 1
    BY <1>1, <2>1, CompiledLength DEF Refuse
  <2> QED
    BY <1>2, <2>2 DEF CompileUnnamed, Due, Enters
<1>3. CASE CompileRef
  <2>1. Refuse \/ Compiled(next, stack)
    BY <1>3 DEF CompileRef
  <2>2. outcome' # "compiling" \/ Len(stack') <= Len(stack) + 1
    BY <1>1, <2>1, CompiledLength DEF Refuse
  <2> QED
    BY <1>3, <2>2 DEF CompileRef, Due, Enters
<1>4. CASE CompileFixed
  <2>1. Refuse \/ Compiled(next, stack)
    BY <1>4 DEF CompileFixed
  <2>2. outcome' # "compiling" \/ Len(stack') <= Len(stack) + 1
    BY <1>1, <2>1, CompiledLength DEF Refuse
  <2> QED
    BY <1>4, <2>2 DEF CompileFixed, Due, Enters
<1>5. CASE OpenRecord
  <2>1. Refuse \/ \E f : stack' = Append(stack, f)
    BY <1>5 DEF OpenRecord
  <2>2. outcome' # "compiling" \/ Len(stack') <= Len(stack) + 1
    BY <1>1, <2>1 DEF Refuse
  <2> QED
    BY <1>5, <2>2 DEF OpenRecord, Due, Enters
<1>6. CASE OpenUnnamed
  <2>1. Refuse \/ \E f : stack' = Append(stack, f)
    BY <1>6 DEF OpenUnnamed
  <2>2. outcome' # "compiling" \/ Len(stack') <= Len(stack) + 1
    BY <1>1, <2>1 DEF Refuse
  <2> QED
    BY <1>6, <2>2 DEF OpenUnnamed, Due, Enters
<1>7. CASE Return
  <2> DEFINE frames == SubSeq(stack, 1, Len(stack) - 1)
  <2>1. Len(stack) >= 1
    BY <1>1 DEF CompileInv, TypeOK
  <2>2. frames \in Seq(Frames) /\ Len(frames) = Len(stack) - 1
    <3>1. PICK k \in Nat : k = Len(stack) - 1 /\ k <= Len(stack)
      <4>1. Len(stack) - 1 \in Nat /\ Len(stack) - 1 <= Len(stack)
        BY <1>1, <2>1
      <4> QED
        BY <4>1
    <3>2. \A i \in 1 .. k : stack[i] \in Frames
      BY <1>1, <3>1
    <3>3. SubSeq(stack, 1, k) \in Seq(Frames) /\ Len(SubSeq(stack, 1, k)) = k
      <4>1. SubSeq(stack, 1, k) \in Seq(Frames)
        BY <3>1, <3>2, SubSeqProperties
      <4>2. Len(SubSeq(stack, 1, k)) = IF 1 <= k THEN k - 1 + 1 ELSE 0
        BY <3>1, <3>2, SubSeqProperties
      <4>3. k \in Nat /\ (IF 1 <= k THEN k - 1 + 1 ELSE 0) = k
        BY <3>1
      <4> QED
        BY <4>1, <4>2, <4>3
    <3> QED
      BY <3>1, <3>3
  <2>3. Compiled(Top.node, frames)
    BY <1>7 DEF Return
  <2> HIDE DEF frames
  <2>4. Len(stack') = Len(stack) - 1
    BY <2>2, <2>3, CompiledLength
  <2> QED
    BY <1>7, <2>4 DEF Return, Leaves
<1>8. CASE Finish
  BY <1>8 DEF Finish
<1> QED
  BY <1>2, <1>3, <1>4, <1>5, <1>6, <1>7, <1>8 DEF Next

LEMMA WalkRunsDown ==
  ASSUME CompileInv, CompileInv', Next
  PROVE  WalkLeft' < WalkLeft
<1>1. PICK s \in Nat, m \in Nat, i \in Nat :
        /\ s = Len(stack) /\ m = Len(schema) /\ i = next
        /\ s >= 1 /\ i <= m + 1
  BY SchemasAssumption DEF CompileInv, TypeOK
<1>2. PICK s1 \in Nat : s1 = Len(stack')
  BY DEF CompileInv, TypeOK
<1>3. outcome = "compiling" /\ WalkLeft = 2 * (m + 1 - i) + s
  BY <1>1, WalkSteps DEF WalkLeft
<1>4. CASE outcome' # "compiling"
  BY <1>1, <1>3, <1>4 DEF WalkLeft
<1>5. CASE Enters /\ outcome' = "compiling"
  <2>1. WalkLeft' = 2 * (m + 1 - (i + 1)) + s1 /\ s1 <= s + 1
    BY <1>1, <1>2, <1>5 DEF WalkLeft, Enters
  <2> QED
    BY <1>1, <1>2, <1>3, <2>1
<1>6. CASE Leaves /\ outcome' = "compiling"
  <2>1. WalkLeft' = 2 * (m + 1 - i) + s1 /\ s1 = s - 1
    BY <1>1, <1>2, <1>6 DEF WalkLeft, Leaves
  <2> QED
    BY <1>1, <1>2, <1>3, <2>1
<1> QED
  BY <1>4, <1>5, <1>6, WalkSteps

(***************************************************************************)
(* compileSchema does not go round for ever, whatever the schema refers    *)
(* to: it does not follow a reference into the type it names, so each      *)
(* step of the walk runs down what is left, which starts at two steps for  *)
(* a node and one more.                                                    *)
(***************************************************************************)
THEOREM CompileStepsRunOut ==
  Spec => /\ WalkLeft = 2 * Len(schema) + 1
          /\ [](WalkLeft \in Nat)
          /\ [][WalkLeft' < WalkLeft]_vars
<1>1. Init => WalkLeft = 2 * Len(schema) + 1
  <2> SUFFICES ASSUME Init PROVE WalkLeft = 2 * Len(schema) + 1
    OBVIOUS
  <2>1. PICK m \in Nat : m = Len(schema)
    BY SchemasAssumption DEF Init
  <2>2. next = 1 /\ Len(stack) = 1 /\ outcome = "compiling"
    BY DEF Init
  <2> QED
    BY <2>1, <2>2 DEF WalkLeft
<1>2. CompileInv => WalkLeft \in Nat
  <2> SUFFICES ASSUME CompileInv PROVE WalkLeft \in Nat
    OBVIOUS
  <2>1. PICK s \in Nat, m \in Nat, i \in Nat :
          s = Len(stack) /\ m = Len(schema) /\ i = next /\ i <= m + 1
    BY SchemasAssumption DEF CompileInv, TypeOK
  <2> QED
    BY <2>1 DEF WalkLeft
<1>3. CompileInv /\ CompileInv' /\ [Next]_vars => [WalkLeft' < WalkLeft]_vars
  BY WalkRunsDown
<1> QED
  BY <1>1, <1>2, <1>3, Invariance, PTL DEF Spec

-----------------------------------------------------------------------------
(***************************************************************************)
(* Decimals.  Induction up to n, for a set instead of a predicate.         *)
(***************************************************************************)
LEMMA LeastOf ==
  ASSUME NEW S \in SUBSET Nat, S # {}
  PROVE  Min(S) \in S /\ \A n \in S : Min(S) <= n
<1> DEFINE Less == OpToRel(<, Nat)
<1>1. \A a, b \in Nat : a < b => <<a, b>> \in Less
  BY DEF OpToRel
<1>2. IsWellFoundedOn(Less, Nat)
  BY NatLessThanWellFounded
<1> HIDE DEF Less
<1>3. PICK m \in S : \A n \in S : <<n, m>> \notin Less
  BY <1>2, WFMin
<1>4. \A n \in S : m <= n
  <2> TAKE n \in S
  <2>1. ~(n < m)
    BY <1>1, <1>3
  <2> QED
    BY <2>1
<1>5. \E k \in S : \A n \in S : k <= n
  BY <1>4
<1> QED
  BY <1>5 DEF Min

LEMMA UpTo ==
  ASSUME NEW n \in Nat, NEW S, 0 \in S, \A i \in 1 .. n : i - 1 \in S => i \in S
  PROVE  \A i \in 0 .. n : i \in S
<1> DEFINE T == {i \in 0 .. n : i \notin S}
<1> SUFFICES ASSUME T # {} PROVE FALSE
  OBVIOUS
<1>1. T \in SUBSET Nat
  OBVIOUS
<1> HIDE DEF T
<1>2. PICK m : m = Min(T)
  OBVIOUS
<1>3. m \in T /\ \A i \in T : m <= i
  BY <1>1, <1>2, LeastOf
<1>4. m \in 0 .. n /\ m \notin S
  BY <1>3 DEF T
<1>5. m # 0
  BY <1>4
<1>6. m \in 1 .. n /\ m - 1 \in 0 .. n /\ ~(m <= m - 1)
  BY <1>4, <1>5
<1>7. m - 1 \in S
  BY <1>3, <1>6 DEF T
<1> QED
  BY <1>4, <1>6, <1>7

-----------------------------------------------------------------------------
(***************************************************************************)
(* The powers of two, and of the radix.                                    *)
(***************************************************************************)
\* The bits of the longest number.
MaxBits == Bits * (MaxLength + 1)

LEMMA PowerFacts ==
  /\ MaxBits \in Nat
  /\ Power[0] = 1
  /\ \A n \in 0 .. MaxBits : Power[n] \in Nat \ {0}
  /\ \A n \in 1 .. MaxBits : Power[n] = 2 * Power[n - 1]
<1>1. Bits \in Nat /\ MaxLength + 1 \in Nat
  BY DecimalAssumption
<1>2. MaxBits \in Nat
  <2>1. \A a, b \in Nat : a * b \in Nat
    OBVIOUS
  <2> QED
    BY <1>1, <2>1 DEF MaxBits
<1>3. /\ Power \in [0 .. MaxBits -> Nat] /\ Power[0] = 1
      /\ \A n \in 1 .. MaxBits : Power[n] = 2 * Power[n - 1]
  BY DecimalAssumption DEF MaxBits
<1> DEFINE S == {n \in 0 .. MaxBits : Power[n] # 0}
<1>4. 0 \in S
  BY <1>2, <1>3
<1>5. \A n \in 1 .. MaxBits : n - 1 \in S => n \in S
  <2> SUFFICES ASSUME NEW n \in 1 .. MaxBits, n - 1 \in S PROVE n \in S
    OBVIOUS
  <2>1. n \in 0 .. MaxBits /\ n - 1 \in 0 .. MaxBits
    BY <1>2
  <2>2. Power[n] = 2 * Power[n - 1] /\ Power[n - 1] \in Nat /\ Power[n - 1] # 0
    BY <1>3, <2>1
  <2> QED
    BY <2>1, <2>2
<1> HIDE DEF S
<1>6. \A n \in 0 .. MaxBits : n \in S
  BY <1>2, <1>4, <1>5, UpTo
<1> QED
  BY <1>2, <1>3, <1>6 DEF S

LEMMA PowerAdds ==
  ASSUME NEW i \in Nat, NEW j \in Nat, i + j <= MaxBits
  PROVE  Power[i + j] = Power[i] * Power[j]
<1>0. MaxBits \in Nat /\ i \in 0 .. MaxBits /\ j \in 0 .. MaxBits
  BY PowerFacts
<1> DEFINE S == {n \in 0 .. j : Power[i + n] = Power[i] * Power[n]}
<1>1. 0 \in S
  <2>1. Power[i] \in Nat /\ Power[0] = 1 /\ i + 0 = i
    BY <1>0, PowerFacts
  <2> QED
    BY <1>0, <2>1
<1>2. \A n \in 1 .. j : n - 1 \in S => n \in S
  <2> SUFFICES ASSUME NEW n \in 1 .. j, n - 1 \in S PROVE n \in S
    OBVIOUS
  <2>1. i + n \in 1 .. MaxBits /\ n \in 1 .. MaxBits /\ (i + n) - 1 = i + (n - 1)
        /\ n - 1 \in 0 .. MaxBits /\ n \in 0 .. j
    BY <1>0
  <2>2. Power[i + n] = 2 * Power[i + (n - 1)] /\ Power[n] = 2 * Power[n - 1]
    BY <2>1, PowerFacts
  <2>3. Power[i + (n - 1)] = Power[i] * Power[n - 1]
    OBVIOUS
  <2>4. PICK a \in Nat, b \in Nat : a = Power[i] /\ b = Power[n - 1]
    BY <1>0, <2>1, PowerFacts
  <2>5. Power[i + n] = 2 * (a * b) /\ Power[i] * Power[n] = a * (2 * b)
    BY <2>2, <2>3, <2>4
  <2>6. \A x, y \in Nat : 2 * (x * y) = x * (2 * y)
    OBVIOUS
  <2> QED
    BY <2>1, <2>4, <2>5, <2>6
<1> HIDE DEF S
<1>3. \A n \in 0 .. j : n \in S
  BY <1>1, <1>2, UpTo
<1> QED
  BY <1>3 DEF S

LEMMA PowerGrows ==
  ASSUME NEW i \in Nat, NEW j \in Nat, i <= j, j <= MaxBits
  PROVE  Power[i] <= Power[j]
<1>1. i \in 0 .. MaxBits /\ j - i \in 0 .. MaxBits /\ i + (j - i) = j /\ j - i \in Nat
  BY PowerFacts
<1>2. Power[j] = Power[i] * Power[j - i]
  BY <1>1, PowerAdds
<1>3. PICK a \in Nat, b \in Nat \ {0} : a = Power[i] /\ b = Power[j - i]
  BY <1>1, PowerFacts
<1>4. a * (b - 1) \in Nat /\ a * b = a + a * (b - 1)
  OBVIOUS
<1> QED
  BY <1>2, <1>3, <1>4

\* The digits of the radix.
Digits == 0 .. Radix - 1

LEMMA RadixFacts ==
  /\ Bits \in Nat \ {0, 1} /\ MaxLength \in Nat \ {0}
  /\ Radix \in Nat \ {0, 1} /\ Sign \in Nat \ {0} /\ Radix = 2 * Sign
  /\ Sign = Power[Bits - 1]
<1>1. Bits \in Nat /\ Bits >= 2 /\ MaxLength \in Nat /\ MaxLength >= 1
  BY DecimalAssumption
<1>2. Bits <= MaxBits
  <2>1. \A a, b \in Nat : a * (b + 1) = a * b + a /\ a * b \in Nat
    OBVIOUS
  <2> QED
    BY <1>1, <2>1 DEF MaxBits
<1>3. Bits \in 1 .. MaxBits /\ Bits - 1 \in 0 .. MaxBits
  BY <1>1, <1>2, PowerFacts
<1>4. Power[Bits] = 2 * Power[Bits - 1] /\ Power[Bits - 1] \in Nat \ {0}
  BY <1>3, PowerFacts
<1>5. Radix = 2 * Power[Bits - 1]
  BY <1>4 DEF Radix
<1>6. PICK h \in Nat \ {0} : h = Power[Bits - 1]
  BY <1>4
<1>7. (2 * h) \div 2 = h
  OBVIOUS
<1>8. Sign = h
  BY <1>5, <1>6, <1>7 DEF Sign
<1>9. Radix = 2 * h
  BY <1>5, <1>6
<1>10. 2 * h \in Nat \ {0, 1}
  OBVIOUS
<1>11. Radix \in Nat \ {0, 1}
  BY <1>9, <1>10
<1>12. Radix = 2 * Sign /\ Sign = Power[Bits - 1] /\ Sign \in Nat \ {0}
  BY <1>6, <1>8, <1>9
<1> QED
  BY <1>1, <1>11, <1>12

LEMMA BeyondFacts ==
  /\ Beyond(0) = 1
  /\ \A n \in 0 .. MaxLength + 1 :
       /\ Bits * n \in 0 .. MaxBits /\ Beyond(n) \in Nat \ {0} /\ Beyond(n) = Power[Bits * n]
  /\ \A n \in 1 .. MaxLength + 1 :
       /\ Beyond(n) = Radix * Beyond(n - 1) /\ Beyond(n) = 2 * (Sign * Beyond(n - 1))
       /\ Bits * n = Bits * (n - 1) + Bits
       /\ Sign * Beyond(n - 1) = Power[Bits * n - 1]
<1>1. Bits \in Nat /\ Bits >= 2 /\ MaxLength \in Nat
  BY RadixFacts
<1>2. \A a, b, c \in Nat : b <= c => a * b \in Nat /\ a * b <= a * c
  <2> SUFFICES ASSUME NEW a \in Nat, NEW b \in Nat, NEW c \in Nat, b <= c
               PROVE  a * b \in Nat /\ a * b <= a * c
    OBVIOUS
  <2>1. a * (c - b) \in Nat /\ a * c = a * b + a * (c - b)
    OBVIOUS
  <2> QED
    BY <2>1
<1>3. \A n \in 0 .. MaxLength + 1 : Bits * n \in 0 .. MaxBits
  <2> SUFFICES ASSUME NEW n \in 0 .. MaxLength + 1 PROVE Bits * n \in 0 .. MaxBits
    OBVIOUS
  <2>1. n \in Nat /\ MaxLength + 1 \in Nat /\ n <= MaxLength + 1
    BY <1>1
  <2>2. Bits * n \in Nat /\ Bits * n <= MaxBits
    BY <1>1, <1>2, <2>1 DEF MaxBits
  <2> QED
    BY <2>2, PowerFacts
<1>4. Bits * 0 = 0
  BY <1>1
<1>5. \A n \in 0 .. MaxLength + 1 : Beyond(n) \in Nat \ {0} /\ Beyond(n) = Power[Bits * n]
  BY <1>3, PowerFacts DEF Beyond
<1>6. ASSUME NEW n \in 1 .. MaxLength + 1
      PROVE  /\ Beyond(n) = Radix * Beyond(n - 1) /\ Beyond(n) = 2 * (Sign * Beyond(n - 1))
             /\ Bits * n = Bits * (n - 1) + Bits
             /\ Sign * Beyond(n - 1) = Power[Bits * n - 1]
  <2>1. n \in 0 .. MaxLength + 1 /\ n - 1 \in 0 .. MaxLength + 1 /\ n - 1 \in Nat
    BY <1>1
  <2>2. \A a, b \in Nat : a * (b + 1) = a * b + a
    OBVIOUS
  <2>3. Bits * n = Bits * (n - 1) + Bits
    BY <1>1, <2>1, <2>2
  <2>4. PICK low \in Nat : low = Bits * (n - 1)
    BY <1>3, <2>1
  <2>5. low + Bits <= MaxBits /\ low + (Bits - 1) <= MaxBits /\ Bits - 1 \in Nat
    BY <1>1, <1>3, <2>1, <2>3, <2>4, PowerFacts
  <2>6. Power[low + Bits] = Power[low] * Power[Bits] /\ Power[low + (Bits - 1)] = Power[low] * Power[Bits - 1]
    BY <1>1, <2>4, <2>5, PowerAdds
  <2>7. PICK b \in Nat, h \in Nat : b = Beyond(n - 1) /\ h = Sign
    BY <1>5, <2>1, RadixFacts
  <2>8. Power[low] = b /\ Power[Bits] = 2 * h /\ Power[Bits - 1] = h /\ Radix = 2 * h
    BY <1>5, <2>1, <2>4, <2>7, RadixFacts DEF Radix
  <2>9. Beyond(n) = b * (2 * h)
    BY <1>5, <2>1, <2>3, <2>4, <2>6, <2>8
  <2>10. Power[Bits * n - 1] = b * h
    <3>1. Bits * n - 1 = low + (Bits - 1)
      BY <1>1, <2>3, <2>4
    <3> QED
      BY <2>6, <2>8, <3>1
  <2>11. \A x, y \in Nat : x * (2 * y) = (2 * y) * x /\ x * (2 * y) = 2 * (y * x) /\ x * y = y * x
    OBVIOUS
  <2> QED
    BY <2>3, <2>7, <2>8, <2>9, <2>10, <2>11
<1> QED
  BY <1>3, <1>4, <1>5, <1>6, PowerFacts DEF Beyond

\* The bound on the values under test.
LEMMA BoundFacts ==
  /\ Bound \in Nat
  /\ \A v \in -Bound .. Bound : v \in Int /\ Magnitude(v) \in 0 .. Bound
<1>1. MaxLength \in 1 .. MaxLength + 1 /\ MaxLength - 1 \in 0 .. MaxLength + 1
  BY RadixFacts
<1>2. Power[Bits * MaxLength - 1] = Sign * Beyond(MaxLength - 1)
  BY <1>1, BeyondFacts
<1>3. \A x, y \in Nat : x * y \in Nat
  OBVIOUS
<1>4. Power[Bits * MaxLength - 1] \in Nat
  BY <1>1, <1>2, <1>3, RadixFacts, BeyondFacts
<1>5. Bound \in Nat
  BY <1>4, Zenon DEF Bound
<1> QED
  BY <1>5 DEF Magnitude

-----------------------------------------------------------------------------
(***************************************************************************)
(* big.Int.SetBytes as a path of values, one for each byte read.           *)
(***************************************************************************)
LEMMA SetBytesPath ==
  ASSUME NEW b \in Seq(Digits)
  PROVE  \E value :
           /\ value[0] = 0 /\ SetBytes(b) = value[Len(b)]
           /\ \A n \in 1 .. Len(b) : value[n] = value[n - 1] * Radix + b[n]
           /\ \A n \in 0 .. Len(b) : value[n] \in Nat
<1> DEFINE L == Len(b)
           digit(n) == b[n]
           shifted(x, n) == x * Radix + b[n]
           Loop(f, m) == f = [n \in 0 .. m |-> IF n = 0 THEN 0 ELSE shifted(f[n - 1], n)]
           value == CHOOSE f : Loop(f, L)
<1>1. L \in Nat
  OBVIOUS
<1>2. \A n \in 1 .. L : digit(n) \in Nat
  <2>1. Digits \subseteq Nat
    BY RadixFacts DEF Digits
  <2>2. \A n \in 1 .. L : b[n] \in Digits
    OBVIOUS
  <2> QED
    BY <2>1, <2>2
<1>3. \A n \in 1 .. L : \A x \in Nat : shifted(x, n) \in Nat
  <2>1. \A x, r, d \in Nat : x * r + d \in Nat
    OBVIOUS
  <2> QED
    BY <1>2, <2>1, RadixFacts
<1>4. SetBytes(b) = value[L]
  BY DEF SetBytes
<1>5. \A n \in 1 .. L : \A x : shifted(x, n) = x * Radix + b[n]
  OBVIOUS
<1> HIDE DEF L, digit, shifted
<1> DEFINE T == {m \in 0 .. L : \E f : Loop(f, m)}
<1>6. 0 \in T
  <2> DEFINE f0 == [n \in 0 .. 0 |-> 0]
  <2>1. Loop(f0, 0)
    OBVIOUS
  <2> HIDE DEF Loop, f0
  <2>2. 0 \in 0 .. L
    BY <1>1
  <2> QED
    BY <2>1, <2>2
<1>7. \A m \in 1 .. L : m - 1 \in T => m \in T
  <2> SUFFICES ASSUME NEW m \in 1 .. L, m - 1 \in T PROVE m \in T
    OBVIOUS
  <2>1. PICK f : Loop(f, m - 1)
    OBVIOUS
  <2> DEFINE g == [n \in 0 .. m |-> IF n = 0 THEN 0 ELSE shifted(f[n - 1], n)]
  <2>2. \A n \in 0 .. m - 1 : g[n] = f[n]
    BY <2>1, <1>1
  <2>3. \A n \in 0 .. m : n # 0 => n - 1 \in 0 .. m - 1
    BY <1>1
  <2>4. g = [n \in 0 .. m |-> IF n = 0 THEN 0 ELSE shifted(f[n - 1], n)]
    OBVIOUS
  <2> HIDE DEF g
  <2>5. \A n \in 0 .. m : n # 0 => g[n - 1] = f[n - 1]
    BY <2>2, <2>3
  <2>6. Loop(g, m)
    BY <2>4, <2>5
  <2> HIDE DEF Loop
  <2>7. m \in 0 .. L
    BY <1>1
  <2> QED
    BY <2>6, <2>7
<1> HIDE DEF T
<1>8. L \in T
  <2>1. \A m \in 0 .. L : m \in T
    BY <1>1, <1>6, <1>7, UpTo
  <2> QED
    BY <1>1, <2>1
<1>9. Loop(value, L)
  <2> HIDE DEF Loop
  <2>1. \E f : Loop(f, L)
    BY <1>8 DEF T
  <2> QED
    BY <2>1
<1>10. \A n \in 0 .. L : value[n] = IF n = 0 THEN 0 ELSE shifted(value[n - 1], n)
  <2> HIDE DEF value
  <2> QED
    BY <1>9
<1> HIDE DEF value
<1>11. value[0] = 0
  BY <1>1, <1>10
<1>12. \A n \in 1 .. L : value[n] = shifted(value[n - 1], n)
  BY <1>1, <1>10
<1> DEFINE N == {n \in 0 .. L : value[n] \in Nat}
<1>13. 0 \in N
  BY <1>1, <1>11
<1>14. \A n \in 1 .. L : n - 1 \in N => n \in N
  <2> SUFFICES ASSUME NEW n \in 1 .. L, n - 1 \in N PROVE n \in N
    OBVIOUS
  <2>1. value[n] \in Nat
    BY <1>3, <1>12
  <2> QED
    BY <1>1, <2>1
<1> HIDE DEF N
<1>15. \A n \in 0 .. L : n \in N
  BY <1>1, <1>13, <1>14, UpTo
<1>16. \A n \in 0 .. L : value[n] \in Nat
  BY <1>15 DEF N
<1>17. \A n \in 1 .. L : value[n] = value[n - 1] * Radix + b[n]
  BY <1>5, <1>12
<1> QED
  BY <1>4, <1>11, <1>16, <1>17 DEF L

\* A quotient is the next one, times the radix, and a digit.
LEMMA DivStep ==
  ASSUME NEW u \in Nat, NEW w \in Nat \ {0}, NEW r \in Nat \ {0}
  PROVE  u \div w = (u \div (r * w)) * r + ((u \div w) % r)
<1> DEFINE q == u \div w
           p == q \div r
           g == q % r
           d == r * w
           k == u \div d
<1>1. q \in Nat /\ w * q <= u /\ u < w * q + w
  OBVIOUS
<1>2. p \in Nat /\ g \in 0 .. (r - 1) /\ q = r * p + g
  BY <1>1
<1>3. d \in Nat \ {0}
  <2>1. \A x, y \in Nat \ {0} : x * y \in Nat \ {0}
    OBVIOUS
  <2> QED
    BY <2>1
<1>4. k \in Nat /\ d * k <= u /\ u < d * k + d
  <2> HIDE DEF d
  <2> QED
    BY <1>3
<1>5. r * p <= q /\ q < r * p + r
  <2> HIDE DEF q, p, g
  <2> QED
    BY <1>1, <1>2
<1>6. q + 1 <= r * p + r
  <2> HIDE DEF q, p, g
  <2> QED
    BY <1>1, <1>2, <1>5
<1>7. w * (r * p) <= w * q /\ w * (q + 1) <= w * (r * p + r)
  <2>1. \A x, y \in Nat : x <= y => w * x <= w * y
    <3> SUFFICES ASSUME NEW x \in Nat, NEW y \in Nat, x <= y PROVE w * x <= w * y
      OBVIOUS
    <3>1. w * (y - x) \in Nat /\ w * y = w * x + w * (y - x)
      OBVIOUS
    <3> QED
      BY <3>1
  <2>2. r * p \in Nat /\ r * p + r \in Nat
    <3> HIDE DEF p, q, g
    <3> QED
      BY <1>2
  <2> HIDE DEF q, p, g
  <2> QED
    BY <1>1, <1>5, <1>6, <2>1, <2>2
<1>8. d * p <= u /\ u < d * p + d
  <2> HIDE DEF q, p, g, d
  <2>1. d = r * w
    BY DEF d
  <2>2. \A x \in Nat : w * (r * x) = (r * w) * x /\ w * (r * x + r) = (r * w) * x + r * w
                     /\ w * (x + 1) = w * x + w
    OBVIOUS
  <2>3. w * (r * p) = d * p /\ w * (r * p + r) = d * p + d /\ w * (q + 1) = w * q + w
    BY <1>1, <1>2, <2>1, <2>2
  <2>4. w * q \in Nat /\ d * p \in Nat
    <3>1. \A x, y \in Nat : x * y \in Nat
      OBVIOUS
    <3> QED
      BY <1>1, <1>2, <1>3, <3>1
  <2> QED
    BY <1>1, <1>3, <1>7, <2>3, <2>4
<1> HIDE DEF q, p, g, d, k
<1>9. k = p
  <2>1. \A x, y \in Nat : x < y => d * x + d <= d * y
    <3> SUFFICES ASSUME NEW x \in Nat, NEW y \in Nat, x < y PROVE d * x + d <= d * y
      OBVIOUS
    <3>1. d * (y - x - 1) \in Nat
      BY <1>3
    <3> QED
      BY <1>3, <3>1
  <2>2. \A x, y \in Nat : d * x \in Nat
    BY <1>3
  <2> QED
    BY <1>2, <1>3, <1>4, <1>8, <2>1, <2>2
<1>10. q = p * r + g
  BY <1>2
<1> QED
  BY <1>9, <1>10 DEF q, g, k, d

LEMMA TimesGrows ==
  ASSUME NEW w \in Nat
  PROVE  \A x, y \in Nat :
           /\ w * x \in Nat
           /\ x <= y => w * x <= w * y
           /\ x < y => w * x + w <= w * y
<1> SUFFICES ASSUME NEW x \in Nat, NEW y \in Nat
             PROVE  /\ w * x \in Nat
                    /\ x <= y => w * x <= w * y
                    /\ x < y => w * x + w <= w * y
  OBVIOUS
<1>1. w * x \in Nat
  OBVIOUS
<1>2. ASSUME x <= y PROVE w * x <= w * y
  <2>1. w * (y - x) \in Nat /\ w * y = w * x + w * (y - x)
    BY <1>2
  <2> QED
    BY <1>1, <2>1
<1>3. ASSUME x < y PROVE w * x + w <= w * y
  <2>1. w * (y - x - 1) \in Nat /\ w * y = w * x + w + w * (y - x - 1)
    BY <1>3
  <2> QED
    BY <1>1, <2>1
<1> QED
  BY <1>1, <1>2, <1>3

-----------------------------------------------------------------------------
(***************************************************************************)
(* What a big-endian number reads back as, and what its first bit says.    *)
(***************************************************************************)
LEMMA BigEndianValue ==
  ASSUME NEW n \in 1 .. MaxLength + 1, NEW m \in Nat, m < Beyond(n)
  PROVE  /\ BigEndian(m, n) \in Seq(Digits) /\ Len(BigEndian(m, n)) = n
         /\ SetBytes(BigEndian(m, n)) = m
         /\ BigEndian(m, n)[1] >= Sign <=> m >= Sign * Beyond(n - 1)
<1> DEFINE b == BigEndian(m, n)
<1>1. n \in Nat /\ n # 0 /\ MaxLength + 1 \in Nat /\ n <= MaxLength + 1
  BY RadixFacts
<1>2. Radix \in Nat \ {0}
  BY RadixFacts
<1>3. \A i \in 0 .. n : n - i \in 0 .. MaxLength + 1 /\ Beyond(n - i) \in Nat \ {0}
  <2>1. \A i \in 0 .. n : n - i \in 0 .. MaxLength + 1
    BY <1>1
  <2> QED
    BY <2>1, BeyondFacts
<1>4. \A i \in 1 .. n : b[i] = (m \div Beyond(n - i)) % Radix
  BY DEF BigEndian
<1>5. \A i \in 1 .. n : b[i] \in Digits
  <2> SUFFICES ASSUME NEW i \in 1 .. n PROVE b[i] \in Digits
    OBVIOUS
  <2>1. PICK w \in Nat \ {0} : w = Beyond(n - i)
    BY <1>1, <1>3
  <2>2. PICK q \in Nat : q = m \div w
    OBVIOUS
  <2>3. q % Radix \in 0 .. Radix - 1
    BY <1>2
  <2> QED
    BY <1>4, <2>1, <2>2, <2>3 DEF Digits
<1>6. b \in Seq(Digits) /\ Len(b) = n
  <2>1. b = [i \in 1 .. n |-> (m \div Beyond(n - i)) % Radix]
    BY DEF BigEndian
  <2> HIDE DEF b
  <2>2. b \in [1 .. n -> Digits]
    BY <1>5, <2>1
  <2> QED
    BY <1>1, <2>2
<1> HIDE DEF b
<1>7. PICK value :
        /\ value[0] = 0 /\ SetBytes(b) = value[Len(b)]
        /\ \A i \in 1 .. Len(b) : value[i] = value[i - 1] * Radix + b[i]
        /\ \A i \in 0 .. Len(b) : value[i] \in Nat
  BY <1>6, SetBytesPath
<1> DEFINE S == {i \in 0 .. n : value[i] = m \div Beyond(n - i)}
<1>8. 0 \in S
  <2>1. \A w \in Nat : m < w => m \div w = 0
    OBVIOUS
  <2>2. n - 0 = n /\ Beyond(n) \in Nat
    BY <1>1, BeyondFacts
  <2> QED
    BY <1>1, <1>7, <2>1, <2>2
<1>9. \A i \in 1 .. n : i - 1 \in S => i \in S
  <2> SUFFICES ASSUME NEW i \in 1 .. n, i - 1 \in S PROVE i \in S
    OBVIOUS
  <2>1. i \in 0 .. n /\ i - 1 \in 0 .. n /\ n - (i - 1) \in 1 .. MaxLength + 1
        /\ (n - (i - 1)) - 1 = n - i
    BY <1>1
  <2>2. PICK w \in Nat \ {0} : w = Beyond(n - i)
    BY <1>3, <2>1
  <2>3. Beyond(n - (i - 1)) = Radix * w
    BY <2>1, <2>2, BeyondFacts
  <2>4. m \div w = (m \div (Radix * w)) * Radix + ((m \div w) % Radix)
    BY <1>2, DivStep
  <2>5. value[i - 1] = m \div (Radix * w)
    BY <2>3
  <2>6. value[i] = value[i - 1] * Radix + ((m \div w) % Radix)
    BY <1>4, <1>6, <1>7, <2>2
  <2>7. value[i] = m \div Beyond(n - i)
    BY <2>2, <2>4, <2>5, <2>6
  <2> QED
    BY <2>1, <2>7
<1> HIDE DEF S
<1>10. \A i \in 0 .. n : i \in S
  BY <1>1, <1>8, <1>9, UpTo
<1>11. \A i \in 0 .. n : value[i] = m \div Beyond(n - i)
  BY <1>10 DEF S
<1>12. SetBytes(b) = m
  <2>1. n \in 0 .. n /\ n - n = 0 /\ m \div 1 = m
    BY <1>1
  <2> QED
    BY <1>6, <1>7, <1>11, <2>1, BeyondFacts
<1>13. b[1] >= Sign <=> m >= Sign * Beyond(n - 1)
  <2>1. 1 \in 0 .. n /\ 1 \in 1 .. n /\ 1 - 1 = 0
    BY <1>1
  <2>2. PICK w \in Nat \ {0} : w = Beyond(n - 1)
    BY <1>3, <2>1
  <2>3. PICK d \in Nat : d = b[1]
    BY <1>2, <1>5, <2>1 DEF Digits
  <2>4. value[1] = 0 * Radix + d
    BY <1>6, <1>7, <2>1, <2>3
  <2>5. 0 * Radix + d = d
    BY <1>2
  <2>6. d = m \div w
    BY <1>11, <2>1, <2>2, <2>4, <2>5
  <2>7. PICK h \in Nat : h = Sign
    BY RadixFacts
  <2>8. w * d <= m /\ m < w * d + w
    BY <2>6
  <2>9. \A x, y \in Nat : w * x \in Nat /\ (x <= y => w * x <= w * y) /\ (x < y => w * x + w <= w * y)
    BY TimesGrows
  <2>10. d >= h <=> m >= w * h
    BY <2>8, <2>9
  <2>11. w * h = h * w
    OBVIOUS
  <2> QED
    BY <2>2, <2>3, <2>7, <2>10, <2>11
<1> QED
  BY <1>6, <1>12, <1>13 DEF b

(***************************************************************************)
(* What padding does to the number read.                                   *)
(***************************************************************************)
LEMMA PaddedValue ==
  ASSUME NEW b \in Seq(Digits), NEW k \in Nat, k + Len(b) <= MaxLength + 1,
         NEW pad \in {0, Radix - 1}
  PROVE  /\ [i \in 1 .. k |-> pad] \o b \in Seq(Digits)
         /\ Len([i \in 1 .. k |-> pad] \o b) = k + Len(b)
         /\ SetBytes([i \in 1 .. k |-> pad] \o b)
              = SetBytes(b) + (IF pad = 0 THEN 0 ELSE Beyond(k + Len(b)) - Beyond(Len(b)))
<1> DEFINE front == [i \in 1 .. k |-> pad]
           c == front \o b
           L == Len(b)
           Extra(j) == IF pad = 0 THEN 0 ELSE Beyond(k + j) - Beyond(j)
<1>1. L \in Nat /\ Radix \in Nat \ {0, 1} /\ pad \in Digits /\ pad \in Nat /\ MaxLength + 1 \in Nat
  BY RadixFacts DEF Digits
<1>2. front \in Seq(Digits) /\ Len(front) = k /\ \A i \in 1 .. k : front[i] = pad
  <2>1. front \in [1 .. k -> Digits]
    BY <1>1
  <2> QED
    BY <2>1
<1> HIDE DEF front
<1>3. c \in Seq(Digits) /\ Len(c) = k + L
  BY <1>2
<1>4. /\ \A i \in 1 .. k : c[i] = pad
      /\ \A j \in 1 .. L : c[k + j] = b[j]
  <2>1. \A i \in 1 .. k : c[i] = pad
    BY <1>2
  <2>2. \A j \in 1 .. L : c[k + j] = b[j]
    <3> TAKE j \in 1 .. L
    <3>1. k + j > k /\ k + j \in 1 .. k + L /\ (k + j) - k = j
      BY <1>1
    <3> QED
      BY <1>2, <3>1
  <2> QED
    BY <2>1, <2>2
<1> HIDE DEF c
<1>5. PICK vb :
        /\ vb[0] = 0 /\ SetBytes(b) = vb[Len(b)]
        /\ \A n \in 1 .. Len(b) : vb[n] = vb[n - 1] * Radix + b[n]
        /\ \A n \in 0 .. Len(b) : vb[n] \in Nat
  BY SetBytesPath
<1>6. PICK vc :
        /\ vc[0] = 0 /\ SetBytes(c) = vc[Len(c)]
        /\ \A n \in 1 .. Len(c) : vc[n] = vc[n - 1] * Radix + c[n]
        /\ \A n \in 0 .. Len(c) : vc[n] \in Nat
  BY <1>3, SetBytesPath
<1>7. L = Len(b)
  OBVIOUS
<1> HIDE DEF L
<1> DEFINE S == {i \in 0 .. k : vc[i] = IF pad = 0 THEN 0 ELSE Beyond(i) - 1}
<1>8. 0 \in S
  BY <1>6, BeyondFacts
<1>9. \A i \in 1 .. k : i - 1 \in S => i \in S
  <2> SUFFICES ASSUME NEW i \in 1 .. k, i - 1 \in S PROVE i \in S
    OBVIOUS
  <2>1. i \in 0 .. k /\ i \in 1 .. MaxLength + 1 /\ i \in 1 .. k + L /\ i - 1 \in 0 .. MaxLength + 1
    BY <1>1, <1>7
  <2>2. vc[i] = vc[i - 1] * Radix + pad
    BY <1>3, <1>4, <1>6, <2>1
  <2>3. PICK w \in Nat \ {0} : w = Beyond(i - 1)
    BY <2>1, BeyondFacts
  <2>4. PICK r \in Nat : r = Radix
    BY <1>1
  <2>5. Beyond(i) = r * w
    BY <2>1, <2>3, <2>4, BeyondFacts
  <2>6. CASE pad = 0
    <3>1. vc[i - 1] = 0 /\ 0 * r + 0 = 0
      BY <2>6
    <3> QED
      BY <2>1, <2>2, <2>4, <2>6, <3>1
  <2>7. CASE pad # 0
    <3>1. pad = r - 1
      BY <2>4, <2>7
    <3>2. vc[i - 1] = w - 1
      BY <2>3, <2>7
    <3>3. (w - 1) * r + (r - 1) = r * w - 1
      OBVIOUS
    <3> QED
      BY <2>1, <2>2, <2>4, <2>5, <2>7, <3>1, <3>2, <3>3
  <2> QED
    BY <2>6, <2>7
<1> HIDE DEF S
<1>10. \A i \in 0 .. k : i \in S
  BY <1>8, <1>9, UpTo
<1>11. vc[k] = IF pad = 0 THEN 0 ELSE Beyond(k) - 1
  BY <1>10 DEF S
<1> DEFINE T == {j \in 0 .. L : vc[k + j] = vb[j] + Extra(j)}
<1>12. 0 \in T
  <2>1. k + 0 = k /\ Beyond(0) = 1 /\ 0 \in 0 .. L /\ k \in 0 .. MaxLength + 1
    BY <1>1, <1>7, BeyondFacts
  <2>2. PICK x \in Nat : x = Beyond(k)
    BY <2>1, BeyondFacts
  <2> QED
    BY <1>5, <1>11, <2>1, <2>2
<1>13. \A j \in 1 .. L : j - 1 \in T => j \in T
  <2> SUFFICES ASSUME NEW j \in 1 .. L, j - 1 \in T PROVE j \in T
    OBVIOUS
  <2>1. /\ j \in 0 .. L /\ j - 1 \in 0 .. L
        /\ k + j \in 1 .. k + L /\ (k + j) - 1 = k + (j - 1)
        /\ k + j \in 1 .. MaxLength + 1 /\ j \in 1 .. MaxLength + 1
        /\ k + (j - 1) \in 0 .. MaxLength + 1 /\ j - 1 \in 0 .. MaxLength + 1
    BY <1>1, <1>7
  <2>2. vc[k + j] = vc[k + (j - 1)] * Radix + b[j]
    BY <1>3, <1>4, <1>6, <2>1
  <2>3. vb[j] = vb[j - 1] * Radix + b[j]
    BY <1>5, <1>7
  <2>4. vc[k + (j - 1)] = vb[j - 1] + Extra(j - 1)
    OBVIOUS
  <2>5. PICK y \in Nat, r \in Nat : y = vb[j - 1] /\ r = Radix
    BY <1>1, <1>5, <1>7, <2>1
  <2>6. PICK d \in Nat : d = b[j]
    BY <1>1, <1>7 DEF Digits
  <2>7. PICK u \in Nat, w \in Nat : u = Beyond(k + (j - 1)) /\ w = Beyond(j - 1)
    BY <2>1, BeyondFacts
  <2>8. Beyond(k + j) = r * u /\ Beyond(j) = r * w
    BY <2>1, <2>5, <2>7, BeyondFacts
  <2>9. CASE pad = 0
    <3>1. (y + 0) * r + d = (y * r + d) + 0
      OBVIOUS
    <3> QED
      BY <2>1, <2>2, <2>3, <2>4, <2>5, <2>6, <2>9, <3>1
  <2>10. CASE pad # 0
    <3>1. Extra(j - 1) = u - w /\ Extra(j) = r * u - r * w
      BY <2>7, <2>8, <2>10
    <3>2. (y + (u - w)) * r + d = (y * r + d) + (r * u - r * w)
      OBVIOUS
    <3> HIDE DEF Extra
    <3> QED
      BY <2>1, <2>2, <2>3, <2>4, <2>5, <2>6, <3>1, <3>2
  <2> QED
    BY <2>9, <2>10
<1> HIDE DEF T
<1>14. \A j \in 0 .. L : j \in T
  BY <1>1, <1>12, <1>13, UpTo
<1>15. vc[k + L] = vb[L] + Extra(L)
  <2>1. L \in 0 .. L
    BY <1>1
  <2> QED
    BY <1>14, <2>1 DEF T
<1>16. SetBytes(c) = SetBytes(b) + Extra(L)
  BY <1>3, <1>5, <1>6, <1>7, <1>15
<1> QED
  BY <1>3, <1>7, <1>16 DEF c, front

-----------------------------------------------------------------------------
(***************************************************************************)
(* The bits and the bytes of a magnitude.                                  *)
(***************************************************************************)
LEMMA BitsOfMagnitude ==
  ASSUME NEW m \in 1 .. Bound
  PROVE  /\ BitLen(m) \in 1 .. Bits * MaxLength
         /\ m < Power[BitLen(m)]
         /\ \A n \in 0 .. MaxBits : m < Power[n] => BitLen(m) <= n
<1> DEFINE S == {n \in 0 .. MaxBits : m < Power[n]}
           top == Bits * MaxLength
<1>1. BitLen(m) = Min(S)
  BY DEF BitLen, MaxBits
<1>2. top \in 1 .. MaxBits
  <2>1. MaxLength \in 1 .. MaxLength + 1 /\ MaxLength \in 0 .. MaxLength + 1
        /\ MaxLength - 1 \in 0 .. MaxLength + 1
    BY RadixFacts
  <2>2. Bits * MaxLength \in 0 .. MaxBits /\ Bits * (MaxLength - 1) \in 0 .. MaxBits
        /\ Bits * MaxLength = Bits * (MaxLength - 1) + Bits
    BY <2>1, BeyondFacts
  <2>3. PICK low \in Nat : low = Bits * (MaxLength - 1)
    BY <2>2, PowerFacts
  <2> QED
    BY <2>2, <2>3, RadixFacts, PowerFacts
<1>3. Bound \in Nat /\ Bound <= Power[top - 1]
  <2>1. Power[top - 1] \in Nat
    BY <1>2, PowerFacts
  <2>2. Bound = Power[top - 1]
    BY Zenon DEF Bound
  <2> QED
    BY <2>1, <2>2
<1> HIDE DEF top
<1>4. top \in S
  <2>1. Power[top] = 2 * Power[top - 1] /\ Power[top - 1] \in Nat \ {0}
    BY <1>2, PowerFacts
  <2>2. m < Power[top]
    BY <1>3, <2>1
  <2> QED
    BY <1>2, <2>2, PowerFacts
<1>5. S \in SUBSET Nat
  BY PowerFacts
<1>6. Min(S) \in S /\ \A n \in S : Min(S) <= n
  <2> HIDE DEF S
  <2> QED
    BY <1>4, <1>5, LeastOf
<1>7. BitLen(m) \in S /\ \A n \in S : BitLen(m) <= n
  <2> HIDE DEF S
  <2> QED
    BY <1>1, <1>6
<1>8. BitLen(m) # 0
  <2>1. ~(m < 1)
    BY <1>3
  <2> QED
    BY <1>7, <2>1, PowerFacts
<1>9. BitLen(m) <= top
  <2> HIDE DEF S
  <2> QED
    BY <1>4, <1>7
<1>10. BitLen(m) \in 1 .. top
  <2>1. BitLen(m) \in 0 .. MaxBits
    BY <1>7
  <2> QED
    BY <1>2, <1>8, <1>9, <2>1, PowerFacts
<1>11. m < Power[BitLen(m)] /\ \A n \in 0 .. MaxBits : m < Power[n] => BitLen(m) <= n
  BY <1>7
<1> QED
  BY <1>10, <1>11 DEF top

LEMMA BytesOfMagnitude ==
  ASSUME NEW m \in 1 .. Bound
  PROVE  /\ ByteLen(m) \in 1 .. MaxLength
         /\ Bits * (ByteLen(m) - 1) < BitLen(m) /\ BitLen(m) <= Bits * ByteLen(m)
         /\ BitLen(m) % Bits = 0 <=> BitLen(m) = Bits * ByteLen(m)
<1>1. PICK l \in Nat : l = BitLen(m)
  <2>1. Bits * MaxLength \in Nat
    BY RadixFacts, TimesGrows
  <2> QED
    BY <2>1, BitsOfMagnitude
<1>2. PICK w \in Nat : w = Bits
  BY RadixFacts
<1>3. w >= 2 /\ l >= 1 /\ l <= w * MaxLength /\ MaxLength \in Nat /\ MaxLength >= 1
  <2>1. w * MaxLength \in Nat
    BY RadixFacts, TimesGrows
  <2> QED
    BY <1>1, <1>2, <2>1, BitsOfMagnitude, RadixFacts
<1>4. PICK n : n = ByteLen(m)
  OBVIOUS
<1>5. n = (l + w - 1) \div w
  BY <1>1, <1>2, <1>4 DEF ByteLen
<1>6. n \in Nat /\ w * n <= l + w - 1 /\ l + w - 1 < w * n + w
  <2>1. PICK s \in Nat : s = l + w - 1
    BY <1>3
  <2>2. n = s \div w
    BY <1>5, <2>1
  <2>3. n \in Nat /\ w * n <= s /\ s < w * n + w
    BY <1>3, <2>2
  <2> QED
    BY <2>1, <2>3
<1>7. \A x, y \in Nat :
        /\ w * x \in Nat
        /\ x <= y => w * x <= w * y
        /\ x < y => w * x + w <= w * y
  BY TimesGrows
<1>8. w * n \in Nat /\ w * MaxLength \in Nat
  BY <1>3, <1>6, <1>7
<1>9. l <= w * n /\ w * n < l + w
  BY <1>3, <1>6, <1>8
<1>10. n >= 1
  <2>1. w * 0 = 0
    OBVIOUS
  <2> QED
    BY <1>3, <1>6, <1>9, <2>1
<1>11. n <= MaxLength
  <2> SUFFICES ASSUME MaxLength < n PROVE FALSE
    BY <1>3, <1>6
  <2>1. w * MaxLength + w <= w * n
    BY <1>3, <1>6, <1>7
  <2> QED
    BY <1>3, <1>8, <1>9, <2>1
<1>12. w * (n - 1) < l
  <2>1. w * (n - 1) = w * n - w
    BY <1>6
  <2> QED
    BY <1>8, <1>9, <2>1
<1>13. l % w = 0 <=> l = w * n
  <2>1. PICK q \in Nat, r \in Nat : q = l \div w /\ r = l % w /\ l = w * q + r /\ r < w
    <3>1. l \div w \in Nat /\ l % w \in Nat /\ l = w * (l \div w) + (l % w) /\ l % w < w
      BY <1>3
    <3> QED
      BY <3>1
  <2>2. w * q \in Nat
    BY <1>7
  <2>3. ASSUME r = 0 PROVE l = w * n
    <3>1. ~(q < n)
      <4> SUFFICES ASSUME q < n PROVE FALSE
        OBVIOUS
      <4>1. w * q + w <= w * n
        BY <1>6, <1>7
      <4> QED
        BY <1>8, <1>9, <2>1, <2>2, <2>3, <4>1
    <3>2. ~(n < q)
      <4> SUFFICES ASSUME n < q PROVE FALSE
        OBVIOUS
      <4>1. w * n + w <= w * q
        BY <1>6, <1>7
      <4> QED
        BY <1>3, <1>8, <1>9, <2>1, <2>2, <2>3, <4>1
    <3>3. q = n
      BY <1>6, <3>1, <3>2
    <3> QED
      BY <1>8, <2>1, <2>3, <3>3
  <2>4. ASSUME l = w * n PROVE r = 0
    <3>0. PICK a \in Nat, c \in Nat : a = w * q /\ c = w * n
      BY <1>8, <2>2
    <3>4. l = a + r /\ l = c /\ r < w
      BY <2>1, <2>4, <3>0
    <3>1. ~(q < n)
      <4> SUFFICES ASSUME q < n PROVE FALSE
        OBVIOUS
      <4>1. w * q + w <= w * n
        BY <1>6, <1>7
      <4>2. a + w <= c
        BY <3>0, <4>1
      <4> QED
        BY <2>1, <3>4, <4>2
    <3>2. ~(n < q)
      <4> SUFFICES ASSUME n < q PROVE FALSE
        OBVIOUS
      <4>1. w * n + w <= w * q
        BY <1>6, <1>7
      <4>2. c + w <= a
        BY <3>0, <4>1
      <4> QED
        BY <1>3, <2>1, <3>4, <4>2
    <3>3. q = n
      BY <1>6, <3>1, <3>2
    <3> QED
      BY <1>8, <2>1, <2>4, <3>3
  <2> QED
    BY <2>1, <2>3, <2>4
<1>14. n \in 1 .. MaxLength
  BY <1>3, <1>6, <1>10, <1>11
<1> QED
  BY <1>1, <1>2, <1>4, <1>9, <1>12, <1>13, <1>14

(***************************************************************************)
(* The two lengths of twosComplementBytes: a number of so many bits fits   *)
(* its bytes, and a negative one leaves the first bit to the sign.         *)
(***************************************************************************)
LEMMA LengthsFit ==
  ASSUME NEW m \in 1 .. Bound
  PROVE  /\ m \in Nat /\ m # 0
         /\ ByteLen(m) \in 1 .. MaxLength /\ m < Beyond(ByteLen(m))
         /\ NegativeLen(m) \in 1 .. MaxLength + 1
         /\ m < Sign * Beyond(NegativeLen(m) - 1)
<1> DEFINE l == BitLen(m)
           n == ByteLen(m)
           g == NegativeLen(m)
<1>1. Bound \in Nat /\ MaxLength \in Nat /\ Bits \in Nat /\ Bits >= 2
  BY BoundFacts, RadixFacts
<1>2. m \in Nat /\ m # 0
  BY <1>1
<1>3. l \in Nat /\ m < Power[l] /\ n \in 1 .. MaxLength /\ Bits * (n - 1) < l /\ l <= Bits * n
      /\ (l % Bits = 0 <=> l = Bits * n)
  <2>1. Bits * MaxLength \in Nat
    BY <1>1, TimesGrows
  <2> QED
    BY <2>1, BitsOfMagnitude, BytesOfMagnitude
<1>4. g = IF l % Bits = 0 THEN n + 1 ELSE n
  BY DEF NegativeLen
<1> HIDE DEF l, n, g
<1>5. n \in 0 .. MaxLength + 1 /\ n \in 1 .. MaxLength + 1 /\ n + 1 \in 1 .. MaxLength + 1
      /\ n + 1 \in 0 .. MaxLength + 1
  BY <1>1, <1>3
<1>6. PICK bn \in Nat : bn = Bits * n
  <2>1. Bits * n \in 0 .. MaxBits
    BY <1>5, BeyondFacts
  <2> QED
    BY <2>1, PowerFacts
<1>7. bn <= MaxBits /\ Bits * (n + 1) = bn + Bits /\ bn + Bits <= MaxBits
  <2>1. bn \in 0 .. MaxBits
    BY <1>5, <1>6, BeyondFacts
  <2>2. Bits * (n + 1) \in 0 .. MaxBits /\ (n + 1) - 1 = n
    BY <1>5, <1>3, BeyondFacts
  <2>3. Bits * (n + 1) = Bits * n + Bits
    BY <1>5, <2>2, BeyondFacts
  <2> QED
    BY <1>1, <1>6, <2>1, <2>2, <2>3, PowerFacts
<1>8. m < Beyond(n)
  <2>1. l <= bn
    BY <1>3, <1>6
  <2>2. Power[l] <= Power[bn] /\ l \in 0 .. MaxBits /\ bn \in 0 .. MaxBits
    BY <1>3, <1>7, <2>1, PowerGrows, PowerFacts
  <2>3. Power[l] \in Nat /\ Power[bn] \in Nat
    BY <2>2, PowerFacts
  <2> QED
    BY <1>2, <1>3, <1>6, <2>2, <2>3 DEF Beyond
<1>9. g \in 1 .. MaxLength + 1
  BY <1>4, <1>5
<1>10. PICK room \in Nat : room = Bits * g - 1 /\ l <= room /\ room <= MaxBits
  <2>1. CASE l % Bits = 0
    <3>1. Bits * g - 1 = bn + Bits - 1
      BY <1>1, <1>4, <1>7, <2>1
    <3>2. l = bn
      BY <1>3, <1>6, <2>1
    <3>3. bn + Bits - 1 \in Nat /\ bn <= bn + Bits - 1 /\ bn + Bits - 1 <= MaxBits
      BY <1>1, <1>7, PowerFacts
    <3> QED
      BY <3>1, <3>2, <3>3
  <2>2. CASE ~(l % Bits = 0)
    <3>1. g = n
      BY <1>4, <2>2
    <3>2. l <= bn /\ l # bn
      BY <1>3, <1>6, <2>2
    <3>3. l <= bn - 1 /\ bn - 1 \in Nat /\ bn - 1 <= MaxBits
      BY <1>3, <1>7, <3>2, PowerFacts
    <3> QED
      BY <1>6, <3>1, <3>3
  <2> QED
    BY <2>1, <2>2
<1>11. m < Power[room]
  <2>1. Power[l] <= Power[room] /\ l \in 0 .. MaxBits /\ room \in 0 .. MaxBits
    BY <1>3, <1>10, PowerGrows, PowerFacts
  <2>2. Power[l] \in Nat /\ Power[room] \in Nat
    BY <2>1, PowerFacts
  <2> QED
    BY <1>2, <1>3, <2>1, <2>2
<1>12. m < Sign * Beyond(g - 1)
  BY <1>9, <1>10, <1>11, BeyondFacts
<1> QED
  BY <1>2, <1>3, <1>8, <1>9, <1>12 DEF n, g

-----------------------------------------------------------------------------
(***************************************************************************)
(* Bytes b that stand for v: their first bit is its sign, and below zero   *)
(* they count from the first number too long for them.                     *)
(***************************************************************************)
StandsFor(b, v) ==
  /\ b \in Seq(Digits) /\ Len(b) \in 1 .. MaxLength + 1
  /\ v \in Int /\ (b[1] >= Sign <=> v < 0)
  /\ SetBytes(b) = IF v < 0 THEN v + Beyond(Len(b)) ELSE v

LEMMA StandsForReads ==
  ASSUME NEW b, NEW v, StandsFor(b, v)
  PROVE  BytesToBigInt(b) = v
<1>1. b # << >> /\ Beyond(Len(b)) \in Nat /\ v \in Int
  <2>1. Len(b) \in 0 .. MaxLength + 1 /\ Len(b) # 0
    BY RadixFacts DEF StandsFor
  <2> QED
    BY <2>1, BeyondFacts DEF StandsFor
<1>2. CASE v < 0
  <2>1. b[1] >= Sign /\ SetBytes(b) = v + Beyond(Len(b))
    BY <1>2 DEF StandsFor
  <2>2. \A x \in Int, y \in Nat : (x + y) - y = x
    OBVIOUS
  <2>3. BytesToBigInt(b) = (v + Beyond(Len(b))) - Beyond(Len(b))
    BY <1>1, <2>1 DEF BytesToBigInt
  <2> QED
    BY <1>1, <2>2, <2>3
<1>3. CASE ~(v < 0)
  <2>1. ~(b[1] >= Sign) /\ SetBytes(b) = v
    BY <1>3 DEF StandsFor
  <2> QED
    BY <1>1, <2>1 DEF BytesToBigInt
<1> QED
  BY <1>2, <1>3

\* Padding with copies of the sign keeps the number.
LEMMA PaddedStandsFor ==
  ASSUME NEW b, NEW v, StandsFor(b, v), NEW s \in Nat, Len(b) <= s, s <= MaxLength + 1
  PROVE  /\ StandsFor(PadTwosComplement(b, s, v), v)
         /\ Len(PadTwosComplement(b, s, v)) = s
<1> DEFINE pad == IF v < 0 THEN Radix - 1 ELSE 0
           k == s - Len(b)
           front == [i \in 1 .. k |-> pad]
           c == front \o b
<1>1. c = PadTwosComplement(b, s, v)
  BY DEF PadTwosComplement
<1>2. b \in Seq(Digits) /\ Len(b) \in Nat /\ Len(b) # 0 /\ k \in Nat /\ k + Len(b) = s /\ v \in Int
  BY RadixFacts DEF StandsFor
<1>3. pad \in {0, Radix - 1} /\ (pad = 0 <=> ~(v < 0)) /\ pad \in Digits
      /\ (pad >= Sign <=> v < 0)
  BY RadixFacts DEF Digits
<1>4. /\ c \in Seq(Digits) /\ Len(c) = k + Len(b)
      /\ SetBytes(c) = SetBytes(b) + (IF pad = 0 THEN 0 ELSE Beyond(k + Len(b)) - Beyond(Len(b)))
  <2> HIDE DEF pad, k
  <2>1. k + Len(b) <= MaxLength + 1
    BY <1>2
  <2> QED
    BY <1>2, <1>3, <2>1, PaddedValue
<1>5. front \in Seq(Digits) /\ Len(front) = k /\ \A i \in 1 .. k : front[i] = pad
  <2> HIDE DEF pad, k
  <2>1. front \in [1 .. k -> Digits]
    BY <1>3
  <2> QED
    BY <1>2, <2>1
<1> HIDE DEF pad, k, front
<1>6. c[1] >= Sign <=> v < 0
  <2>1. CASE k = 0
    <3>1. 1 > k /\ 1 \in 1 .. k + Len(b) /\ 1 - k = 1
      BY <1>2, <2>1
    <3>2. c[1] = b[1]
      BY <1>2, <1>5, <2>1, <3>1
    <3> QED
      BY <3>2 DEF StandsFor
  <2>2. CASE k # 0
    <3>1. 1 \in 1 .. k
      BY <1>2, <2>2
    <3>2. c[1] = front[1] /\ front[1] = pad
      BY <1>2, <1>5, <3>1
    <3> QED
      BY <1>3, <3>2
  <2> QED
    BY <2>1, <2>2
<1> HIDE DEF c
<1>7. Len(c) = s /\ Len(c) \in 1 .. MaxLength + 1
  BY <1>2, <1>4, RadixFacts
<1>8. SetBytes(c) = IF v < 0 THEN v + Beyond(Len(c)) ELSE v
  <2>1. Len(b) \in 0 .. MaxLength + 1 /\ s \in 0 .. MaxLength + 1
    BY <1>2, <1>7, RadixFacts
  <2>2. PICK x \in Nat : x = Beyond(Len(b))
    BY <2>1, BeyondFacts
  <2>3. PICK y \in Nat : y = Beyond(s)
    BY <2>1, BeyondFacts
  <2>4. CASE v < 0
    <3>1. SetBytes(b) = v + x /\ SetBytes(c) = SetBytes(b) + (y - x)
      BY <1>2, <1>3, <1>4, <2>2, <2>3, <2>4 DEF StandsFor
    <3> QED
      BY <1>2, <1>7, <2>3, <2>4, <3>1
  <2>5. CASE ~(v < 0)
    <3>1. SetBytes(b) = v /\ SetBytes(c) = SetBytes(b) + 0
      BY <1>3, <1>4, <2>5 DEF StandsFor
    <3> QED
      BY <1>2, <2>5, <3>1
  <2> QED
    BY <2>4, <2>5
<1> QED
  BY <1>1, <1>2, <1>4, <1>6, <1>7, <1>8 DEF StandsFor

LEMMA TwosComplementStandsFor ==
  ASSUME NEW v \in -Bound .. Bound
  PROVE  StandsFor(TwosComplementBytes(v), v)
<1>1. Bound \in Nat /\ v \in Int /\ MaxLength \in Nat /\ MaxLength # 0
  BY BoundFacts, RadixFacts
<1>2. 0 \in Digits /\ Sign \in Nat \ {0}
  BY RadixFacts DEF Digits
<1>3. CASE v = 0
  <2>1. << >> \in Seq(Digits) /\ Len(<< >>) = 0
    OBVIOUS
  <2>2. SetBytes(<< >>) = 0
    BY <2>1, SetBytesPath
  <2> DEFINE c == [i \in 1 .. 1 |-> 0] \o << >>
  <2>3. c \in Seq(Digits) /\ Len(c) = 1 + Len(<< >>) /\ SetBytes(c) = SetBytes(<< >>) + 0
    <3>1. 1 \in Nat /\ 1 + Len(<< >>) <= MaxLength + 1 /\ 0 \in {0, Radix - 1}
      BY <1>1, <2>1
    <3> QED
      BY <2>1, <3>1, PaddedValue
  <2>4. c = <<0>>
    OBVIOUS
  <2> HIDE DEF c
  <2>5. SetBytes(<<0>>) = 0 /\ <<0>> \in Seq(Digits) /\ Len(<<0>>) = 1 /\ <<0>>[1] = 0
    BY <1>2, <2>2, <2>3, <2>4
  <2>6. StandsFor(<<0>>, 0)
    BY <1>1, <1>2, <2>5 DEF StandsFor
  <2>7. TwosComplementBytes(v) = <<0>>
    BY <1>3 DEF TwosComplementBytes
  <2> QED
    BY <1>3, <2>6, <2>7
<1>4. CASE v > 0
  <2>1. v \in 1 .. Bound /\ v \in Nat
    BY <1>1, <1>4
  <2>2. PICK n \in 1 .. MaxLength : n = ByteLen(v) /\ v < Beyond(n)
    BY <2>1, LengthsFit
  <2>3. n \in 1 .. MaxLength + 1
    BY <1>1
  <2> DEFINE b == BigEndian(v, n)
  <2>4. b \in Seq(Digits) /\ Len(b) = n /\ SetBytes(b) = v
    BY <2>1, <2>2, <2>3, BigEndianValue
  <2>5. b = Bytes(v)
    BY <2>2 DEF Bytes
  <2> HIDE DEF b
  <2>6. TwosComplementBytes(v) = IF b[1] >= Sign THEN <<0>> \o b ELSE b
    BY <1>1, <1>4, <2>5 DEF TwosComplementBytes, PositiveBytes
  <2>7. CASE b[1] >= Sign
    <3> DEFINE c == [i \in 1 .. 1 |-> 0] \o b
    <3>1. c \in Seq(Digits) /\ Len(c) = 1 + Len(b) /\ SetBytes(c) = SetBytes(b) + 0
      <4>1. 1 \in Nat /\ 1 + Len(b) <= MaxLength + 1 /\ 0 \in {0, Radix - 1}
        BY <1>1, <2>4
      <4> QED
        BY <2>4, <4>1, PaddedValue
    <3>2. c = <<0>> \o b /\ c[1] = 0
      <4>1. [i \in 1 .. 1 |-> 0] = <<0>>
        OBVIOUS
      <4>2. (<<0>> \o b)[1] = 0
        BY <2>4
      <4> QED
        BY <4>1, <4>2
    <3> HIDE DEF c
    <3>3. Len(c) \in 1 .. MaxLength + 1 /\ SetBytes(c) = v /\ ~(c[1] >= Sign)
      BY <1>1, <1>2, <2>1, <2>4, <3>1, <3>2
    <3>4. StandsFor(c, v)
      BY <1>1, <1>4, <3>1, <3>3 DEF StandsFor
    <3> QED
      BY <2>6, <2>7, <3>2, <3>4
  <2>8. CASE ~(b[1] >= Sign)
    <3>1. StandsFor(b, v)
      BY <1>1, <1>4, <2>3, <2>4, <2>8 DEF StandsFor
    <3> QED
      BY <2>6, <2>8, <3>1
  <2> QED
    BY <2>7, <2>8
<1>5. CASE v < 0
  <2>1. -v \in 1 .. Bound
    BY <1>1, <1>5
  <2>2. PICK m \in 1 .. Bound : m = -v
    BY <2>1
  <2>3. PICK n \in 1 .. MaxLength + 1 : n = NegativeLen(m) /\ m < Sign * Beyond(n - 1)
    BY LengthsFit
  <2>4. m \in Nat /\ m # 0 /\ v = -m
    BY <1>1, <2>2
  <2>5. PICK h \in Nat : h = Sign * Beyond(n - 1)
    <3>1. n - 1 \in 0 .. MaxLength + 1
      BY <1>1
    <3>2. \A x, y \in Nat : x * y \in Nat
      OBVIOUS
    <3> QED
      BY <1>2, <3>1, <3>2, BeyondFacts
  <2>6. Beyond(n) = 2 * h
    BY <2>5, BeyondFacts
  <2>7. PICK u \in Nat : u = Beyond(n) - m /\ u < Beyond(n) /\ u >= h
    <3>1. m < h
      BY <2>3, <2>5
    <3>2. 2 * h - m \in Nat /\ 2 * h - m < 2 * h /\ 2 * h - m >= h
      BY <2>4, <3>1
    <3> QED
      BY <2>6, <3>2
  <2> DEFINE b == BigEndian(u, n)
  <2>8. b \in Seq(Digits) /\ Len(b) = n /\ SetBytes(b) = u /\ b[1] >= Sign
    BY <2>5, <2>7, BigEndianValue
  <2>9. TwosComplementBytes(v) = b
    <3>1. Magnitude(v) = m
      BY <1>5, <2>2 DEF Magnitude
    <3>2. TwosComplementBytes(v) = NegativeBytes(m)
      BY <1>1, <1>5, <3>1 DEF TwosComplementBytes
    <3> QED
      BY <2>3, <2>7, <3>2 DEF NegativeBytes
  <2> HIDE DEF b
  <2>10. u = v + Beyond(Len(b))
    BY <2>4, <2>6, <2>7, <2>8
  <2>11. StandsFor(b, v)
    BY <1>1, <1>5, <2>8, <2>10 DEF StandsFor
  <2> QED
    BY <2>9, <2>11
<1> QED
  BY <1>1, <1>3, <1>4, <1>5

LEMMA EncodedReadsBack ==
  ASSUME NEW v \in -Bound .. Bound, NEW p \in Precisions
  PROVE  /\ EncodeBytes(v, p).err = "none" => BytesToBigInt(EncodeBytes(v, p).bytes) = v
         /\ \A s \in Size :
              EncodeFixed(v, p, s).err = "none" =>
                /\ Len(EncodeFixed(v, p, s).bytes) = s
                /\ BytesToBigInt(EncodeFixed(v, p, s).bytes) = v
<1> DEFINE b == TwosComplementBytes(v)
<1>1. StandsFor(b, v)
  BY TwosComplementStandsFor
<1> HIDE DEF b
<1>2. ASSUME EncodeBytes(v, p).err = "none"
      PROVE  BytesToBigInt(EncodeBytes(v, p).bytes) = v
  <2>1. EncodeBytes(v, p).bytes = b
    BY <1>2 DEF EncodeBytes, Rejected, b
  <2> QED
    BY <1>1, <2>1, StandsForReads
<1>3. ASSUME NEW s \in Size, EncodeFixed(v, p, s).err = "none"
      PROVE  /\ Len(EncodeFixed(v, p, s).bytes) = s
             /\ BytesToBigInt(EncodeFixed(v, p, s).bytes) = v
  <2>1. ~TooLong(b, s) /\ EncodeFixed(v, p, s).bytes = PadTwosComplement(b, s, v)
    BY <1>3 DEF EncodeFixed, Rejected, b
  <2>2. s \in Nat /\ s <= MaxLength + 1 /\ Len(b) \in Nat
    BY <1>1, RadixFacts DEF Size, StandsFor
  <2>3. Len(b) <= s
    BY <2>1, <2>2 DEF TooLong
  <2>4. StandsFor(PadTwosComplement(b, s, v), v) /\ Len(PadTwosComplement(b, s, v)) = s
    BY <1>1, <2>2, <2>3, PaddedStandsFor
  <2> QED
    BY <2>1, <2>4, StandsForReads
<1> QED
  BY <1>2, <1>3

\* How long a number below half of what s bytes can count is.
LEMMA RoomyLength ==
  ASSUME NEW v \in -Bound .. Bound, NEW s \in Size, Magnitude(v) < Power[Bits * s - 1]
  PROVE  Len(TwosComplementBytes(v)) <= s
<1>1. v \in Int /\ Bound \in Nat /\ Magnitude(v) \in Nat
  BY BoundFacts
<1>2. s \in 1 .. MaxLength /\ s \in 1 .. MaxLength + 1 /\ s \in 0 .. MaxLength + 1 /\ s - 1 \in 0 .. MaxLength + 1
      /\ s \in Nat
  BY RadixFacts DEF Size
<1>3. CASE v = 0
  <2>1. TwosComplementBytes(v) = <<0>>
    BY <1>3 DEF TwosComplementBytes
  <2> QED
    BY <1>2, <2>1
<1>4. CASE v # 0
  <2>1. PICK m \in 1 .. Bound : m = Magnitude(v)
    BY <1>1, <1>4, BoundFacts DEF Magnitude
  <2>2. PICK bs \in Nat : bs = Bits * s
    <3>1. Bits * s \in 0 .. MaxBits
      BY <1>2, BeyondFacts
    <3> QED
      BY <3>1, PowerFacts
  <2>3. bs \in 1 .. MaxBits
    <3>1. PICK low \in Nat : low = Bits * (s - 1)
      <4>1. Bits * (s - 1) \in 0 .. MaxBits
        BY <1>2, BeyondFacts
      <4> QED
        BY <4>1, PowerFacts
    <3>2. bs = low + Bits
      BY <1>2, <2>2, <3>1, BeyondFacts
    <3> QED
      BY <1>2, <2>2, <3>2, RadixFacts, BeyondFacts
  <2>4. PICK l \in Nat : l = BitLen(m) /\ l <= bs - 1
    <3>1. bs - 1 \in 0 .. MaxBits
      BY <2>3, PowerFacts
    <3>2. BitLen(m) <= bs - 1
      BY <2>1, <2>2, <3>1, BitsOfMagnitude
    <3>3. BitLen(m) \in Nat
      <4>1. Bits * MaxLength \in Nat
        BY RadixFacts, TimesGrows
      <4> QED
        BY <4>1, BitsOfMagnitude
    <3> QED
      BY <3>2, <3>3
  <2>5. PICK n \in 1 .. MaxLength : n = ByteLen(m) /\ Bits * (n - 1) < l /\ l <= Bits * n
                               /\ (l % Bits = 0 <=> l = Bits * n)
    BY <2>4, BytesOfMagnitude
  <2>6. n \in Nat /\ n - 1 \in Nat /\ n \in 1 .. MaxLength + 1
    BY RadixFacts
  <2>7. n <= s
    <3> SUFFICES ASSUME s < n PROVE FALSE
      BY <1>2, <2>6
    <3>1. s <= n - 1
      BY <1>2, <2>6
    <3>2. Bits * s <= Bits * (n - 1) /\ Bits * (n - 1) \in Nat
      BY <1>2, <2>6, <3>1, RadixFacts, TimesGrows
    <3> QED
      BY <2>2, <2>3, <2>4, <2>5, <3>2
  <2>8. CASE v > 0
    <3>1. m = v /\ m \in Nat
      BY <1>1, <2>1, <2>8 DEF Magnitude
    <3>2. m < Beyond(n)
      BY <2>5, LengthsFit
    <3> DEFINE b == BigEndian(m, n)
    <3>3. b \in Seq(Digits) /\ Len(b) = n /\ (b[1] >= Sign <=> m >= Sign * Beyond(n - 1))
      BY <2>6, <3>1, <3>2, BigEndianValue
    <3>4. b = Bytes(v)
      BY <2>5, <3>1 DEF Bytes
    <3> HIDE DEF b
    <3>5. TwosComplementBytes(v) = IF b[1] >= Sign THEN <<0>> \o b ELSE b
      BY <1>1, <2>8, <3>4 DEF TwosComplementBytes, PositiveBytes
    <3>6. CASE b[1] >= Sign
      <4>1. m >= Power[Bits * n - 1]
        BY <2>6, <3>3, <3>6, BeyondFacts
      <4>2. n # s
        <5>1. Power[bs - 1] \in Nat
          <6>1. bs - 1 \in 0 .. MaxBits
            BY <2>3, PowerFacts
          <6> QED
            BY <6>1, PowerFacts
        <5> QED
          BY <2>1, <2>2, <3>1, <4>1, <5>1
      <4>3. Len(<<0>> \o b) = 1 + n
        BY <3>3
      <4> QED
        BY <1>2, <2>6, <2>7, <3>5, <3>6, <4>2, <4>3
    <3>7. CASE ~(b[1] >= Sign)
      BY <2>7, <3>3, <3>5, <3>7
    <3> QED
      BY <3>6, <3>7
  <2>9. CASE v < 0
    <3>1. PICK g \in 1 .. MaxLength + 1 : g = NegativeLen(m)
      BY LengthsFit
    <3>2. g = IF l % Bits = 0 THEN n + 1 ELSE n
      BY <2>4, <2>5, <3>1 DEF NegativeLen
    <3>3. g <= s
      <4>1. CASE l % Bits = 0
        <5>1. l = Bits * n
          BY <2>5, <4>1
        <5>2. n # s
          BY <2>2, <2>3, <2>4, <5>1
        <5> QED
          BY <1>2, <2>6, <2>7, <3>2, <4>1, <5>2
      <4>2. CASE ~(l % Bits = 0)
        BY <2>7, <3>2, <4>2
      <4> QED
        BY <4>1, <4>2
    <3>4. TwosComplementBytes(v) = NegativeBytes(m)
      BY <1>1, <2>1, <2>9 DEF TwosComplementBytes
    <3>5. Len(NegativeBytes(m)) = g
      <4>1. g \in Nat
        BY RadixFacts
      <4> HIDE <3>4
      <4> QED
        BY <3>1, <4>1 DEF NegativeBytes, BigEndian
    <3> QED
      BY <3>3, <3>4, <3>5
  <2> QED
    BY <1>1, <1>4, <2>8, <2>9
<1> QED
  BY <1>3, <1>4

LEMMA RoomyFixedTakes ==
  ASSUME NEW v \in -Bound .. Bound, NEW p \in Precisions, NEW s \in Size, RoomForPrecision(p, s)
  PROVE  EncodeFixed(v, p, s).err # "size"
<1>1. s \in 1 .. MaxLength + 1 /\ s - 1 \in 0 .. MaxLength + 1 /\ s \in Nat
  BY RadixFacts DEF Size
<1>2. PICK h \in Nat : h = Sign * Beyond(s - 1)
  <2>1. \A x, y \in Nat : x * y \in Nat
    OBVIOUS
  <2> QED
    BY <1>1, <2>1, RadixFacts, BeyondFacts
<1>3. Beyond(s) \div 2 = h /\ Power[Bits * s - 1] = h
  <2>1. Beyond(s) = 2 * h
    BY <1>1, <1>2, BeyondFacts
  <2>2. (2 * h) \div 2 = h
    OBVIOUS
  <2> QED
    BY <1>1, <1>2, <2>1, <2>2, BeyondFacts
<1>4. ASSUME DecimalFits(v, PrecisionLimit(p)) PROVE ~TooLong(TwosComplementBytes(v), s)
  <2>1. Magnitude(v) \in Int
    BY BoundFacts
  <2>2. Magnitude(v) < 10 ^ p /\ 10 ^ p <= h
    BY <1>3, <1>4 DEF DecimalFits, PrecisionLimit, RoomForPrecision
  <2>3. 10 ^ p \in Int
    BY DecimalAssumption DEF Precisions
  <2>4. Magnitude(v) < Power[Bits * s - 1]
    BY <1>3, <2>1, <2>2, <2>3
  <2>5. Len(TwosComplementBytes(v)) <= s
    BY <2>4, RoomyLength
  <2>6. Len(TwosComplementBytes(v)) \in Nat
    BY TwosComplementStandsFor, RadixFacts DEF StandsFor
  <2> QED
    BY <1>1, <2>5, <2>6 DEF TooLong
<1> QED
  BY <1>4 DEF EncodeFixed, Rejected

-----------------------------------------------------------------------------
(***************************************************************************)
(* What either decimal plan writes, its decoder reads back, for every      *)
(* width of a byte, number of bytes and precision, and for every value of  *)
(* so many bytes, the most negative one included.                          *)
(***************************************************************************)
THEOREM DecimalsReadBack == \A v \in -Bound .. Bound : ReadsBack(v)
BY EncodedReadsBack DEF ReadsBack

(***************************************************************************)
(* A fixed with room for its precision refuses no value of it for its      *)
(* length.                                                                 *)
(***************************************************************************)
THEOREM RoomyFixedTakesAll == \A v \in -Bound .. Bound : RoomyTakes(v)
BY RoomyFixedTakes DEF RoomyTakes
==============================================================================

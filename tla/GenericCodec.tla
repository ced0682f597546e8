---------------------------- MODULE GenericCodec ----------------------------
(***************************************************************************)
(* The plans the generic compiler builds: what generic.Encoder writes for  *)
(* a value, and what generic.Decoder makes of bytes.                       *)
(*                                                                         *)
(* A plan is [kind, tag, size, parts]: how it is laid out, the Go type of  *)
(* its values (a date is laid out as an int), the length of a fixed, the   *)
(* number of symbols of an enum or the record a reference stands for, and  *)
(* the plans under it.  A value is <<tag, ...>>: an enum is the position   *)
(* of its symbol, a float its bits, a map a set of pairs, a record the     *)
(* sequence of its fields.  A field of another name is refused where a     *)
(* value of another type would be, so it needs no case.                    *)
(*                                                                         *)
(* A plan calls the plans under it.  Encoders and Decoders are therefore   *)
(* given level by level: those of values that nest n deep call the ones    *)
(* of the level below.                                                     *)
(***************************************************************************)
EXTENDS BinaryReader

CONSTANTS
  Layouts,      \* all plans that compiling a schema makes
  Definitions,  \* the plans of the records that references stand for
  MaxNesting    \* how deep a value may nest until the stack of a goroutine is full

Plan(kind, tag, size, parts) == [kind |-> kind, tag |-> tag, size |-> size, parts |-> parts]

Simple(kind) == Plan(kind, kind, 0, << >>)

SimpleKinds == {"null", "boolean", "int", "long", "string", "fixed", "enum"}

\* The Go types of what is laid out as kind.
Tags(kind) ==
  CASE kind = "int" -> {"int", "date", "time-millis"}
    [] kind = "long" -> {"long", "time-micros", "timestamp-millis", "timestamp-micros",
                         "timestamp-nanos", "local-timestamp-millis",
                         "local-timestamp-micros", "local-timestamp-nanos"}
    [] kind = "string" -> {"string", "bytes", "uuid"}
    [] kind = "fixed" -> {"fixed", "float", "double", "duration"}
    [] kind = "ref" -> {"record"}
    [] OTHER -> {kind}

ASSUME LayoutsAssumption ==
  /\ MaxNesting \in Nat
  /\ Simple("string") \in Layouts
  /\ Definitions \in Seq({plan \in Layouts : plan.kind = "record"})
  /\ \A plan \in Layouts :
       /\ plan = Plan(plan.kind, plan.tag, plan.size, plan.parts)
       /\ plan.kind \in SimpleKinds \cup {"union", "record", "ref", "array", "map"}
       /\ plan.tag \in Tags(plan.kind)
       /\ plan.size \in Nat
       /\ plan.kind = "enum" => plan.size <= IntHalf
       /\ plan.kind = "fixed" => plan.size \in 1 .. Half - 1
       /\ plan.kind = "ref" => plan.size \in DOMAIN Definitions
       /\ plan.parts \in Seq(Layouts) /\ Len(plan.parts) < Half
       /\ plan.kind \in {"array", "map"} => Len(plan.parts) = 1

\* What each field of a record is laid out as.
FieldPlans(plan) == IF plan.kind = "ref" THEN Definitions[plan.size].parts ELSE plan.parts

-----------------------------------------------------------------------------
(***************************************************************************)
(* The values.  A Go string is as long as an int can count, of 64 bits on  *)
(* most builds; a Decoder returns only those whose length fits an int32.   *)
(***************************************************************************)
Strings == {b \in Seq(Byte) : Len(b) < Half}

ShortStrings == {b \in Strings : Len(b) < IntHalf}

\* One without parts; "strange" stands for the Go types that no plan takes.
Leaves(strings) ==
  {<<"null">>, <<"strange">>}
    \cup ({"boolean"} \X BOOLEAN)
    \cup (Tags("int") \X ((-IntHalf) .. (IntHalf - 1)))
    \cup (Tags("long") \X Long)
    \cup (Tags("fixed") \X Strings)
    \cup (Tags("string") \X strings)
    \cup ({"enum"} \X Nat)

\* No key twice.
Maps(strings, some) ==
  {map \in SUBSET (strings \X some) :
     /\ IsFiniteSet(map) /\ Cardinality(map) < Half
     /\ \A e, f \in map : e[1] = f[1] => e = f}

Compound(strings, some) ==
  ({"array", "record"} \X {vs \in Seq(some) : Len(vs) < Half})
    \cup ({"map"} \X Maps(strings, some))
    \cup ({"union"} \X Int \X some)

\* What an Encoder may be given that nests at most n deep ...
Encodable[n \in 0 .. MaxNesting] ==
  IF n = 0 THEN Leaves(Strings) ELSE Leaves(Strings) \cup Compound(Strings, Encodable[n - 1])

\* ... and what of it a Decoder may return.
Level[n \in 0 .. MaxNesting] ==
  IF n = 0 THEN Leaves(ShortStrings)
  ELSE Leaves(ShortStrings) \cup Compound(ShortStrings, Level[n - 1])

-----------------------------------------------------------------------------
(***************************************************************************)
(* An encoding is what an encodeFn wrote, and its error: what was written  *)
(* before a part was refused stays written.                                *)
(***************************************************************************)
Written(b) == [out |-> b, err |-> "none"]

Refused == [out |-> << >>, err |-> "refused"]

\* First x, then y if nothing was refused in x.
Then(x, y) == IF x.err = "none" THEN [y EXCEPT !.out = x.out \o @] ELSE x

EncodeSimple(plan, v) ==
  CASE plan.kind = "null" -> Written(<< >>)
    [] plan.kind = "boolean" -> Written(<<IF v[2] THEN 1 ELSE 0>>)
    [] plan.kind \in {"int", "long"} -> Written(PutVarint(v[2]))
    [] plan.kind = "string" -> Written(PutVarint(Len(v[2])) \o v[2])
    [] plan.kind = "fixed" -> IF Len(v[2]) = plan.size THEN Written(v[2]) ELSE Refused
    [] plan.kind = "enum" -> IF v[2] < plan.size THEN Written(PutVarint(v[2])) ELSE Refused

\* The encodings of values one after the other, each by its plan.
EncodeAll(encoders, plans, vs) ==
  LET upTo[n \in 0 .. Len(vs)] ==
        IF n = 0 THEN {Written(<< >>)}
        ELSE {Then(x, y) : x \in upTo[n - 1], y \in encoders[plans[n]][vs[n]]}
  IN  upTo[Len(vs)]

\* The count of the only block of an array or a map, none if it is empty.
BlockBegun(n) == Written(IF n = 0 THEN << >> ELSE PutVarint(n))

\* Mutant: an empty array is not ended.
EndedIfAny(x, n) == IF n = 0 THEN x ELSE Then(x, Written(PutVarint(0)))

Ended(x, n) == Then(x, Written(PutVarint(0)))

EncodeBlock(encoders, plans, vs, n) ==
  {Ended(Then(BlockBegun(n), x), n) : x \in EncodeAll(encoders, plans, vs)}

\* The plans of n items, or of n entries, one after the other.
BlockPlans(plan, n) ==
  IF plan.kind = "map"
  THEN [i \in 1 .. 2 * n |-> IF i % 2 = 1 THEN Simple("string") ELSE plan.parts[1]]
  ELSE [i \in 1 .. n |-> plan.parts[1]]

\* Every order in which a Go map may be walked.
Walks(map) ==
  {walk \in [1 .. Cardinality(map) -> map] : \A i, j \in DOMAIN walk : i # j => walk[i] # walk[j]}

Flat(walk) ==
  [i \in 1 .. 2 * Len(walk) |->
     IF i % 2 = 1 THEN <<"string", walk[(i + 1) \div 2][1]>> ELSE walk[i \div 2][2]]

EncodeCompound(encoders, plan, v) ==
  CASE plan.kind = "union" ->
         IF v[2] \in 1 .. Len(plan.parts)
         THEN {Then(Written(PutVarint(v[2] - 1)), x) : x \in encoders[plan.parts[v[2]]][v[3]]}
         ELSE {Refused}
    [] plan.kind \in {"record", "ref"} ->
         IF Len(v[2]) = Len(FieldPlans(plan))
         THEN EncodeAll(encoders, FieldPlans(plan), v[2])
         ELSE {Refused}
    [] plan.kind = "array" ->
         LET n == Len(v[2]) IN EncodeBlock(encoders, BlockPlans(plan, n), v[2], n)
    [] plan.kind = "map" ->
         LET n == Cardinality(v[2])
         IN  UNION {EncodeBlock(encoders, BlockPlans(plan, n), Flat(walk), n) : walk \in Walks(v[2])}

\* The encodings a plan may make of a value of each level.
Encoders[n \in 0 .. MaxNesting] ==
  [plan \in Layouts |->
     [v \in Encodable[n] |->
        IF v[1] # plan.tag THEN {Refused}
        ELSE IF plan.kind \in SimpleKinds THEN {EncodeSimple(plan, v)}
        ELSE EncodeCompound(IF n = 0 THEN << >> ELSE Encoders[n - 1], plan, v)]]

Encoder(plan, v) == Encoders[MaxNesting][plan][v]

-----------------------------------------------------------------------------
(***************************************************************************)
(* What a decodeFn returns for what it read.                               *)
(***************************************************************************)
Typed(plan, r, v) == Result(r.off, r.err, <<plan.tag, v>>)

\* A slice that would have more items than an int can count does not fit in memory.
Held(r, n, v) == Result(r.off, IF r.err = "none" /\ n >= Half THEN "outOfMemory" ELSE r.err, v)

OutOfRange(r) == Result(r.off, "indexOutOfRange", << >>)

IndexIn(i, n) == i \in 0 .. n - 1

DecodeSimple(plan, s, end, off) ==
  CASE plan.kind = "null" -> Result(off, "none", <<"null">>)
    [] plan.kind = "boolean" -> LET r == ReadFixed(s, end, off, 1) IN Typed(plan, r, r.val # <<0>>)
    [] plan.kind = "int" -> LET r == ReadInt(s, end, off) IN Typed(plan, r, r.val)
    [] plan.kind = "long" -> LET r == ReadLong(s, end, off) IN Typed(plan, r, r.val)
    [] plan.kind = "string" -> LET r == ReadBytes(s, end, off) IN Typed(plan, r, r.val)
    [] plan.kind = "fixed" -> LET r == ReadFixed(s, end, off, plan.size) IN Typed(plan, r, r.val)
    [] plan.kind = "enum" ->
         LET r == ReadInt(s, end, off)
         IN  IF r.err # "none" \/ IndexIn(r.val, plan.size) THEN Typed(plan, r, r.val) ELSE OutOfRange(r)

\* After what was read so far, the value that plan reads.
ThenRead(r, decoders, plan) ==
  LET x == decoders[plan][r.off]
  IN  IF r.err # "none" THEN r ELSE Result(x.off, x.err, Append(r.val, x.val))

\* The values that plans read one after the other.
DecodeAll(decoders, plans, off) ==
  LET upTo[n \in 0 .. Len(plans)] ==
        IF n = 0 THEN Result(off, "none", << >>)
        ELSE ThenRead(upTo[n - 1], decoders, plans[n])
  IN  upTo[Len(plans)]

\* Mutant: the declared size of a block is taken for its first item.
BlockStartUnsized(s, end, c) == c

\* A negative count is followed by a size, which is read and not looked at.
BlockStart(s, end, c) == IF c.val < 0 THEN ReadLong(s, end, c.off) ELSE c

\* How often the loop over a block runs: never, for math.MinInt64, which stays negative.
BlockCount(c) ==
  LET n == IF c.val < 0 THEN Wrap(-c.val) ELSE c.val
  IN  IF n < 0 THEN 0 ELSE n

\* One turn of the loop over the blocks; while it goes on its error is "more".
DecodeBlock(decoders, plan, s, end, r) ==
  LET c == ReadLong(s, end, r.off)
      start == BlockStart(s, end, c)
      block == DecodeAll(decoders, BlockPlans(plan, BlockCount(c)), start.off)
  IN  IF r.err # "more" THEN r
      ELSE IF c.err # "none" THEN Result(c.off, c.err, r.val)
      ELSE IF c.val = 0 THEN Result(c.off, "none", r.val)
      ELSE IF start.err # "none" THEN Result(start.off, start.err, r.val)
      ELSE Result(block.off, IF block.err = "none" THEN "more" ELSE block.err, r.val \o block.val)

\* Every turn reads a byte, so they are no more than there are bytes, and one.
DecodeBlocks(decoders, plan, s, end, off) ==
  LET after[n \in 0 .. Len(s) + 1] ==
        IF n = 0 THEN Result(off, "more", << >>)
        ELSE DecodeBlock(decoders, plan, s, end, after[n - 1])
  IN  after[Len(s) + 1]

\* The map that entries read one after the other leave: the last of a key stays.
AsMap(flat) ==
  LET n == Len(flat) \div 2
      key(i) == flat[2 * i - 1][2]
  IN  {<<key(i), flat[2 * i]>> : i \in {j \in 1 .. n : \A k \in j + 1 .. n : key(k) # key(j)}}

DecodeCompound(decoders, plan, s, end, off) ==
  CASE plan.kind = "union" ->
         LET i == ReadLong(s, end, off)
             r == decoders[plan.parts[i.val + 1]][i.off]
         IN  IF i.err # "none" THEN i
             ELSE IF ~IndexIn(i.val, Len(plan.parts)) THEN OutOfRange(i)
             ELSE Result(r.off, r.err, <<"union", i.val + 1, r.val>>)
    [] plan.kind \in {"record", "ref"} ->
         LET r == DecodeAll(decoders, FieldPlans(plan), off) IN Typed(plan, r, r.val)
    [] plan.kind = "array" ->
         LET r == DecodeBlocks(decoders, plan, s, end, off) IN Held(r, Len(r.val), <<"array", r.val>>)
    [] plan.kind = "map" ->
         LET r == DecodeBlocks(decoders, plan, s, end, off)
             map == AsMap(r.val)
         IN  Held(r, Cardinality(map), <<"map", map>>)

\* What a plan makes of the bytes at each place, with room on the stack for n levels.
Decoders(s, end) ==
  LET decoders[n \in 0 .. MaxNesting] ==
        [plan \in Layouts |->
           [off \in 0 .. Len(s) |->
              IF plan.kind \in SimpleKinds THEN DecodeSimple(plan, s, end, off)
              ELSE IF n = 0 THEN Result(off, "stackOverflow", << >>)
              ELSE DecodeCompound(decoders[n - 1], plan, s, end, off)]]
  IN  decoders

Decode(plan, s, end, off) == Decoders(s, end)[MaxNesting][plan][off]
=============================================================================

-------------------------- MODULE ForeignArrayProofs -------------------------
(***************************************************************************)
(* The ArrayReader over the arrays of other producers: its type, that it   *)
(* agrees with the declared size of every block it finishes, and that it   *)
(* reads every array whose sizes are right, for every width of a long,     *)
(* every set of items and every array.                                     *)
(***************************************************************************)
EXTENDS ForeignArrays, StreamProofs

-----------------------------------------------------------------------------
(***************************************************************************)
(* The arrays of other producers are bytes.                                *)
(***************************************************************************)
LEMMA PayloadIsBytes ==
  ASSUME NEW b \in Block
  PROVE  /\ b.items \in Seq(Items) /\ Len(b.items) \in 0 .. (Half - 1)
         /\ Payload(b) \in Seq(Byte)
<1>1. b.items \in BoundedSeq(Values, BlockItems)
  BY DEF Block
<1>2. b.items \in Seq(Items) /\ Len(b.items) <= BlockItems
  <2>1. Values \subseteq Items
    BY ItemsAssumption DEF Values
  <2>2. b.items \in Seq(Values) /\ Len(b.items) <= BlockItems
    BY <1>1, ForeignAssumption, BoundedSeqType
  <2> QED
    BY <2>1, <2>2
<1>3. Len(b.items) \in 0 .. (Half - 1)
  BY <1>2, ForeignAssumption, HalfIsPositive
<1>4. \A v \in Items : ItemBytes(v) \in Seq(Byte)
  <2> SUFFICES ASSUME NEW v \in Items PROVE ItemBytes(v) \in Seq(Byte)
    OBVIOUS
  <2>1. v \in Seq(Byte) /\ Len(v) \in Long
    BY ItemsAssumption, ForeignAssumption, HalfIsPositive DEF Long
  <2>2. PutVarint(Len(v)) \in Seq(Byte)
    BY <2>1, PutVarintIsBytes
  <2> QED
    BY <2>1, <2>2 DEF ItemBytes
<1> DEFINE parts == [i \in 1 .. Len(b.items) |-> ItemBytes(b.items[i])]
<1>5. parts \in Seq(Seq(Byte))
  BY <1>2, <1>4
<1>6. Payload(b) \in Seq(Byte)
  BY <1>5, FlattenSeqType DEF Payload
<1> QED
  BY <1>2, <1>3, <1>6

LEMMA BlockBytesType ==
  ASSUME NEW b \in Block, Len(Payload(b)) + b.slack \in 0 .. (Half - 1)
  PROVE  BlockBytes(b) \in Seq(Byte)
<1>1. /\ Len(b.items) \in 0 .. (Half - 1)
      /\ Payload(b) \in Seq(Byte)
  BY PayloadIsBytes
<1> DEFINE n == Len(b.items)
           size == Len(Payload(b)) + b.slack
<1> HIDE DEF n, size
<1>2. n \in Long /\ -n \in Long /\ size \in Long
  BY <1>1, HalfIsPositive DEF n, size, Long
<1>3. /\ PutVarint(n) \in Seq(Byte)
      /\ PutVarint(-n) \in Seq(Byte)
      /\ PutVarint(size) \in Seq(Byte)
  BY <1>2, PutVarintIsBytes
<1>4. BlockBytes(b) = IF b.sized THEN PutVarint(-n) \o PutVarint(size) \o Payload(b)
                                 ELSE PutVarint(n) \o Payload(b)
  BY DEF BlockBytes, n, size
<1> QED
  BY <1>1, <1>3, <1>4

LEMMA InitKeeps == Init => ReaderInv
<1> SUFFICES ASSUME Init PROVE ReaderInv
  OBVIOUS
<1>1. /\ blocks \in BoundedSeq(Block, MaxBlocks)
      /\ \A i \in 1 .. Len(blocks) :
           Len(Payload(blocks[i])) + blocks[i].slack \in 0 .. (Half - 1)
  BY DEF Init
<1>2. blocks \in Seq(Block)
  BY <1>1, ForeignAssumption, BoundedSeqType
<1> DEFINE parts == [i \in 1 .. Len(blocks) |-> BlockBytes(blocks[i])]
<1>3. \A i \in 1 .. Len(blocks) : BlockBytes(blocks[i]) \in Seq(Byte)
  BY <1>1, <1>2, BlockBytesType
<1>4. parts \in Seq(Seq(Byte))
  BY <1>2, <1>3
<1>5. FlattenSeq(parts) \in Seq(Byte)
  BY <1>4, FlattenSeqType
<1>6. 0 \in Long /\ PutVarint(0) \in Seq(Byte)
  BY HalfIsPositive, PutVarintIsBytes DEF Long
<1>7. Following \in Seq(Byte)
  BY PutVarintIsBytes, HalfIsPositive, HalfExceedsOne DEF Following, Long
<1>8. wire = (FlattenSeq(parts) \o PutVarint(0)) \o Following /\ end = "eof" /\ nulls \in BOOLEAN
  BY DEF Init, ArrayBytes
<1> HIDE DEF parts
<1>9. wire \in Seq(Byte)
  BY <1>5, <1>6, <1>7, <1>8
<1>10. Len(wire) \in Nat
  BY <1>9
<1>11. rd = NewReader(0) /\ passed = 0 /\ yielded = << >>
  BY DEF Init, ReaderInit
<1>12. Standing(rd) /\ Aligned(rd)
  BY <1>6, <1>10, <1>11 DEF NewReader, Standing, Readers, ReaderErrors, Aligned
<1> QED
  BY <1>8, <1>9, <1>11, <1>12 DEF ReaderInv, StreamTypeOK, ReaderTypeOK, Ends, Standing

LEMMA NextKeeps == ReaderInv /\ [Next]_vars => ReaderInv'
<1> SUFFICES ASSUME ReaderInv, [Next]_vars PROVE ReaderInv'
  OBVIOUS
<1>1. CASE ReadItem /\ UNCHANGED streamVars
  BY <1>1, ReadItemKeeps
<1>2. CASE SkipBlock /\ UNCHANGED streamVars
  BY <1>2, SkipBlockKeeps
<1>3. CASE UNCHANGED vars
  BY <1>3 DEF vars, streamVars, readerVars, ReaderInv, StreamTypeOK, ReaderTypeOK, Standing,
              Aligned, InBlock
<1> QED
  BY <1>1, <1>2, <1>3 DEF Next, ReaderNext

(***************************************************************************)
(* Whatever mix of Next and SkipBlock a caller chooses, the reader (the    *)
(* struct of array.go:72) keeps its type: the offset stays on the stream,  *)
(* the count never goes negative, and the declared end is an int64.        *)
(***************************************************************************)
THEOREM ReaderTypeCorrect == Spec => [](StreamTypeOK /\ ReaderTypeOK)
<1>1. ReaderInv => StreamTypeOK /\ ReaderTypeOK
  BY DEF ReaderInv
<1> QED
  BY <1>1, InitKeeps, NextKeeps, PTL DEF Spec

(***************************************************************************)
(* Next and SkipBlock agree with the declared size of every block they     *)
(* finish (the checks of array.go:114 and array.go:149), whatever the      *)
(* producer wrote.                                                         *)
(***************************************************************************)
THEOREM SizesAgree == Spec => []BlockAligned
<1>1. ReaderInv => BlockAligned
  BY DEF ReaderInv, Aligned, BlockAligned
<1> QED
  BY <1>1, InitKeeps, NextKeeps, PTL DEF Spec

-----------------------------------------------------------------------------
\* What a sequence holds it still holds when more follows.
LEMMA StillHas ==
  ASSUME NEW S, NEW s \in Seq(S), NEW t \in Seq(S), NEW off \in Nat, NEW b \in Seq(S),
         Has(s, off, b)
  PROVE  Has(s \o t, off, b)
<1>1. Len(s \o t) = Len(s) + Len(t) /\ \A i \in 1 .. Len(s) : (s \o t)[i] = s[i]
  OBVIOUS
<1>2. off + Len(b) <= Len(s) /\ Len(b) \in Nat /\ Len(s) \in Nat /\ Len(t) \in Nat
  BY DEF Has
<1>3. ASSUME NEW i \in 1 .. Len(b)
      PROVE  (s \o t)[off + i] = b[i]
  <2>1. off + i \in 1 .. Len(s)
    BY <1>2
  <2> QED
    BY <1>1, <2>1 DEF Has
<1> HIDE DEF Has
<1>4. off + Len(b) <= Len(s \o t)
  BY <1>1, <1>2
<1> QED
  BY <1>3, <1>4 DEF Has

(***************************************************************************)
(* The borders f between the sequences ss in what they are flattened to.   *)
(***************************************************************************)
Borders(f, ss, s) ==
  /\ f \in [0 .. Len(ss) -> Nat] /\ f[0] = 0 /\ f[Len(ss)] = Len(s)
  /\ \A i \in 1 .. Len(ss) : f[i] = f[i - 1] + Len(ss[i]) /\ Has(s, f[i - 1], ss[i])

LEMMA BordersExist ==
  ASSUME NEW S, NEW ss \in Seq(Seq(S))
  PROVE  \E f : Borders(f, ss, FlattenSeq(ss))
<1> DEFINE n == Len(ss)
<1>0. n \in Nat
  OBVIOUS
<1>1. CASE n = 0
  <2>1. ss = << >> /\ FlattenSeq(ss) = << >>
    BY <1>1 DEF FlattenSeq
  <2>2. Borders([i \in 0 .. 0 |-> 0], ss, FlattenSeq(ss))
    BY <2>1 DEF Borders
  <2> QED
    BY <2>2
<1>2. CASE n # 0
  <2>1. PICK flat :
           /\ flat[1] = ss[1] /\ FlattenSeq(ss) = flat[n]
           /\ \A i \in 2 .. n : flat[i] = flat[i - 1] \o ss[i]
           /\ \A i \in 1 .. n : flat[i] \in Seq(S)
    BY <1>2, FlattenPath
  <2> DEFINE f == [i \in 0 .. n |-> IF i = 0 THEN 0 ELSE Len(flat[i])]
  <2>2. \A i \in 1 .. n : ss[i] \in Seq(S) /\ Len(ss[i]) \in Nat /\ Len(flat[i]) \in Nat
    BY <2>1
  <2>3. f \in [0 .. n -> Nat] /\ f[0] = 0 /\ \A i \in 1 .. n : f[i] = Len(flat[i])
    BY <1>0, <2>2
  <2> HIDE DEF n, f
  <2>4. ASSUME NEW i \in 1 .. n
        PROVE  f[i] = f[i - 1] + Len(ss[i]) /\ Has(flat[i], f[i - 1], ss[i])
    <3>1. CASE i = 1
      <4>1. f[i - 1] = 0 /\ f[i] = Len(ss[i]) /\ flat[i] = ss[i]
        BY <2>1, <2>3, <3>1
      <4>2. Has(ss[i], 0, ss[i])
        BY <2>2 DEF Has
      <4> QED
        BY <2>2, <4>1, <4>2
    <3>2. CASE i # 1
      <4>1. i \in 2 .. n /\ i - 1 \in 1 .. n
        BY <1>0, <3>2
      <4>2. flat[i] = flat[i - 1] \o ss[i] /\ f[i] = Len(flat[i]) /\ f[i - 1] = Len(flat[i - 1])
        BY <2>1, <2>3, <4>1
      <4>3. flat[i - 1] \in Seq(S) /\ ss[i] \in Seq(S)
        BY <2>1, <2>2, <4>1
      <4>4. \A a, b \in Seq(S) : Len(a \o b) = Len(a) + Len(b) /\ Has(a \o b, Len(a), b)
        BY DEF Has
      <4> QED
        BY <4>2, <4>3, <4>4
    <3> QED
      BY <3>1, <3>2
  <2>5. ASSUME NEW i \in 1 .. n
        PROVE  \A m \in i .. n : Has(flat[m], f[i - 1], ss[i])
    <3> DEFINE T == {m \in i .. n : ~Has(flat[m], f[i - 1], ss[i])}
    <3> SUFFICES ASSUME T # {} PROVE FALSE
      OBVIOUS
    <3>1. T \in SUBSET Nat
      BY <1>0
    <3> HIDE DEF T
    <3>2. PICK m : m = Min(T)
      OBVIOUS
    <3>3. m \in T /\ \A k \in T : m <= k
      BY <3>1, <3>2, MinOfNats
    <3>4. m \in i .. n /\ ~Has(flat[m], f[i - 1], ss[i])
      BY <3>3 DEF T
    <3>5. m # i
      BY <2>4, <3>4
    <3>6. m - 1 \in i .. n /\ m \in 2 .. n /\ m - 1 \in 1 .. n /\ ~(m <= m - 1) /\ i - 1 \in 0 .. n
      BY <1>0, <3>4, <3>5
    <3>7. Has(flat[m - 1], f[i - 1], ss[i])
      BY <3>3, <3>6 DEF T
    <3>8. flat[m] = flat[m - 1] \o ss[m] /\ flat[m - 1] \in Seq(S) /\ ss[m] \in Seq(S)
          /\ ss[i] \in Seq(S) /\ f[i - 1] \in Nat
      <4>1. f[i - 1] \in Nat
        BY <2>3, <3>6
      <4>2. m \in 1 .. n
        BY <3>6
      <4> QED
        BY <2>1, <2>2, <3>6, <4>1, <4>2
    <3>9. Has(flat[m], f[i - 1], ss[i])
      BY <3>7, <3>8, StillHas
    <3> QED
      BY <3>4, <3>9
  <2>6. ASSUME NEW i \in 1 .. n
        PROVE  Has(flat[n], f[i - 1], ss[i])
    BY <1>0, <2>5
  <2>7. f[n] = Len(flat[n])
    BY <1>0, <1>2, <2>3 DEF n
  <2>8. Borders(f, ss, flat[n])
    BY <2>3, <2>4, <2>6, <2>7 DEF Borders, n
  <2> QED
    BY <2>1, <2>8
<1> QED
  BY <1>1, <1>2

LEMMA HasWithin ==
  ASSUME NEW S, NEW s \in Seq(S), NEW off \in Nat, NEW b \in Seq(S), Has(s, off, b),
         NEW at \in Nat, NEW c \in Seq(S), Has(b, at, c)
  PROVE  Has(s, off + at, c)
<1>1. /\ off + Len(b) <= Len(s) /\ at + Len(c) <= Len(b)
      /\ Len(s) \in Nat /\ Len(b) \in Nat /\ Len(c) \in Nat
  BY DEF Has
<1>2. ASSUME NEW i \in 1 .. Len(c)
      PROVE  s[off + at + i] = c[i]
  <2>1. at + i \in 1 .. Len(b) /\ off + at + i = off + (at + i)
    BY <1>1
  <2> QED
    BY <2>1 DEF Has
<1>3. off + at + Len(c) <= Len(s)
  BY <1>1
<1> QED
  BY <1>2, <1>3 DEF Has

-----------------------------------------------------------------------------
(***************************************************************************)
(* Where everything lies: the end of each block, and of each item in it,   *)
(* and the number of items before the end of each block.                   *)
(***************************************************************************)
Cuts(ss) == CHOOSE f : Borders(f, ss, FlattenSeq(ss))

BlockParts == [k \in 1 .. Len(blocks) |-> BlockBytes(blocks[k])]

ItemParts == [k \in 1 .. Len(blocks) |-> blocks[k].items]

Encoded(b) == [i \in 1 .. Len(b.items) |-> ItemBytes(b.items[i])]

BlockCut(k) == Cuts(BlockParts)[k]

ItemsUpTo(k) == Cuts(ItemParts)[k]

ItemCut(k, j) == BlockCut(k) - Len(Payload(blocks[k])) + Cuts(Encoded(blocks[k]))[j]

\* The array on the wire, which no step changes.
OnTheWire ==
  /\ blocks \in Seq(Block)
  /\ \A k \in 1 .. Len(blocks) : Len(Payload(blocks[k])) + blocks[k].slack \in 0 .. (Half - 1)
  /\ nulls \in BOOLEAN /\ end = "eof" /\ wire \in Seq(Byte)
  /\ wire = ArrayBytes(blocks) \o Following

LEMMA CutsAreBorders ==
  ASSUME NEW S, NEW ss \in Seq(Seq(S))
  PROVE  Borders(Cuts(ss), ss, FlattenSeq(ss))
<1>1. \E f : Borders(f, ss, FlattenSeq(ss))
  BY BordersExist
<1> HIDE DEF Borders
<1> QED
  BY <1>1 DEF Cuts

LEMMA ItemFacts ==
  ASSUME NEW b \in Block
  PROVE  /\ b.items \in Seq(Values) /\ Len(b.items) \in 1 .. (Half - 1)
         /\ \A i \in 1 .. Len(b.items) :
              /\ b.items[i] \in Values /\ b.items[i] \in Items /\ Len(b.items[i]) \in Long
              /\ ItemBytes(b.items[i]) = Encoding(nulls, b.items[i])
              /\ ItemBytes(b.items[i]) \in Seq(Byte)
         /\ Encoded(b) \in Seq(Seq(Byte)) /\ Len(Encoded(b)) = Len(b.items)
         /\ Payload(b) = FlattenSeq(Encoded(b)) /\ Payload(b) \in Seq(Byte)
<1>1. b.items \in BoundedSeq(Values, BlockItems) /\ b.items # << >>
  BY DEF Block
<1>2. b.items \in Seq(Values) /\ Len(b.items) <= BlockItems
  BY <1>1, ForeignAssumption, BoundedSeqType
<1>3. Len(b.items) \in 1 .. (Half - 1)
  <2>1. Len(b.items) # 0
    BY <1>1, <1>2
  <2> QED
    BY <1>2, <2>1, ForeignAssumption, HalfIsPositive
<1>4. Values \subseteq Items
  BY ItemsAssumption DEF Values
<1>5. \A v \in Items : v \in Seq(Byte) /\ Len(v) \in Long
  BY ItemsAssumption, ForeignAssumption, HalfIsPositive DEF Long
<1>6. \A v \in Items : ItemBytes(v) = Encoding(nulls, v) /\ ItemBytes(v) \in Seq(Byte)
  <2> SUFFICES ASSUME NEW v \in Items
               PROVE  ItemBytes(v) = Encoding(nulls, v) /\ ItemBytes(v) \in Seq(Byte)
    OBVIOUS
  <2>1. ItemBytes(v) = Encoding(nulls, v)
    BY DEF ItemBytes, Encoding
  <2> QED
    BY <1>5, <2>1, ItemEncodes
<1>7. \A i \in 1 .. Len(b.items) : b.items[i] \in Values
  BY <1>2
<1>8. Encoded(b) \in Seq(Seq(Byte)) /\ Len(Encoded(b)) = Len(b.items)
  BY <1>2, <1>4, <1>6, <1>7 DEF Encoded
<1>9. Payload(b) = FlattenSeq(Encoded(b))
  BY DEF Payload, Encoded
<1>10. Payload(b) \in Seq(Byte)
  BY <1>8, <1>9, FlattenSeqType
<1> QED
  BY <1>2, <1>3, <1>4, <1>5, <1>6, <1>7, <1>8, <1>9, <1>10

LEMMA BlockFacts ==
  ASSUME OnTheWire
  PROVE  /\ BlockParts \in Seq(Seq(Byte)) /\ Len(BlockParts) = Len(blocks)
         /\ ArrayBytes(blocks) = FlattenSeq(BlockParts) \o PutVarint(0)
         /\ FlattenSeq(BlockParts) \in Seq(Byte) /\ PutVarint(0) \in Seq(Byte)
         /\ Following \in Seq(Byte)
         /\ ItemParts \in Seq(Seq(Values)) /\ Len(ItemParts) = Len(blocks)
         /\ Contents = FlattenSeq(ItemParts) /\ Contents \in Seq(Values)
<1>1. \A k \in 1 .. Len(blocks) : blocks[k] \in Block
  BY DEF OnTheWire
<1>2. \A k \in 1 .. Len(blocks) : BlockBytes(blocks[k]) \in Seq(Byte)
  BY <1>1, BlockBytesType DEF OnTheWire
<1>3. Len(blocks) \in Nat
  BY DEF OnTheWire
<1>4. BlockParts \in Seq(Seq(Byte)) /\ Len(BlockParts) = Len(blocks)
  BY <1>2, <1>3 DEF BlockParts
<1>5. \A k \in 1 .. Len(blocks) : blocks[k].items \in Seq(Values)
  BY <1>1, ItemFacts
<1>6. ItemParts \in Seq(Seq(Values)) /\ Len(ItemParts) = Len(blocks)
  BY <1>3, <1>5 DEF ItemParts
<1>7. PutVarint(0) \in Seq(Byte)
  BY HalfIsPositive, PutVarintIsBytes DEF Long
<1>8. Following \in Seq(Byte)
  BY PutVarintIsBytes, HalfIsPositive, HalfExceedsOne DEF Following, Long
<1>9. ArrayBytes(blocks) = FlattenSeq(BlockParts) \o PutVarint(0)
  BY DEF ArrayBytes, BlockParts
<1>10. Contents = FlattenSeq(ItemParts)
  BY DEF Contents, ItemParts
<1> QED
  BY <1>4, <1>6, <1>7, <1>8, <1>9, <1>10, FlattenSeqType

Header(b) ==
  IF b.sized THEN PutVarint(-Len(b.items)) \o PutVarint(Len(Payload(b)))
             ELSE PutVarint(Len(b.items))

\* A block lies on the wire between its cuts, and its items in the contents.
LEMMA BlockPlace ==
  ASSUME OnTheWire, Honest, NEW k \in 1 .. Len(blocks)
  PROVE  /\ blocks[k] \in Block
         /\ BlockCut(k - 1) \in Nat /\ BlockCut(k) \in 0 .. Len(wire)
         /\ Header(blocks[k]) \in Seq(Byte)
         /\ BlockCut(k) = BlockCut(k - 1) + Len(Header(blocks[k])) + Len(Payload(blocks[k]))
         /\ Has(wire, BlockCut(k - 1), Header(blocks[k]))
         /\ Has(wire, BlockCut(k) - Len(Payload(blocks[k])), Payload(blocks[k]))
<1> DEFINE b == blocks[k]
           n == Len(b.items)
           size == Len(Payload(b))
           flat == FlattenSeq(BlockParts)
<1>1. b \in Block /\ b.slack = 0 /\ size + b.slack \in 0 .. (Half - 1)
  BY DEF OnTheWire, Honest
<1>2. n \in 1 .. (Half - 1) /\ Payload(b) \in Seq(Byte)
  BY <1>1, ItemFacts
<1>3. size \in Nat
  BY <1>2
<1> HIDE DEF n, size
<1>4. size \in 0 .. (Half - 1) /\ size + b.slack = size
  BY <1>1, <1>3
<1>5. n \in Long /\ -n \in Long /\ size \in Long
  BY <1>2, <1>4, HalfIsPositive DEF Long
<1>6. /\ PutVarint(n) \in Seq(Byte) /\ PutVarint(-n) \in Seq(Byte)
      /\ PutVarint(size) \in Seq(Byte)
  BY <1>5, PutVarintIsBytes
<1>7. Header(b) \in Seq(Byte)
  BY <1>6 DEF Header, n, size
<1>8. BlockBytes(b) = Header(b) \o Payload(b)
  BY <1>4 DEF BlockBytes, Header, n, size
<1>9. /\ BlockParts \in Seq(Seq(Byte)) /\ Len(BlockParts) = Len(blocks)
      /\ flat \in Seq(Byte) /\ PutVarint(0) \in Seq(Byte) /\ Following \in Seq(Byte)
      /\ wire = (flat \o PutVarint(0)) \o Following
  BY BlockFacts DEF OnTheWire
<1>10. Borders(Cuts(BlockParts), BlockParts, flat)
  BY <1>9, CutsAreBorders
<1>11. k \in 1 .. Len(BlockParts) /\ BlockParts[k] = BlockBytes(b)
  BY <1>9 DEF BlockParts
<1> HIDE DEF b
<1>12. /\ BlockCut(k) = BlockCut(k - 1) + Len(BlockBytes(b))
       /\ Has(flat, BlockCut(k - 1), BlockBytes(b))
  BY <1>10, <1>11 DEF Borders, BlockCut
<1>13. BlockCut(k - 1) \in Nat
  <2>1. Len(BlockParts) \in Nat
    BY <1>9
  <2>2. k - 1 \in 0 .. Len(BlockParts)
    BY <1>11, <2>1
  <2> QED
    BY <1>10, <2>2 DEF Borders, BlockCut
<1> HIDE DEF flat
<1>14. BlockBytes(b) \in Seq(Byte)
       /\ Len(BlockBytes(b)) = Len(Header(b)) + Len(Payload(b))
       /\ Len(Header(b)) \in Nat /\ Len(Payload(b)) \in Nat
  BY <1>2, <1>7, <1>8
<1>15. Has(wire, BlockCut(k - 1), BlockBytes(b))
  <2>1. flat \o PutVarint(0) \in Seq(Byte)
    BY <1>9
  <2>2. Has(flat \o PutVarint(0), BlockCut(k - 1), BlockBytes(b))
    BY <1>9, <1>12, <1>13, <1>14, StillHas
  <2> QED
    BY <1>9, <1>13, <1>14, <2>1, <2>2, StillHas
<1>16. wire \in Seq(Byte) /\ Len(wire) \in Nat
  BY DEF OnTheWire
<1>17. /\ Has(wire, BlockCut(k - 1), Header(b))
       /\ Has(wire, BlockCut(k - 1) + Len(Header(b)), Payload(b))
  BY <1>2, <1>7, <1>8, <1>13, <1>15, <1>16, HasParts
<1>18. /\ BlockCut(k) = BlockCut(k - 1) + Len(Header(b)) + Len(Payload(b))
       /\ BlockCut(k) - Len(Payload(b)) = BlockCut(k - 1) + Len(Header(b))
       /\ BlockCut(k) \in Nat
  BY <1>12, <1>13, <1>14
<1>19. BlockCut(k) <= Len(wire)
  BY <1>12, <1>15 DEF Has
<1>20. BlockCut(k) \in 0 .. Len(wire)
  BY <1>16, <1>18, <1>19
<1> QED
  BY <1>1, <1>7, <1>13, <1>17, <1>18, <1>20 DEF b

LEMMA ContentsPlace ==
  ASSUME OnTheWire, NEW k \in 1 .. Len(blocks)
  PROVE  /\ ItemsUpTo(k - 1) \in Nat
         /\ ItemsUpTo(k) = ItemsUpTo(k - 1) + Len(blocks[k].items)
         /\ ItemsUpTo(k) <= Len(Contents)
         /\ \A j \in 1 .. Len(blocks[k].items) :
              Contents[ItemsUpTo(k - 1) + j] = blocks[k].items[j]
<1>1. /\ ItemParts \in Seq(Seq(Values)) /\ Len(ItemParts) = Len(blocks)
      /\ Contents = FlattenSeq(ItemParts) /\ Contents \in Seq(Values)
  BY BlockFacts
<1>2. Borders(Cuts(ItemParts), ItemParts, Contents)
  BY <1>1, CutsAreBorders
<1>3. k \in 1 .. Len(ItemParts) /\ ItemParts[k] = blocks[k].items
  BY <1>1 DEF ItemParts
<1>4. /\ ItemsUpTo(k) = ItemsUpTo(k - 1) + Len(blocks[k].items)
      /\ Has(Contents, ItemsUpTo(k - 1), blocks[k].items)
  BY <1>2, <1>3 DEF Borders, ItemsUpTo
<1>5. ItemsUpTo(k - 1) \in Nat
  <2>1. Len(ItemParts) \in Nat
    BY <1>1
  <2>2. k - 1 \in 0 .. Len(ItemParts)
    BY <1>3, <2>1
  <2> QED
    BY <1>2, <2>2 DEF Borders, ItemsUpTo
<1> QED
  BY <1>4, <1>5 DEF Has

\* The first and the last cuts.
LEMMA OuterCuts ==
  ASSUME OnTheWire
  PROVE  /\ BlockCut(0) = 0 /\ ItemsUpTo(0) = 0
         /\ BlockCut(Len(blocks)) = Len(FlattenSeq(BlockParts))
         /\ ItemsUpTo(Len(blocks)) = Len(Contents)
         /\ BlockCut(Len(blocks)) \in Nat
         /\ Has(wire, BlockCut(Len(blocks)), PutVarint(0))
         /\ BlockCut(Len(blocks)) + Len(PutVarint(0)) = Len(ArrayBytes(blocks))
         /\ Len(ArrayBytes(blocks)) <= Len(wire)
<1>1. /\ ItemParts \in Seq(Seq(Values)) /\ Len(ItemParts) = Len(blocks)
      /\ Contents = FlattenSeq(ItemParts)
      /\ BlockParts \in Seq(Seq(Byte)) /\ Len(BlockParts) = Len(blocks)
      /\ FlattenSeq(BlockParts) \in Seq(Byte) /\ PutVarint(0) \in Seq(Byte)
      /\ Following \in Seq(Byte)
      /\ ArrayBytes(blocks) = FlattenSeq(BlockParts) \o PutVarint(0)
      /\ wire = ArrayBytes(blocks) \o Following
  BY BlockFacts DEF OnTheWire
<1>2. /\ Borders(Cuts(ItemParts), ItemParts, Contents)
      /\ Borders(Cuts(BlockParts), BlockParts, FlattenSeq(BlockParts))
  BY <1>1, CutsAreBorders
<1>3. /\ BlockCut(0) = 0 /\ ItemsUpTo(0) = 0
      /\ BlockCut(Len(blocks)) = Len(FlattenSeq(BlockParts))
      /\ ItemsUpTo(Len(blocks)) = Len(Contents)
  BY <1>1, <1>2 DEF Borders, BlockCut, ItemsUpTo
<1>4. PICK flat \in Seq(Byte) : flat = FlattenSeq(BlockParts)
  BY <1>1
<1>5. /\ Has(flat \o PutVarint(0), Len(flat), PutVarint(0))
      /\ Len(flat \o PutVarint(0)) = Len(flat) + Len(PutVarint(0))
      /\ flat \o PutVarint(0) \in Seq(Byte) /\ Len(flat) \in Nat
  BY <1>1, HasAppended
<1>6. Has(wire, Len(flat), PutVarint(0))
  BY <1>1, <1>4, <1>5, StillHas
<1>7. \A s, t \in Seq(Byte) : Len(s) <= Len(s \o t)
  OBVIOUS
<1> QED
  BY <1>1, <1>3, <1>4, <1>5, <1>6, <1>7

\* An item lies on the wire between its cuts.
LEMMA ItemPlace ==
  ASSUME OnTheWire, Honest, NEW k \in 1 .. Len(blocks), NEW j \in 1 .. Len(blocks[k].items)
  PROVE  /\ ItemCut(k, j - 1) \in Nat
         /\ ItemCut(k, j) = ItemCut(k, j - 1) + Len(Encoding(nulls, blocks[k].items[j]))
         /\ Has(wire, ItemCut(k, j - 1), Encoding(nulls, blocks[k].items[j]))
         /\ ItemCut(k, j) \in 0 .. Len(wire)
<1> DEFINE b == blocks[k]
           e == Encoding(nulls, b.items[j])
           from == BlockCut(k) - Len(Payload(b))
           cuts == Cuts(Encoded(b))
<1>1. /\ b \in Block /\ BlockCut(k) \in Nat /\ Has(wire, from, Payload(b)) /\ from \in Nat
      /\ wire \in Seq(Byte)
  <2>1. /\ b \in Block /\ BlockCut(k) \in 0 .. Len(wire) /\ Has(wire, from, Payload(b))
        /\ Header(b) \in Seq(Byte) /\ BlockCut(k - 1) \in Nat
        /\ BlockCut(k) = BlockCut(k - 1) + Len(Header(b)) + Len(Payload(b))
    BY BlockPlace
  <2>2. Payload(b) \in Seq(Byte)
    BY <2>1, ItemFacts
  <2>3. /\ wire \in Seq(Byte)
        /\ Len(Payload(b)) \in Nat /\ Len(Header(b)) \in Nat /\ Len(wire) \in Nat
    <3>1. \A s \in Seq(Byte) : Len(s) \in Nat
      OBVIOUS
    <3> QED
      BY <2>1, <2>2, <3>1 DEF OnTheWire
  <2>4. from \in Nat /\ BlockCut(k) \in Nat
    BY <2>1, <2>3
  <2> QED
    BY <2>1, <2>3, <2>4
<1>2. /\ Encoded(b) \in Seq(Seq(Byte)) /\ Len(Encoded(b)) = Len(b.items)
      /\ Payload(b) = FlattenSeq(Encoded(b)) /\ Payload(b) \in Seq(Byte)
      /\ ItemBytes(b.items[j]) = e /\ e \in Seq(Byte)
  BY <1>1, ItemFacts
<1>3. Borders(cuts, Encoded(b), Payload(b))
  BY <1>2, CutsAreBorders
<1>4. j \in 1 .. Len(Encoded(b)) /\ Encoded(b)[j] = e /\ Len(Encoded(b)) \in Nat
  BY <1>2 DEF Encoded
<1>5. j - 1 \in 0 .. Len(Encoded(b))
  BY <1>4
<1>6. /\ cuts[j - 1] \in Nat /\ cuts[j] = cuts[j - 1] + Len(e)
      /\ Has(Payload(b), cuts[j - 1], e)
  BY <1>3, <1>4, <1>5 DEF Borders
<1>7. Has(wire, from + cuts[j - 1], e)
  BY <1>1, <1>2, <1>6, HasWithin
<1>8. ItemCut(k, j) = from + cuts[j] /\ ItemCut(k, j - 1) = from + cuts[j - 1]
  BY DEF ItemCut
<1>9. from + cuts[j - 1] + Len(e) <= Len(wire)
  BY <1>7 DEF Has
<1>10. Len(e) \in Nat /\ Len(wire) \in Nat
  BY <1>1, <1>2
<1> HIDE DEF from, cuts, e
<1>11. /\ from + cuts[j - 1] \in Nat /\ from + cuts[j] = from + cuts[j - 1] + Len(e)
       /\ from + cuts[j] \in 0 .. Len(wire)
  <2>1. PICK x \in Nat, y \in Nat, z \in Nat, l \in Nat :
          x = from /\ y = cuts[j - 1] /\ z = Len(e) /\ l = Len(wire)
    BY <1>1, <1>6, <1>10
  <2>2. x + y + z <= l /\ cuts[j] = y + z
    BY <1>6, <1>9, <2>1
  <2>3. x + y \in Nat /\ x + (y + z) = x + y + z /\ x + (y + z) \in 0 .. l
    BY <2>2
  <2> QED
    BY <2>1, <2>2, <2>3
<1> QED
  BY <1>7, <1>8, <1>11 DEF e

LEMMA InnerCuts ==
  ASSUME OnTheWire, Honest, NEW k \in 1 .. Len(blocks)
  PROVE  /\ ItemCut(k, 0) = BlockCut(k) - Len(Payload(blocks[k]))
         /\ ItemCut(k, Len(blocks[k].items)) = BlockCut(k)
         /\ \A j \in 0 .. Len(blocks[k].items) :
              ItemCut(k, j) \in Nat /\ ItemCut(k, j) <= BlockCut(k)
<1> DEFINE b == blocks[k]
           cuts == Cuts(Encoded(b))
<1>1. /\ b \in Block /\ BlockCut(k) \in 0 .. Len(wire)
      /\ Header(b) \in Seq(Byte) /\ BlockCut(k - 1) \in Nat
      /\ BlockCut(k) = BlockCut(k - 1) + Len(Header(b)) + Len(Payload(b))
  BY BlockPlace
<1>2. /\ Encoded(b) \in Seq(Seq(Byte)) /\ Len(Encoded(b)) = Len(b.items)
      /\ Payload(b) = FlattenSeq(Encoded(b)) /\ Payload(b) \in Seq(Byte)
  BY <1>1, ItemFacts
<1>3. Borders(cuts, Encoded(b), Payload(b))
  BY <1>2, CutsAreBorders
<1>4. /\ cuts[0] = 0 /\ cuts[Len(b.items)] = Len(Payload(b))
      /\ \A j \in 0 .. Len(b.items) : cuts[j] \in Nat
  BY <1>2, <1>3 DEF Borders
<1>5. /\ Len(b.items) \in Nat /\ Len(Payload(b)) \in Nat /\ BlockCut(k) \in Nat
      /\ Len(Header(b)) \in Nat
  <2>1. Len(wire) \in Nat
    BY DEF OnTheWire
  <2>2. Len(Encoded(b)) \in Nat /\ Len(Payload(b)) \in Nat /\ Len(Header(b)) \in Nat
    BY <1>1, <1>2
  <2> QED
    BY <1>1, <1>2, <2>1, <2>2
<1>6. \A j \in 0 .. Len(b.items) : cuts[j] <= Len(Payload(b))
  <2> SUFFICES ASSUME NEW j \in 0 .. Len(b.items) PROVE cuts[j] <= Len(Payload(b))
    OBVIOUS
  <2>1. CASE j = 0
    BY <1>4, <1>5, <2>1
  <2>2. CASE j # 0
    <3>1. j \in 1 .. Len(Encoded(b))
      BY <1>2, <1>5, <2>2
    <3>2. cuts[j] = cuts[j - 1] + Len(Encoded(b)[j]) /\ Has(Payload(b), cuts[j - 1], Encoded(b)[j])
      BY <1>3, <3>1 DEF Borders
    <3> QED
      BY <3>2 DEF Has
  <2> QED
    BY <2>1, <2>2
<1>7. \A j : ItemCut(k, j) = BlockCut(k) - Len(Payload(b)) + cuts[j]
  BY DEF ItemCut
<1> HIDE DEF b, cuts
<1>8. BlockCut(k) - Len(Payload(b)) \in Nat
  BY <1>1, <1>5
<1>9. \A j \in 0 .. Len(b.items) : ItemCut(k, j) \in Nat /\ ItemCut(k, j) <= BlockCut(k)
  BY <1>4, <1>5, <1>6, <1>7, <1>8
<1>10. ItemCut(k, 0) = BlockCut(k) - Len(Payload(b)) /\ ItemCut(k, Len(b.items)) = BlockCut(k)
  BY <1>4, <1>5, <1>7, <1>8
<1> QED
  BY <1>9, <1>10 DEF b

-----------------------------------------------------------------------------
(***************************************************************************)
(* Where a reader may stand, having passed m items: before a block or the  *)
(* end of the array, in a block with j of its items taken, or at the end.  *)
(***************************************************************************)
Going(r) == r \in Readers /\ r.err = "none" /\ ~r.done

Between(r, m, k) ==
  Going(r) /\ r.remaining = 0 /\ r.off = BlockCut(k) /\ m = ItemsUpTo(k)

Within(r, m, k, j) ==
  /\ Going(r)
  /\ r.remaining = Len(blocks[k].items) - j /\ r.off = ItemCut(k, j)
  /\ r.sized = blocks[k].sized
  /\ r.sized => r.blockEnd = BlockCut(k)
  /\ m = ItemsUpTo(k - 1) + j

AllRead(r, m) ==
  /\ r \in Readers /\ r.err = "none" /\ r.done
  /\ r.off = Len(ArrayBytes(blocks)) /\ m = Len(Contents)

Before(r, m) == \E k \in 0 .. Len(blocks) : Between(r, m, k)

InOne(r, m) ==
  \E k \in 1 .. Len(blocks) : \E j \in 0 .. Len(blocks[k].items) - 1 : Within(r, m, k, j)

AtItsPlace(r, m) == Before(r, m) \/ InOne(r, m) \/ AllRead(r, m)

\* The long after the bytes before it.
LEMMA LongOnWire ==
  ASSUME wire \in Seq(Byte), NEW off \in Nat, NEW l \in Long, Has(wire, off, PutVarint(l))
  PROVE  ReadLong(wire, end, off) = Result(off + Len(PutVarint(l)), "none", l)
<1>1. Begins(wire, wire)
  BY DEF Begins
<1>2. Len(PutVarint(l)) \in Nat
  BY PutVarintIsBytes
<1>3. off + Len(PutVarint(l)) <= Len(wire) /\ Len(wire) \in Nat
  BY DEF Has
<1>4. off \in 0 .. Len(wire)
  BY <1>2, <1>3
<1> QED
  BY <1>1, <1>3, <1>4, LongAt

LEMMA HeaderRead ==
  ASSUME OnTheWire, Honest, Len(wire) < Half, NEW k \in 1 .. Len(blocks), NEW r, NEW m,
         Between(r, m, k - 1)
  PROVE  Within(NextBlock(r), m, k, 0)
<1> DEFINE b == blocks[k]
           n == Len(b.items)
           size == Len(Payload(b))
           from == BlockCut(k - 1)
           at == ItemCut(k, 0)
           q == NextBlock(r)
<1>1. /\ b \in Block /\ from \in Nat /\ BlockCut(k) \in 0 .. Len(wire)
      /\ Header(b) \in Seq(Byte)
      /\ BlockCut(k) = from + Len(Header(b)) + size
      /\ Has(wire, from, Header(b))
  BY BlockPlace
<1>2. n \in 1 .. (Half - 1) /\ Payload(b) \in Seq(Byte) /\ b.sized \in BOOLEAN
  BY <1>1, ItemFacts DEF Block
<1>3. wire \in Seq(Byte) /\ Len(wire) \in Nat /\ Half \in Nat
  BY HalfIsPositive DEF OnTheWire
<1>4. /\ r \in Readers /\ r.err = "none" /\ ~r.done /\ r.remaining = 0 /\ r.off = from
      /\ m = ItemsUpTo(k - 1) /\ ItemsUpTo(k - 1) \in Nat
  BY ContentsPlace DEF Between, Going
<1>5. size \in Nat /\ Len(Header(b)) \in Nat
  BY <1>1, <1>2
<1>6. at = BlockCut(k) - size /\ at \in Nat
  BY InnerCuts
<1> HIDE DEF n, size, from, at
<1>7. /\ n \in Long /\ -n \in Long /\ size \in Long /\ n > 0 /\ n \in Nat
      /\ -n # -Half /\ -n < 0 /\ -n # 0
      /\ BlockCut(k) \in Nat /\ BlockCut(k) \in Long /\ at + size = BlockCut(k)
      /\ at = from + Len(Header(b))
  BY <1>1, <1>2, <1>3, <1>5, <1>6 DEF Long
<1>8. CASE ~b.sized
  <2>1. Header(b) = PutVarint(n)
    BY <1>8 DEF Header, n
  <2>2. ReadLong(wire, end, from) = Result(at, "none", n)
    BY <1>1, <1>3, <1>7, <2>1, LongOnWire
  <2>3. q = [r EXCEPT !.off = at, !.sized = FALSE, !.remaining = n]
    BY <1>4, <1>7, <2>2 DEF NextBlock, Result
  <2>4. /\ q \in Readers /\ q.err = "none" /\ ~q.done /\ q.off = at /\ q.remaining = n
        /\ ~q.sized
    BY <1>4, <1>6, <1>7, <2>3 DEF Readers
  <2> HIDE DEF q
  <2>5. q.remaining = Len(b.items) - 0 /\ m = ItemsUpTo(k - 1) + 0
    BY <1>4, <1>7, <2>4 DEF n
  <2>6. q.off = ItemCut(k, 0)
    BY <2>4 DEF at
  <2>7. q.sized = b.sized
    BY <1>2, <1>8, <2>4 DEF Readers
  <2> HIDE DEF b
  <2>8. Within(q, m, k, 0)
    BY <2>4, <2>5, <2>6, <2>7 DEF Within, Going, b
  <2> QED
    BY <2>8 DEF q
<1>9. CASE b.sized
  <2> DEFINE count == PutVarint(-n)
             length == PutVarint(size)
             mid == from + Len(count)
             placed == [r EXCEPT !.sized = TRUE, !.blockEnd = BlockCut(k)]
  <2>1. count \in Seq(Byte) /\ length \in Seq(Byte)
    BY <1>7, PutVarintIsBytes
  <2>2. Header(b) = count \o length
    BY <1>9 DEF Header, n, size
  <2>3. Has(wire, from, count) /\ Has(wire, mid, length)
    BY <1>1, <1>3, <2>1, <2>2, HasParts
  <2>4. Len(count) \in Nat /\ Len(length) \in Nat /\ Len(Header(b)) = Len(count) + Len(length)
    BY <2>1, <2>2
  <2>5. ReadLong(wire, end, from) = Result(mid, "none", -n)
    BY <1>1, <1>3, <1>7, <2>3, LongOnWire
  <2>6. mid \in Nat /\ mid + Len(length) = at
    BY <1>1, <1>7, <2>4
  <2> HIDE DEF mid
  <2>7. ReadLong(wire, end, mid) = Result(at, "none", size)
    BY <1>3, <1>7, <2>3, <2>6, LongOnWire
  <2>8. BlockEnd(Result(at, "none", size)) = BlockCut(k)
    BY <1>7, WrapOfLong DEF BlockEnd, Result
  <2>9. Wrap(n) = n /\ -(-n) = n
    BY <1>7, WrapOfLong
  <2>10. ~NoMagnitude(-n)
    BY <1>7 DEF NoMagnitude
  <2>11. q = SizedHeader(r, mid, -n)
    BY <1>4, <1>7, <2>5 DEF NextBlock, Result
  <2>12. /\ Result(at, "none", size).err = "none" /\ ~(Result(at, "none", size).val < 0)
         /\ Result(at, "none", size).off = at
         /\ ~(BlockEnd(Result(at, "none", size)) < 0)
    BY <1>5, <1>7, <2>8 DEF Result
  <2>13. SizedHeader(r, mid, -n) =
           [[[r EXCEPT !.sized = TRUE] EXCEPT !.blockEnd = BlockCut(k)]
              EXCEPT !.off = at, !.remaining = n]
    BY <2>7, <2>8, <2>9, <2>10, <2>12 DEF SizedHeader
  <2> HIDE DEF q
  <2>14. /\ q \in Readers /\ q.err = "none" /\ ~q.done /\ q.off = at /\ q.remaining = n
         /\ q.sized /\ q.blockEnd = BlockCut(k)
    <3>1. PICK last \in Long : last = BlockCut(k)
      BY <1>7
    <3>2. q = [r EXCEPT !.sized = TRUE, !.blockEnd = last, !.off = at, !.remaining = n]
      BY <1>4, <2>11, <2>13, <3>1 DEF Readers
    <3>3. at \in Nat /\ n \in Nat /\ TRUE \in BOOLEAN /\ r \in Readers /\ r.err = "none" /\ ~r.done
      BY <1>4, <1>6, <1>7
    <3>4. /\ q \in Readers /\ q.err = "none" /\ ~q.done /\ q.off = at /\ q.remaining = n
          /\ q.sized /\ q.blockEnd = last
      BY <3>2, <3>3 DEF Readers
    <3> QED
      BY <3>1, <3>4
  <2>15. q.remaining = Len(b.items) - 0 /\ m = ItemsUpTo(k - 1) + 0
    BY <1>4, <1>7, <2>14 DEF n
  <2>16. q.off = ItemCut(k, 0)
    BY <2>14 DEF at
  <2> QED
    BY <1>9, <2>14, <2>15, <2>16 DEF Within, Going, q
<1> QED
  BY <1>2, <1>8, <1>9

LEMMA LastRead ==
  ASSUME OnTheWire, NEW r, NEW m, Between(r, m, Len(blocks))
  PROVE  AllRead(NextBlock(r), m)
<1> DEFINE from == BlockCut(Len(blocks))
           q == NextBlock(r)
<1>1. /\ from \in Nat /\ Has(wire, from, PutVarint(0))
      /\ from + Len(PutVarint(0)) = Len(ArrayBytes(blocks))
      /\ ItemsUpTo(Len(blocks)) = Len(Contents)
  BY OuterCuts
<1>2. r \in Readers /\ r.err = "none" /\ r.off = from /\ m = Len(Contents)
  BY <1>1 DEF Between, Going
<1>3. 0 \in Long /\ wire \in Seq(Byte)
  BY HalfIsPositive DEF Long, OnTheWire
<1>4. ReadLong(wire, end, from) = Result(Len(ArrayBytes(blocks)), "none", 0)
  BY <1>1, <1>3, LongOnWire
<1>5. q = [r EXCEPT !.off = Len(ArrayBytes(blocks)), !.done = TRUE]
  BY <1>2, <1>4 DEF NextBlock, Result
<1>6. Len(ArrayBytes(blocks)) \in Nat
  <2>1. Len(PutVarint(0)) \in Nat
    BY <1>3, PutVarintIsBytes
  <2> QED
    BY <1>1, <2>1
<1> HIDE DEF from
<1> QED
  BY <1>2, <1>5, <1>6 DEF AllRead, Readers

LEMMA PositionedAtPlace ==
  ASSUME OnTheWire, Honest, Len(wire) < Half, NEW r, NEW m, AtItsPlace(r, m), ~r.done
  PROVE  InOne(Positioned(r), m) \/ AllRead(Positioned(r), m)
<1>1. Len(blocks) \in Nat
  BY DEF OnTheWire
<1>2. CASE Before(r, m)
  <2>1. PICK k \in 0 .. Len(blocks) : Between(r, m, k)
    BY <1>2 DEF Before
  <2>2. Positioned(r) = NextBlock(r)
    BY <2>1 DEF Positioned, Between
  <2>3. CASE k = Len(blocks)
    BY <2>1, <2>2, <2>3, LastRead
  <2>4. CASE k # Len(blocks)
    <3>1. k + 1 \in 1 .. Len(blocks) /\ (k + 1) - 1 = k
      BY <1>1, <2>1, <2>4
    <3>2. Within(Positioned(r), m, k + 1, 0)
      BY <2>1, <2>2, <3>1, HeaderRead
    <3>3. 0 \in 0 .. Len(blocks[k + 1].items) - 1
      <4>1. blocks[k + 1] \in Block
        BY <3>1 DEF OnTheWire
      <4>2. Len(blocks[k + 1].items) \in 1 .. (Half - 1) /\ Half \in Nat
        BY <4>1, ItemFacts, HalfIsPositive
      <4> QED
        BY <4>2
    <3> QED
      BY <3>1, <3>2, <3>3 DEF InOne
  <2> QED
    BY <2>3, <2>4
<1>3. CASE InOne(r, m)
  <2>0. PICK k \in 1 .. Len(blocks) : \E j \in 0 .. Len(blocks[k].items) - 1 : Within(r, m, k, j)
    BY <1>3 DEF InOne
  <2>1. PICK j \in 0 .. Len(blocks[k].items) - 1 : Within(r, m, k, j)
    BY <2>0
  <2>2. blocks[k] \in Block
    BY DEF OnTheWire
  <2>3. Len(blocks[k].items) \in Nat
    BY <2>2, ItemFacts
  <2>4. r.remaining # 0
    BY <2>1, <2>3 DEF Within
  <2> QED
    BY <1>3, <2>4 DEF Positioned
<1> QED
  BY <1>2, <1>3 DEF AtItsPlace, AllRead

SmallItems == \A v \in Items : Len(v) < IntHalf

\* Next takes the item at the reader's place.
LEMMA DecodeInOne ==
  ASSUME OnTheWire, Honest, SmallItems, NEW p, NEW m, InOne(p, m)
  PROVE  LET item == Unmarshal(p.off)
             after == [p EXCEPT !.off = item.off, !.remaining = @ - 1]
         IN  /\ item.err = "none" /\ item.val = Contents[m + 1]
             /\ ~SizeWrong(after) /\ AtItsPlace(after, m + 1)
<1> DEFINE item == Unmarshal(p.off)
           after == [p EXCEPT !.off = item.off, !.remaining = @ - 1]
<1>1. PICK k \in 1 .. Len(blocks) : \E j \in 0 .. Len(blocks[k].items) - 1 : Within(p, m, k, j)
  BY DEF InOne
<1>2. PICK j \in 0 .. Len(blocks[k].items) - 1 : Within(p, m, k, j)
  BY <1>1
<1> DEFINE b == blocks[k]
           n == Len(b.items)
           v == b.items[j + 1]
           to == ItemCut(k, j + 1)
<1>3. b \in Block
  BY DEF OnTheWire
<1>4. /\ n \in Nat
      /\ \A i \in 1 .. n : /\ b.items[i] \in Values /\ b.items[i] \in Items
                           /\ Len(b.items[i]) \in Long
  <2>1. b.items \in Seq(Values)
    BY <1>3, ItemFacts
  <2>2. n \in Nat
    BY <2>1
  <2> QED
    BY <1>3, <2>2, ItemFacts
<1>5. j \in Nat /\ j + 1 \in 1 .. n /\ (j + 1) - 1 = j
  BY <1>2, <1>4
<1>6. /\ ItemCut(k, j) \in Nat /\ to = ItemCut(k, j) + Len(Encoding(nulls, v))
      /\ Has(wire, ItemCut(k, j), Encoding(nulls, v)) /\ to \in 0 .. Len(wire)
  BY <1>5, ItemPlace
<1>7. v \in Values /\ v \in Items /\ Len(v) \in Long /\ Len(v) < IntHalf
  BY <1>4, <1>5 DEF SmallItems
<1>8. p \in Readers /\ p.err = "none" /\ ~p.done /\ p.remaining = n - j /\ p.off = ItemCut(k, j)
      /\ p.sized = b.sized /\ (p.sized => p.blockEnd = BlockCut(k)) /\ m = ItemsUpTo(k - 1) + j
  BY <1>2 DEF Within, Going
<1> HIDE DEF b, n, v, to
<1>9. StreamTypeOK /\ wire \in Seq(Byte) /\ Begins(wire, wire) /\ Len(wire) \in Nat
  BY DEF OnTheWire, StreamTypeOK, Ends, Begins
<1>10. ItemCut(k, j) \in 0 .. Len(wire)
  <2>1. Len(Encoding(nulls, v)) \in Nat
    BY <1>7, ItemEncodes
  <2> QED
    BY <1>6, <1>9, <2>1
<1>11. item = Result(to, "none", v)
  <2>1. to <= Len(wire)
    BY <1>6, <1>9
  <2>2. Unmarshal(ItemCut(k, j)).err = "none"
    BY <1>6, <1>7, <1>9, <1>10, <2>1, ItemAt
  <2> QED
    BY <1>6, <1>7, <1>8, <1>9, <1>10, <2>2, ItemAt
<1>12. item.err = "none" /\ item.val = v /\ item.off = to
  BY <1>11 DEF Result
<1> HIDE DEF item
<1>13. /\ ItemsUpTo(k - 1) \in Nat /\ ItemsUpTo(k) = ItemsUpTo(k - 1) + n
       /\ Contents[ItemsUpTo(k - 1) + (j + 1)] = v
  <2>1. /\ ItemsUpTo(k - 1) \in Nat
        /\ ItemsUpTo(k) = ItemsUpTo(k - 1) + Len(blocks[k].items)
        /\ \A i \in 1 .. Len(blocks[k].items) :
              Contents[ItemsUpTo(k - 1) + i] = blocks[k].items[i]
    BY ContentsPlace
  <2> QED
    BY <1>5, <2>1 DEF b, n, v
<1>14. m + 1 = ItemsUpTo(k - 1) + (j + 1)
  <2>1. PICK before \in Nat : before = ItemsUpTo(k - 1)
    BY <1>13
  <2> QED
    BY <1>5, <1>8, <2>1
<1>15. item.val = Contents[m + 1]
  BY <1>12, <1>13, <1>14
<1>16. after = [p EXCEPT !.off = to, !.remaining = n - (j + 1)]
  <2>1. p.remaining - 1 = n - (j + 1)
    BY <1>4, <1>5, <1>8
  <2> QED
    BY <1>12, <2>1
<1>17. to \in Nat /\ n - (j + 1) \in Nat
  BY <1>4, <1>5, <1>6, <1>9
<1>18. /\ after \in Readers /\ after.err = "none" /\ ~after.done /\ after.off = to
       /\ after.remaining = n - (j + 1) /\ after.sized = p.sized /\ after.blockEnd = p.blockEnd
  BY <1>8, <1>16, <1>17 DEF Readers
<1> HIDE DEF after
<1>19. CASE j + 1 = n
  <2>1. after.remaining = 0 /\ m + 1 = ItemsUpTo(k) /\ to = BlockCut(k)
    <3>1. ItemCut(k, n) = BlockCut(k)
      BY InnerCuts DEF n, b
    <3> QED
      BY <1>4, <1>13, <1>14, <1>18, <1>19, <3>1 DEF to
  <2>2. ~SizeWrong(after)
    BY <1>8, <1>18, <2>1 DEF SizeWrong
  <2>3. k \in 0 .. Len(blocks)
    BY <1>1 DEF OnTheWire
  <2>4. Between(after, m + 1, k)
    BY <1>18, <2>1 DEF Between, Going
  <2>5. AtItsPlace(after, m + 1)
    BY <2>3, <2>4 DEF AtItsPlace, Before
  <2> QED
    BY <1>12, <1>15, <2>2, <2>5 DEF after, item
<1>20. CASE j + 1 # n
  <2>1. after.remaining # 0 /\ j + 1 \in 0 .. n - 1
    BY <1>4, <1>5, <1>18, <1>20
  <2>2. ~SizeWrong(after)
    BY <2>1 DEF SizeWrong
  <2>3. Within(after, m + 1, k, j + 1)
    BY <1>8, <1>14, <1>18 DEF Within, Going, b, n, to
  <2>4. AtItsPlace(after, m + 1)
    BY <2>1, <2>3 DEF AtItsPlace, InOne, b, n
  <2> QED
    BY <1>12, <1>15, <2>2, <2>4 DEF after, item
<1> QED
  BY <1>19, <1>20

LEMMA InOneGoes == ASSUME NEW p, NEW m, InOne(p, m) PROVE InBlock(p) /\ p \in Readers
BY DEF InOne, Within, Going, InBlock

LEMMA DecodeAtPlace ==
  ASSUME OnTheWire, Honest, Len(wire) < Half, SmallItems, NEW r, NEW m,
         AtItsPlace(r, m), ~r.done
  PROVE  LET res == DecodeNext(r)
         IN  \/ ~res.ok /\ AtItsPlace(res.rd, m)
             \/ res.ok /\ AtItsPlace(res.rd, m + 1) /\ res.val = Contents[m + 1]
<1> DEFINE p == Positioned(r)
           item == Unmarshal(p.off)
           after == [p EXCEPT !.off = item.off, !.remaining = @ - 1]
           res == DecodeNext(r)
<1>1. InOne(p, m) \/ AllRead(p, m)
  BY PositionedAtPlace
<1>2. CASE AllRead(p, m)
  <2>1. ~InBlock(p)
    BY <1>2 DEF AllRead, InBlock
  <2>2. res = NoItem(p)
    BY <2>1 DEF DecodeNext
  <2>3. ~res.ok /\ res.rd = p
    BY <2>2 DEF NoItem
  <2> QED
    BY <1>2, <2>3 DEF AtItsPlace
<1>3. CASE InOne(p, m)
  <2>1. InBlock(p)
    BY <1>3, InOneGoes
  <2>2. item.err = "none" /\ item.val = Contents[m + 1] /\ ~SizeWrong(after) /\ AtItsPlace(after, m + 1)
    BY <1>3, DecodeInOne
  <2>3. res = [rd |-> after, ok |-> TRUE, val |-> item.val, skipped |-> 0]
    BY <2>1, <2>2 DEF DecodeNext
  <2> HIDE DEF after, item
  <2>4. res.ok /\ res.rd = after /\ res.val = item.val
    BY <2>3
  <2> QED
    BY <2>2, <2>4
<1> QED
  BY <1>1, <1>2, <1>3

\* SkipBlock takes the rest of a sized block, and leaves an unsized one be.
LEMMA DiscardAtPlace ==
  ASSUME OnTheWire, Honest, Len(wire) < Half, NEW r, NEW m, AtItsPlace(r, m), ~r.done
  PROVE  AtItsPlace(DiscardBlock(r).rd, m + DiscardBlock(r).skipped)
<1> DEFINE p == Positioned(r)
           rest == Discard(wire, end, p.off, Unread(p))
           res == DiscardBlock(r)
<1>0. ASSUME NEW q, res = NoItem(q), AtItsPlace(q, m)
      PROVE  AtItsPlace(res.rd, m + res.skipped)
  <2>1. res.rd = q /\ res.skipped = 0
    BY <1>0 DEF NoItem
  <2>2. m \in Nat
    <3>1. CASE Before(q, m)
      <4>1. PICK k \in 0 .. Len(blocks) : Between(q, m, k)
        BY <3>1 DEF Before
      <4>2. CASE k = 0
        BY <4>1, <4>2, OuterCuts DEF Between
      <4>3. CASE k # 0
        <5>1. k \in 1 .. Len(blocks) /\ Len(blocks) \in Nat
          BY <4>1, <4>3 DEF OnTheWire
        <5>2. blocks[k] \in Block
          BY <5>1 DEF OnTheWire
        <5>3. /\ ItemsUpTo(k - 1) \in Nat
              /\ ItemsUpTo(k) = ItemsUpTo(k - 1) + Len(blocks[k].items)
              /\ Len(blocks[k].items) \in Nat
          BY <5>1, <5>2, ContentsPlace, ItemFacts
        <5> QED
          BY <4>1, <5>3 DEF Between
      <4> QED
        BY <4>2, <4>3
    <3>2. CASE InOne(q, m)
      <4>1. PICK k \in 1 .. Len(blocks) : \E j \in 0 .. Len(blocks[k].items) - 1 : Within(q, m, k, j)
        BY <3>2 DEF InOne
      <4>2. PICK j \in 0 .. Len(blocks[k].items) - 1 : Within(q, m, k, j)
        BY <4>1
      <4>3. ItemsUpTo(k - 1) \in Nat
        BY ContentsPlace
      <4>4. m = ItemsUpTo(k - 1) + j
        BY <4>2 DEF Within
      <4> QED
        BY <4>3, <4>4
    <3>3. CASE AllRead(q, m)
      <4>1. Len(Contents) \in Nat
        BY BlockFacts
      <4> QED
        BY <3>3, <4>1 DEF AllRead
    <3> QED
      BY <1>0, <3>1, <3>2, <3>3 DEF AtItsPlace
  <2> QED
    BY <1>0, <2>1, <2>2
<1>1. InOne(p, m) \/ AllRead(p, m)
  BY PositionedAtPlace
<1>2. AtItsPlace(p, m)
  BY <1>1 DEF AtItsPlace
<1>3. CASE ~InBlock(p) \/ ~p.sized
  <2>1. res = NoItem(p)
    BY <1>3 DEF DiscardBlock
  <2> QED
    BY <1>0, <1>2, <2>1
<1>4. CASE InBlock(p) /\ p.sized
  <2>1. InOne(p, m)
    BY <1>1, <1>4 DEF AllRead, InBlock
  <2>2. PICK k \in 1 .. Len(blocks) : \E j \in 0 .. Len(blocks[k].items) - 1 : Within(p, m, k, j)
    BY <2>1 DEF InOne
  <2>3. PICK j \in 0 .. Len(blocks[k].items) - 1 : Within(p, m, k, j)
    BY <2>2
  <2> DEFINE n == Len(blocks[k].items)
  <2>4. blocks[k] \in Block
    BY DEF OnTheWire
  <2>5. n \in Nat /\ j \in Nat /\ j \in 0 .. n
    BY <2>3, <2>4, ItemFacts
  <2>6. /\ p \in Readers /\ p.err = "none" /\ ~p.done /\ p.remaining = n - j
        /\ p.off = ItemCut(k, j) /\ p.blockEnd = BlockCut(k) /\ m = ItemsUpTo(k - 1) + j
    BY <1>4, <2>3 DEF Within, Going
  <2>7. ItemCut(k, j) \in Nat /\ ItemCut(k, j) <= BlockCut(k) /\ BlockCut(k) \in 0 .. Len(wire)
        /\ Len(wire) \in Nat
    <3>1. ItemCut(k, j) \in Nat /\ ItemCut(k, j) <= BlockCut(k)
      BY <2>5, InnerCuts
    <3>2. BlockCut(k) \in 0 .. Len(wire)
      BY BlockPlace
    <3> QED
      BY <3>1, <3>2 DEF OnTheWire
  <2>8. Unread(p) \in Nat /\ p.off + Unread(p) = BlockCut(k) /\ BlockCut(k) <= Len(wire)
        /\ BlockCut(k) \in Nat
    BY <2>6, <2>7 DEF Unread
  <2>9. rest = Result(BlockCut(k), "none", << >>)
    BY <2>8 DEF Discard
  <2>10. ~(Unread(p) < 0) /\ rest.err = "none" /\ rest.off = BlockCut(k)
    BY <2>8, <2>9 DEF Result
  <2>11. res = [NoItem(Skipped(p, BlockCut(k))) EXCEPT !.skipped = n - j]
    BY <1>4, <2>6, <2>10 DEF DiscardBlock
  <2> HIDE DEF p, rest
  <2>12. res.rd = Skipped(p, BlockCut(k)) /\ res.skipped = n - j
    BY <2>11 DEF NoItem
  <2>13. PICK q : q = Skipped(p, BlockCut(k))
    OBVIOUS
  <2>14. q \in Readers /\ q.err = "none" /\ ~q.done /\ q.remaining = 0 /\ q.off = BlockCut(k)
    BY <2>6, <2>8, <2>13 DEF Skipped, Readers
  <2>15. ItemsUpTo(k - 1) \in Nat /\ ItemsUpTo(k) = ItemsUpTo(k - 1) + n
    BY ContentsPlace
  <2>16. m + (n - j) = ItemsUpTo(k)
    BY <2>5, <2>6, <2>15
  <2>17. Between(q, m + (n - j), k) /\ k \in 0 .. Len(blocks)
    BY <2>2, <2>14, <2>16 DEF Between, Going, OnTheWire
  <2> QED
    BY <2>12, <2>13, <2>17 DEF AtItsPlace, Before
<1> QED
  BY <1>3, <1>4

-----------------------------------------------------------------------------
(***************************************************************************)
(* A reader of an honest array is always at its place, and what it gave    *)
(* back was at its place too.                                              *)
(***************************************************************************)
Faithful ==
  /\ AtItsPlace(rd, passed)
  /\ \A i \in 1 .. Len(yielded) : yielded[i][2] = Contents[yielded[i][1]]

HonestInv ==
  /\ OnTheWire /\ Len(wire) < Half
  /\ yielded \in Seq(Nat \X Seq(Byte))
  /\ (Honest /\ SmallItems) => Faithful

LEMMA SamePlaces ==
  ASSUME UNCHANGED <<streamVars, blocks>>
  PROVE  /\ OnTheWire' <=> OnTheWire
         /\ Honest' <=> Honest
         /\ Len(wire)' = Len(wire) /\ Contents' = Contents
         /\ \A r, m : AtItsPlace(r, m)' <=> AtItsPlace(r, m)
<1>1. wire' = wire /\ end' = end /\ nulls' = nulls /\ blocks' = blocks
  BY DEF streamVars
<1>2. Contents' = Contents /\ (Honest' <=> Honest) /\ Block' = Block
  BY <1>1 DEF Contents, Honest, Block, Values
<1>3. \A v : ItemBytes(v)' = ItemBytes(v)
  BY <1>1 DEF ItemBytes
<1>4. \A b : Encoded(b)' = Encoded(b) /\ Payload(b)' = Payload(b)
  BY <1>3 DEF Encoded, Payload
<1>5. \A b : BlockBytes(b)' = BlockBytes(b)
  BY <1>4 DEF BlockBytes
<1>6. BlockParts' = BlockParts /\ ItemParts' = ItemParts
  BY <1>1, <1>5 DEF BlockParts, ItemParts
<1>7. \A bs : ArrayBytes(bs)' = ArrayBytes(bs)
  BY <1>5 DEF ArrayBytes
<1>8. \A k : BlockCut(k)' = BlockCut(k) /\ ItemsUpTo(k)' = ItemsUpTo(k)
  BY <1>6 DEF BlockCut, ItemsUpTo
<1>9. \A k, j : ItemCut(k, j)' = ItemCut(k, j)
  BY <1>1, <1>4, <1>8 DEF ItemCut
<1>10. OnTheWire' <=> OnTheWire
  BY <1>1, <1>2, <1>4, <1>7 DEF OnTheWire, Following
<1>11. \A r, m, k : Between(r, m, k)' <=> Between(r, m, k)
  BY <1>8 DEF Between, Going
<1>12. \A r, m, k, j : Within(r, m, k, j)' <=> Within(r, m, k, j)
  BY <1>1, <1>8, <1>9 DEF Within, Going
<1>13. \A r, m : AllRead(r, m)' <=> AllRead(r, m)
  BY <1>1, <1>2, <1>7 DEF AllRead
<1>14. \A r, m : Before(r, m)' <=> Before(r, m)
  BY <1>1, <1>11 DEF Before
<1>15. \A r, m : InOne(r, m)' <=> InOne(r, m)
  BY <1>1, <1>12 DEF InOne
<1>16. \A r, m : AtItsPlace(r, m)' <=> AtItsPlace(r, m)
  BY <1>13, <1>14, <1>15 DEF AtItsPlace
<1> QED
  BY <1>1, <1>2, <1>10, <1>16

LEMMA InitIsHonest == Init /\ Len(wire) < Half => HonestInv
<1> SUFFICES ASSUME Init, Len(wire) < Half PROVE HonestInv
  OBVIOUS
<1>1. /\ blocks \in BoundedSeq(Block, MaxBlocks)
      /\ \A i \in 1 .. Len(blocks) :
           Len(Payload(blocks[i])) + blocks[i].slack \in 0 .. (Half - 1)
      /\ wire = ArrayBytes(blocks) \o Following /\ end = "eof" /\ nulls \in BOOLEAN
      /\ rd = NewReader(0) /\ passed = 0 /\ yielded = << >>
  BY DEF Init, ReaderInit
<1>2. blocks \in Seq(Block)
  BY <1>1, ForeignAssumption, BoundedSeqType
<1>3. wire \in Seq(Byte)
  BY InitKeeps DEF ReaderInv, StreamTypeOK
<1>4. OnTheWire
  BY <1>1, <1>2, <1>3 DEF OnTheWire
<1>5. rd \in Readers
  BY InitKeeps DEF ReaderInv, Standing
<1>6. BlockCut(0) = 0 /\ ItemsUpTo(0) = 0 /\ 0 \in 0 .. Len(blocks)
  BY <1>2, <1>4, OuterCuts
<1>7. Between(rd, passed, 0)
  BY <1>1, <1>5, <1>6 DEF Between, Going, NewReader
<1>8. AtItsPlace(rd, passed)
  BY <1>6, <1>7 DEF AtItsPlace, Before
<1> QED
  BY <1>1, <1>4, <1>8 DEF HonestInv, Faithful

LEMMA NextIsHonest == HonestInv /\ ReaderInv /\ [Next]_vars => HonestInv'
<1> SUFFICES ASSUME HonestInv, ReaderInv, [Next]_vars PROVE HonestInv'
  OBVIOUS
<1>1. UNCHANGED <<streamVars, blocks>>
  BY DEF Next, vars
<1>2. OnTheWire' /\ Len(wire)' < Half
  BY <1>1, SamePlaces DEF HonestInv
<1>3. yielded' \in Seq(Nat \X Seq(Byte))
  BY NextKeeps DEF ReaderInv, ReaderTypeOK
<1>4. ASSUME Honest', SmallItems PROVE Faithful'
  <2>1. /\ OnTheWire /\ Len(wire) < Half /\ yielded \in Seq(Nat \X Seq(Byte))
        /\ Honest /\ AtItsPlace(rd, passed)
        /\ \A i \in 1 .. Len(yielded) : yielded[i][2] = Contents[yielded[i][1]]
    BY <1>1, <1>4, SamePlaces DEF HonestInv, Faithful
  <2>2. Contents' = Contents /\ \A r, m : AtItsPlace(r, m)' <=> AtItsPlace(r, m)
    BY <1>1, SamePlaces
  <2>3. SUFFICES /\ AtItsPlace(rd', passed')
                 /\ \A i \in 1 .. Len(yielded') : yielded'[i][2] = Contents[yielded'[i][1]]
    BY <2>2 DEF Faithful
  <2>4. CASE ReadItem
    <3>1. PICK res : res = DecodeNext(rd)
      OBVIOUS
    <3>2. /\ ~rd.done /\ rd' = res.rd
          /\ passed' = IF res.ok THEN passed + 1 ELSE passed
          /\ yielded' = IF res.ok THEN Append(yielded, <<passed + 1, res.val>>) ELSE yielded
      BY <2>4, <3>1 DEF ReadItem, Answered
    <3>3. \/ ~res.ok /\ AtItsPlace(res.rd, passed)
          \/ res.ok /\ AtItsPlace(res.rd, passed + 1) /\ res.val = Contents[passed + 1]
      BY <1>4, <2>1, <3>1, <3>2, DecodeAtPlace
    <3>4. AtItsPlace(rd', passed')
      BY <3>2, <3>3
    <3>5. CASE ~res.ok
      BY <2>1, <3>2, <3>4, <3>5
    <3>6. CASE res.ok
      <4>1. PICK last : last = <<passed + 1, res.val>>
        OBVIOUS
      <4>2. last[2] = Contents[last[1]]
        BY <3>3, <3>6, <4>1
      <4>3. yielded' = Append(yielded, last) /\ Len(yielded) \in Nat
        BY <2>1, <3>2, <3>6, <4>1
      <4>4. Len(yielded') = Len(yielded) + 1 /\ yielded'[Len(yielded) + 1] = last
            /\ \A i \in 1 .. Len(yielded) : yielded'[i] = yielded[i]
        BY <2>1, <4>3
      <4>5. \A i \in 1 .. Len(yielded') : i \in 1 .. Len(yielded) \/ i = Len(yielded) + 1
        BY <4>3, <4>4
      <4> QED
        BY <2>1, <3>4, <4>2, <4>4, <4>5
    <3> QED
      BY <3>4, <3>5, <3>6
  <2>5. CASE SkipBlock
    <3>1. /\ ~rd.done /\ rd' = DiscardBlock(rd).rd /\ yielded' = yielded
          /\ passed' = passed + DiscardBlock(rd).skipped
      BY <2>5 DEF SkipBlock, Answered
    <3> QED
      BY <2>1, <3>1, DiscardAtPlace
  <2>6. CASE UNCHANGED vars
    BY <2>1, <2>6 DEF vars, readerVars
  <2> QED
    BY <2>4, <2>5, <2>6 DEF Next, ReaderNext
<1> QED
  BY <1>2, <1>3, <1>4 DEF HonestInv

LEMMA PlacesAreRight ==
  ASSUME OnTheWire, NEW r, NEW m, AtItsPlace(r, m)
  PROVE  /\ r.err = "none" /\ m <= Len(Contents)
         /\ r.done => m = Len(Contents) /\ r.off = Len(ArrayBytes(blocks))
<1>1. Len(Contents) \in Nat
  BY BlockFacts
<1>2. CASE Before(r, m)
  <2>1. PICK k \in 0 .. Len(blocks) : Between(r, m, k)
    BY <1>2 DEF Before
  <2>2. ItemsUpTo(k) <= Len(Contents)
    <3>1. CASE k = 0
      BY <1>1, <3>1, OuterCuts
    <3>2. CASE k # 0
      <4>1. k \in 1 .. Len(blocks)
        BY <2>1, <3>2 DEF OnTheWire
      <4> QED
        BY <4>1, ContentsPlace
    <3> QED
      BY <3>1, <3>2
  <2> QED
    BY <2>1, <2>2 DEF Between, Going
<1>3. CASE InOne(r, m)
  <2>1. PICK k \in 1 .. Len(blocks) : \E j \in 0 .. Len(blocks[k].items) - 1 : Within(r, m, k, j)
    BY <1>3 DEF InOne
  <2>2. PICK j \in 0 .. Len(blocks[k].items) - 1 : Within(r, m, k, j)
    BY <2>1
  <2>3. blocks[k] \in Block
    BY DEF OnTheWire
  <2>4. blocks[k].items \in Seq(Values)
    BY <2>3, ItemFacts
  <2>5. Len(blocks[k].items) \in Nat
    BY <2>4
  <2>6. /\ ItemsUpTo(k - 1) \in Nat /\ ItemsUpTo(k) <= Len(Contents)
        /\ ItemsUpTo(k) = ItemsUpTo(k - 1) + Len(blocks[k].items)
    BY ContentsPlace
  <2>7. m = ItemsUpTo(k - 1) + j /\ r.err = "none" /\ ~r.done
    BY <2>2 DEF Within, Going
  <2>8. m <= Len(Contents)
    BY <1>1, <2>2, <2>5, <2>6, <2>7
  <2> QED
    BY <2>7, <2>8
<1>4. CASE AllRead(r, m)
  BY <1>1, <1>4 DEF AllRead
<1> QED
  BY <1>2, <1>3, <1>4 DEF AtItsPlace

(***************************************************************************)
(* An array of any producer whose declared sizes are right is read without *)
(* error, each item at its place, up to the byte behind its terminator, by *)
(* whatever mix of Next and SkipBlock (array.go:96, array.go:131), sized   *)
(* and unsized blocks of any number of items alike.  What the reader       *)
(* refuses as too long for it is left out: an item longer than an int, and *)
(* a stream longer than a long.                                            *)
(***************************************************************************)
THEOREM HonestArraysAreRead ==
  ASSUME \A v \in Items : Len(v) < IntHalf
  PROVE  Spec /\ Len(wire) < Half => []HonestArrayReads
<1>1. SmallItems
  BY DEF SmallItems
<1>2. HonestInv => HonestArrayReads
  BY <1>1, PlacesAreRight DEF HonestInv, Faithful, HonestArrayReads
<1> QED
  BY <1>2, InitKeeps, NextKeeps, InitIsHonest, NextIsHonest, PTL DEF Spec
=============================================================================

--------------------------- MODULE ArrayPipeProofs ---------------------------
(***************************************************************************)
(* Safety of the ArrayWriter and WriteArray over a stream that may break,  *)
(* for every width of a long, every set of items, limit and preamble, and  *)
(* any number of writes.                                                   *)
(***************************************************************************)
EXTENDS ArrayPipe, StreamProofs

-----------------------------------------------------------------------------
(***************************************************************************)
(* What the operations of the ArrayWriter leave.                           *)
(***************************************************************************)
LEMMA ItemSizeIsNat ==
  ASSUME NEW v \in Items
  PROVE  /\ ItemSize(v) \in Nat /\ Len(v) \in Long /\ Limit + ItemSize(v) \in Long
         /\ v \in Seq(Byte) /\ PutVarint(Len(v)) \in Seq(Byte)
<1>1. v \in Seq(Byte) /\ Len(v) \in Nat
  BY ItemsAssumption
<1>2. Limit \in Nat /\ MaxLen \in Nat /\ Limit + MaxLen + Len(v) < Half /\ Half \in Nat
  BY WriterAssumption, RangeAssumption, VarintAssumption, HalfIsPositive
<1>3. Len(v) \in Long
  BY <1>1, <1>2 DEF Long
<1>4. PutVarint(Len(v)) \in Seq(Byte) /\ Len(PutVarint(Len(v))) \in 1 .. MaxLen
  BY <1>3, PutVarintIsBytes
<1>5. ItemSize(v) \in Nat /\ ItemSize(v) <= MaxLen + Len(v)
  BY <1>1, <1>2, <1>4 DEF ItemSize
<1>6. Limit + ItemSize(v) \in Long
  BY <1>1, <1>2, <1>5 DEF Long
<1> QED
  BY <1>1, <1>3, <1>4, <1>5, <1>6

LEMMA MarshalGrows ==
  ASSUME NEW w \in BinaryWriters, w.err = "none", NEW v \in Items,
         NEW y \in Marshal(w, v)
  PROVE  Grown(w, y, ItemSize(v))
<1> DEFINE length == PutVarint(Len(v))
           begun == Wrote(w, length)
           refuse(x) == [x EXCEPT !.err = "item"]
<1>1. /\ ItemSize(v) \in Nat /\ Len(v) \in Long /\ v \in Seq(Byte)
      /\ length \in Seq(Byte) /\ Len(length) \in Nat /\ Len(v) \in Nat
  BY ItemSizeIsNat
<1>2. Grown(w, w, 0)
  BY GrownNot
<1>3. CASE nulls
  <2>1. y = w \/ y = refuse(w)
    BY <1>3 DEF Marshal
  <2>2. ItemSize(v) = 0
    BY <1>3 DEF ItemSize
  <2> QED
    BY <1>2, <2>1, <2>2, RefusedGrows
<1>4. CASE ~nulls
  <2>1. ItemSize(v) = Len(length) + Len(v)
    BY <1>4 DEF ItemSize
  <2>2. Grown(w, begun, Len(length)) /\ begun.err = "none"
    BY <1>1, WroteGrows
  <2>3. Grown(w, Wrote(begun, v), ItemSize(v))
    <3>1. begun \in BinaryWriters
      BY <2>2 DEF Grown
    <3> HIDE DEF begun, length
    <3>2. Grown(begun, Wrote(begun, v), Len(v))
      BY <1>1, <2>2, <3>1, WroteGrows
    <3> QED
      BY <1>1, <2>1, <2>2, <3>2, GrownTransitive
  <2>4. \/ y \in WriteBytes(w, v) \/ y = refuse(w)
        \/ y = refuse(begun) \/ y = refuse(Wrote(begun, v))
    BY <1>4 DEF Marshal
  <2>5. CASE y \in WriteBytes(w, v)
    <3>1. \A x \in WriteLong(w, Len(v)) : Grown(w, x, Len(length))
      BY <1>1, WriteLongGrows
    <3>2. y \in AndThenFixed(WriteLong(w, Len(v)), v)
      BY <2>5 DEF WriteBytes
    <3> HIDE DEF begun, length
    <3> QED
      BY <1>1, <2>1, <3>1, <3>2, AndThenFixedGrows
  <2> HIDE DEF begun, length
  <2>6. 0 <= ItemSize(v) /\ Len(length) <= ItemSize(v)
    BY <1>1, <2>1
  <2>7. Grown(w, w, ItemSize(v)) /\ Grown(w, begun, ItemSize(v))
    BY <1>1, <1>2, <2>2, <2>6, GrownWeaker
  <2> QED
    BY <1>1, <2>3, <2>4, <2>5, <2>7, RefusedGrows
<1> QED
  BY <1>3, <1>4

\* flush writes three things, so at most their lengths.
LEMMA FlushGrows ==
  ASSUME NEW w \in BinaryWriters, w.err = "none", NEW n \in Nat, -n \in Long,
         NEW block \in Seq(Byte), Len(block) \in Long, NEW y \in Flush(w, n, block)
  PROVE  \E size \in Nat : Grown(w, y, size)
<1> DEFINE counts == WriteLong(w, -n)
           a == Len(PutVarint(-n))
           b == Len(PutVarint(Len(block)))
<1>1. /\ PutVarint(-n) \in Seq(Byte)
      /\ PutVarint(Len(block)) \in Seq(Byte)
      /\ Len(block) \in Nat
  BY PutVarintIsBytes
<1>2. a \in Nat /\ b \in Nat
  BY <1>1
<1>3. \A x \in counts : Grown(w, x, a)
  BY WriteLongGrows
<1> HIDE DEF counts, a
<1>4. \A x \in AndThenLong(counts, Len(block)) : Grown(w, x, a + b)
  BY <1>2, <1>3, AndThenLongGrows
<1>5. y \in AndThenFixed(AndThenLong(counts, Len(block)), block)
  BY DEF Flush, counts
<1> HIDE DEF b
<1>6. Grown(w, y, (a + b) + Len(block))
  <2>1. a + b \in Nat
    BY <1>2
  <2> QED
    BY <1>4, <1>5, <2>1, AndThenFixedGrows
<1>7. (a + b) + Len(block) \in Nat
  BY <1>1, <1>2
<1> QED
  BY <1>6, <1>7

\* The terminating block, after writer flushed.
LEMMA TerminateGrows ==
  ASSUME NEW w \in BinaryWriters, NEW m \in Nat, NEW flushed, Grown(w, flushed, m),
         NEW y \in Terminate({flushed})
  PROVE  /\ \E size \in Nat : Grown(w, y, size)
         /\ y.err = "none" => Sealing(flushed, y)
<1>1. 0 \in Long
  BY HalfIsPositive DEF Long
<1>2. PutVarint(0) \in Seq(Byte) /\ Len(PutVarint(0)) \in Nat
  BY <1>1, PutVarintIsBytes
<1>3. y \in AndThenLong({flushed}, 0)
  BY DEF Terminate
<1>4. Grown(w, y, m + Len(PutVarint(0)))
  BY <1>1, <1>3, AndThenLongGrows
<1>5. m + Len(PutVarint(0)) \in Nat
  BY <1>2
<1>6. y \in IF flushed.err = "none" THEN WriteFixed(flushed, PutVarint(0)) ELSE {flushed}
  BY <1>3 DEF AndThenLong, AndThenFixed
<1>7. ASSUME y.err = "none" PROVE Sealing(flushed, y)
  <2>1. flushed.err = "none"
    BY <1>6, <1>7
  <2>2. flushed \in BinaryWriters
    BY DEF Grown
  <2>3. y = Wrote(flushed, PutVarint(0))
    BY <1>2, <1>6, <1>7, <2>1, <2>2, WriteFixedGrows
  <2> QED
    BY <2>1, <2>2, <2>3 DEF Sealing, Wrote, BinaryWriters
<1> QED
  BY <1>4, <1>5, <1>7

-----------------------------------------------------------------------------
(***************************************************************************)
(* The inductive invariant.  What must be added to the properties: a       *)
(* writer that has not failed accepted whatever it was offered, a closed   *)
(* one has not failed and its terminating block was written, WriteArray    *)
(* returns nil only for a closed one, and what is counted was offered.     *)
(***************************************************************************)
WriterInv ==
  /\ WriterTypeOK
  /\ count <= Len(offered)
  /\ Len(offered) <= MaxWrites
  /\ werr = "none" => offered = accepted
  /\ BufferBounded
  /\ OffsetCounts
  /\ closed => sealed /\ werr = "none"
  /\ caller = "nil" => closed

IInv ==
  /\ ReaderInv
  /\ WriterInv
  /\ arrayEnd \in Nat
  /\ disturbed \in BOOLEAN
  /\ disturbed => end # "open"

\* The sink took more bytes, and nothing else of the stream changed.
StreamGrew ==
  StreamTypeOK' /\ Len(wire') >= Len(wire) /\ UNCHANGED <<end, nulls, sized>>

LEMMA OutIsWriter ==
  ASSUME StreamTypeOK, WriterTypeOK
  PROVE  Out \in BinaryWriters /\ Out.err = "none"
BY DEF StreamTypeOK, WriterTypeOK, Out, Writer, BinaryWriters, WriterErrors

\* The sink and the offset after an operation of a writer that had not failed.
LEMMA LandedCounts ==
  ASSUME StreamTypeOK, WriterTypeOK, OffsetCounts, werr = "none",
         NEW n \in Nat, NEW x, Grown(Out, x, n), Landed(x), UNCHANGED <<end, nulls, sized>>, disturbed' = disturbed
  PROVE  /\ StreamGrew
         /\ woff' \in Nat
         /\ werr' \in WriterErrors
         /\ OffsetCounts'
<1>1. Out.out = wire /\ Out.offset = woff
  BY DEF Out, Writer
<1>2. wire' = x.out /\ woff' = x.offset /\ werr' = x.err
  BY DEF Landed
<1>3. /\ wire' \in Seq(Byte) /\ woff' \in Nat /\ werr' \in WriterErrors
  BY <1>2 DEF Grown, BinaryWriters, WriterErrors
<1>4. /\ Len(wire') - Len(wire) \in 0 .. n
      /\ woff' - woff \in 0 .. (Len(wire') - Len(wire))
      /\ werr' = "none" => woff' - woff = Len(wire') - Len(wire)
  BY <1>1, <1>2 DEF Grown
<1>5. Len(wire) \in Nat /\ Len(wire') \in Nat /\ woff \in Nat
  BY <1>3 DEF StreamTypeOK, WriterTypeOK
<1>6. StreamGrew
  BY <1>2, <1>3, <1>4, <1>5 DEF StreamGrew, StreamTypeOK
<1>7. ASSUME ~disturbed
      PROVE  woff' <= Len(wire') /\ (werr' = "none" => woff' = Len(wire'))
  <2>1. woff = Len(wire)
    BY <1>7 DEF OffsetCounts
  <2>2. woff' - woff <= Len(wire') - Len(wire)
    BY <1>3, <1>4, <1>5
  <2> QED
    BY <1>3, <1>4, <1>5, <2>1, <2>2
<1> QED
  BY <1>3, <1>6, <1>7 DEF OffsetCounts

\* Write without sized blocks.
LEMMA WriteThroughLands ==
  ASSUME StreamTypeOK, WriterInv, werr = "none", NEW v \in Items, WriteThrough(v),
         UNCHANGED <<end, nulls, sized>>, disturbed' = disturbed
  PROVE  /\ StreamGrew
         /\ woff' \in Nat /\ werr' \in WriterErrors /\ OffsetCounts'
         /\ buf' = buf /\ count' = count
         /\ accepted' = IF werr' = "none" THEN Append(accepted, v) ELSE accepted
<1>1. PICK started \in WriteLong(Out, 1) :
        \E w \in Reach(IF started.err = "none" THEN Marshal(started, v) ELSE {started}) :
          /\ Landed(w)
          /\ accepted' = IF w.err = "none" THEN Append(accepted, v) ELSE accepted
  BY DEF WriteThrough
<1>2. PICK w \in IF started.err = "none" THEN Marshal(started, v) ELSE {started} :
          /\ Landed(w)
          /\ accepted' = IF w.err = "none" THEN Append(accepted, v) ELSE accepted
  BY <1>1 DEF Reach
<1>3. Out \in BinaryWriters /\ Out.err = "none"
  BY OutIsWriter DEF WriterInv
<1>4. 1 \in Long
  BY HalfIsPositive, HalfExceedsOne DEF Long
<1> DEFINE m == Len(PutVarint(1))
<1>5. m \in Nat /\ ItemSize(v) \in Nat /\ m + ItemSize(v) \in Nat
  BY <1>4, PutVarintIsBytes, ItemSizeIsNat
<1>6. Grown(Out, started, m)
  BY <1>3, <1>4, WriteLongGrows
<1> HIDE DEF m
<1>7. \E n \in Nat : Grown(Out, w, n)
  <2>1. CASE started.err = "none"
    <3>1. started \in BinaryWriters
      BY <1>6 DEF Grown
    <3>2. Grown(started, w, ItemSize(v))
      BY <1>2, <2>1, <3>1, MarshalGrows
    <3>3. Grown(Out, w, m + ItemSize(v))
      BY <1>3, <1>5, <1>6, <2>1, <3>2, GrownTransitive
    <3> QED
      BY <1>5, <3>3
  <2>2. CASE started.err # "none"
    BY <1>2, <1>5, <1>6, <2>2
  <2> QED
    BY <2>1, <2>2
<1>8. /\ StreamGrew
      /\ woff' \in Nat /\ werr' \in WriterErrors /\ OffsetCounts'
  BY <1>2, <1>7, LandedCounts DEF WriterInv
<1>9. werr' = w.err
  BY <1>2 DEF Landed
<1> QED
  BY <1>2, <1>8, <1>9 DEF WriteThrough

\* Write into the pending block.
LEMMA WriteBufferedLands ==
  ASSUME StreamTypeOK, WriterInv, werr = "none", Len(offered) < MaxWrites,
         NEW v \in Items, WriteBuffered(v), UNCHANGED <<end, nulls, sized>>, disturbed' = disturbed
  PROVE  /\ StreamGrew
         /\ woff' \in Nat /\ werr' \in WriterErrors /\ OffsetCounts'
         /\ buf' \in Seq(Byte) /\ Len(buf') < Limit + ItemSize(v)
         /\ werr' = "none" => Len(buf') < Limit
         /\ count' \in {0, count, count + 1}
         /\ accepted' = IF werr' = "none" THEN Append(accepted, v) ELSE accepted
<1>1. PICK b \in {x \in Marshal(Buffered, v) : x.err # "sink"} :
        IF b.err # "none"
        THEN /\ buf' = b.out
             /\ werr' = b.err
             /\ UNCHANGED <<wire, woff, count, accepted>>
        ELSE IF FlushDue(b.out)
        THEN \E w \in Reach(Flush(Out, count + 1, b.out)) :
               /\ Landed(w)
               /\ AfterFlush(w, count + 1, b.out)
               /\ accepted' = IF w.err = "none" THEN Append(accepted, v) ELSE accepted
        ELSE /\ buf' = b.out
             /\ count' = count + 1
             /\ accepted' = Append(accepted, v)
             /\ UNCHANGED <<wire, woff, werr>>
  BY DEF WriteBuffered
<1>2. /\ buf \in Seq(Byte) /\ Len(buf) \in Nat /\ Len(buf) < Limit
      /\ Limit \in Nat \ {0} /\ 0 < Limit /\ count \in Nat /\ woff \in Nat
      /\ wire \in Seq(Byte) /\ Len(wire) \in Nat
  BY WriterAssumption DEF WriterInv, WriterTypeOK, BufferBounded, StreamTypeOK
<1>3. Buffered \in BinaryWriters /\ Buffered.err = "none" /\ Buffered.out = buf
  BY <1>2 DEF Buffered, Writer, BinaryWriters, WriterErrors
<1>4. /\ ItemSize(v) \in Nat /\ Limit + ItemSize(v) \in Long
  BY ItemSizeIsNat
<1>5. Grown(Buffered, b, ItemSize(v))
  BY <1>3, MarshalGrows
<1>6. /\ b.out \in Seq(Byte) /\ b.err \in WriterErrors
      /\ Len(b.out) - Len(buf) \in 0 .. ItemSize(v)
  BY <1>3, <1>5 DEF Grown, BinaryWriters, WriterErrors
<1>7. Len(b.out) \in Nat /\ Len(b.out) < Limit + ItemSize(v)
  BY <1>2, <1>4, <1>6
<1>8. ASSUME UNCHANGED <<wire, woff>>
      PROVE  StreamGrew /\ OffsetCounts' /\ woff' \in Nat
  BY <1>2, <1>8 DEF StreamGrew, StreamTypeOK, WriterInv, OffsetCounts
<1>9. CASE b.err # "none"
  BY <1>1, <1>6, <1>7, <1>8, <1>9
<1>10. CASE b.err = "none" /\ FlushDue(b.out)
  <2>1. PICK w \in Reach(Flush(Out, count + 1, b.out)) :
          /\ Landed(w)
          /\ AfterFlush(w, count + 1, b.out)
          /\ accepted' = IF w.err = "none" THEN Append(accepted, v) ELSE accepted
    BY <1>1, <1>10
  <2>2. w \in Flush(Out, count + 1, b.out)
    BY <2>1 DEF Reach
  <2>3. Out \in BinaryWriters /\ Out.err = "none"
    BY OutIsWriter DEF WriterInv
  <2>4. count + 1 \in Nat /\ -(count + 1) \in Long
    <3>1. /\ offered \in Seq(Items) /\ Len(offered) \in Nat
          /\ count <= Len(offered) /\ MaxWrites \in Nat /\ MaxWrites < Half /\ Half \in Nat
      BY WriterAssumption, RangeAssumption, HalfIsPositive DEF WriterInv, WriterTypeOK
    <3> QED
      BY <1>2, <3>1 DEF Long
  <2>5. Len(b.out) \in Long
    BY <1>2, <1>4, <1>7, HalfIsPositive DEF Long
  <2>6. \E n \in Nat : Grown(Out, w, n)
    <3> DEFINE n == count + 1
    <3>1. n \in Nat /\ -n \in Long /\ w \in Flush(Out, n, b.out)
      BY <2>2, <2>4
    <3> HIDE DEF n
    <3> QED
      BY <1>6, <2>3, <2>5, <3>1, FlushGrows
  <2>7. /\ StreamGrew
        /\ woff' \in Nat /\ werr' \in WriterErrors /\ OffsetCounts'
    BY <2>1, <2>6, LandedCounts DEF WriterInv
  <2>8. werr' = w.err
    BY <2>1 DEF Landed
  <2>9. /\ w.err = "none" => buf' = << >> /\ count' = 0
        /\ w.err # "none" => buf' = b.out /\ count' = count + 1
    BY <2>1 DEF AfterFlush
  <2>10. << >> \in Seq(Byte) /\ Len(<< >>) < Limit /\ Len(<< >>) < Limit + ItemSize(v)
    BY <1>2, <1>4
  <2> QED
    BY <1>6, <1>7, <2>1, <2>7, <2>8, <2>9, <2>10
<1>11. CASE b.err = "none" /\ ~FlushDue(b.out)
  <2>1. Len(b.out) < Limit
    BY <1>2, <1>7, <1>11 DEF FlushDue
  <2> QED
    BY <1>1, <1>6, <1>7, <1>8, <1>11, <2>1 DEF WriterErrors
<1> QED
  BY <1>9, <1>10, <1>11

\* Close, of a writer that has not failed and is not closed.
LEMMA FinishLands ==
  ASSUME StreamTypeOK, WriterInv, werr = "none", Finish,
         UNCHANGED <<end, nulls, sized>>, disturbed' = disturbed
  PROVE  /\ StreamGrew
         /\ woff' \in Nat /\ werr' \in WriterErrors /\ OffsetCounts'
         /\ buf' \in {<< >>, buf} /\ count' \in {0, count}
         /\ closed' = (werr' = "none")
         /\ closed' => sealed'
         /\ sealed' \in BOOLEAN
<1>1. PICK flushed \in (IF Pending THEN Flush(Out, count, buf) ELSE {Out}) :
        \E w \in Reach(Terminate({flushed})) :
          /\ Landed(w)
          /\ IF Pending THEN AfterFlush(flushed, count, buf) ELSE UNCHANGED <<buf, count>>
          /\ closed' = (w.err = "none")
          /\ sealed' = Sealing(flushed, w)
  BY DEF Finish
<1>2. PICK w \in Terminate({flushed}) :
          /\ Landed(w)
          /\ IF Pending THEN AfterFlush(flushed, count, buf) ELSE UNCHANGED <<buf, count>>
          /\ closed' = (w.err = "none")
          /\ sealed' = Sealing(flushed, w)
  BY <1>1 DEF Reach
<1>3. Out \in BinaryWriters /\ Out.err = "none"
  BY OutIsWriter DEF WriterInv
<1>4. /\ buf \in Seq(Byte) /\ Len(buf) \in Long
      /\ count \in Nat /\ -count \in Long
  <2>1. /\ buf \in Seq(Byte) /\ Len(buf) \in Nat /\ Len(buf) < Limit
        /\ Limit \in Nat /\ Limit < Half /\ Half \in Nat
        /\ count \in Nat /\ offered \in Seq(Items) /\ Len(offered) \in Nat
        /\ count <= Len(offered) /\ Len(offered) <= MaxWrites
        /\ MaxWrites \in Nat /\ MaxWrites < Half
    BY WriterAssumption, RangeAssumption, HalfIsPositive
       DEF WriterInv, WriterTypeOK, BufferBounded
  <2> QED
    BY <2>1 DEF Long
<1>5. \E m \in Nat : Grown(Out, flushed, m)
  <2>1. CASE Pending
    BY <1>1, <1>3, <1>4, <2>1, FlushGrows
  <2>2. CASE ~Pending
    BY <1>1, <1>3, <2>2, GrownNot
  <2> QED
    BY <2>1, <2>2
<1>6. /\ \E n \in Nat : Grown(Out, w, n)
      /\ w.err = "none" => Sealing(flushed, w)
  BY <1>3, <1>5, TerminateGrows
<1>7. /\ StreamGrew
      /\ woff' \in Nat /\ werr' \in WriterErrors /\ OffsetCounts'
  BY <1>2, <1>6, LandedCounts DEF WriterInv
<1>8. buf' \in {<< >>, buf} /\ count' \in {0, count}
  BY <1>2 DEF AfterFlush
<1>9. werr' = w.err /\ closed' = (w.err = "none")
  BY <1>2 DEF Landed
<1>10. sealed' \in BOOLEAN /\ (w.err = "none" => sealed')
  BY <1>2, <1>6 DEF Sealing
<1> QED
  BY <1>7, <1>8, <1>9, <1>10

-----------------------------------------------------------------------------
(***************************************************************************)
(* The steps of the writer keep its part of the invariant.                 *)
(***************************************************************************)
LEMMA WriteKeeps ==
  ASSUME StreamTypeOK, WriterInv, NEW v \in Items, Write(v), disturbed' = disturbed
  PROVE  WriterInv' /\ StreamGrew
<1>1. /\ werr = "none" /\ UNCHANGED <<end, nulls, sized>> /\ Len(offered) < MaxWrites
      /\ offered' = Append(offered, v)
      /\ UNCHANGED <<closed, caller, refused, sealed>>
      /\ ~closed /\ caller # "nil"
  BY DEF Write, Failed, Calling
<1>2. /\ count \in Nat /\ buf \in Seq(Byte) /\ Len(buf) \in Nat /\ Len(buf) < Limit
      /\ Limit \in Nat /\ MaxWrites \in Nat
      /\ offered \in Seq(Items) /\ accepted \in Seq(Items) /\ offered = accepted
      /\ count <= Len(offered) /\ Len(offered) \in Nat
  BY <1>1, WriterAssumption DEF WriterInv, WriterTypeOK, BufferBounded
<1>3. ItemSize(v) \in Nat
  BY ItemSizeIsNat
<1>4. /\ offered' \in Seq(Items) /\ Len(offered') = Len(offered) + 1
      /\ Append(accepted, v) = offered'
  BY <1>1, <1>2
<1>5. /\ StreamGrew
      /\ woff' \in Nat /\ werr' \in WriterErrors /\ OffsetCounts'
      /\ buf' \in Seq(Byte) /\ Len(buf') < Limit + ItemSize(v)
      /\ werr' = "none" => Len(buf') < Limit
      /\ count' \in {0, count, count + 1}
      /\ accepted' = IF werr' = "none" THEN Append(accepted, v) ELSE accepted
  <2>1. CASE WriteThrough(v)
    BY <1>1, <1>2, <1>3, <2>1, WriteThroughLands
  <2>2. CASE WriteBuffered(v)
    BY <1>1, <2>2, WriteBufferedLands
  <2> QED
    BY <2>1, <2>2 DEF Write
<1>6. count' \in Nat /\ count' <= Len(offered') /\ Len(offered') <= MaxWrites
  BY <1>1, <1>2, <1>4, <1>5
<1>7. accepted' \in Seq(Items) /\ (werr' = "none" => offered' = accepted')
  BY <1>2, <1>4, <1>5
<1>8. WriterTypeOK'
  BY <1>1, <1>4, <1>5, <1>6, <1>7 DEF WriterInv, WriterTypeOK
<1>9. BufferBounded'
  BY <1>1, <1>5 DEF BufferBounded, ItemSize
<1>10. (closed => sealed /\ werr = "none")' /\ (caller = "nil" => closed)'
  BY <1>1
<1> QED
  BY <1>5, <1>6, <1>7, <1>8, <1>9, <1>10 DEF WriterInv

LEMMA FinishKeeps ==
  ASSUME StreamTypeOK, WriterInv, werr = "none", Finish,
         UNCHANGED <<end, nulls, sized>>, disturbed' = disturbed,
         UNCHANGED <<accepted, offered, refused>>,
         caller' \in {"direct", "inF", "nil", "failed"},
         caller' = "nil" => werr' = "none"
  PROVE  WriterInv' /\ StreamGrew
<1>1. /\ StreamGrew
      /\ woff' \in Nat /\ werr' \in WriterErrors /\ OffsetCounts'
      /\ buf' \in {<< >>, buf} /\ count' \in {0, count}
      /\ closed' = (werr' = "none")
      /\ closed' => sealed'
      /\ sealed' \in BOOLEAN
  BY FinishLands
<1>2. /\ buf \in Seq(Byte) /\ Len(buf) < Limit /\ Limit \in Nat \ {0} /\ count \in Nat
      /\ offered \in Seq(Items) /\ Len(offered) \in Nat /\ offered = accepted
      /\ count <= Len(offered) /\ Len(offered) <= MaxWrites
  BY WriterAssumption DEF WriterInv, WriterTypeOK, BufferBounded
<1>3. buf' \in Seq(Byte) /\ Len(buf') < Limit
  <2>1. << >> \in Seq(Byte) /\ Len(<< >>) < Limit
    BY <1>2
  <2> QED
    BY <1>1, <1>2, <2>1
<1>4. count' \in Nat /\ count' <= Len(offered)
  BY <1>1, <1>2
<1>5. closed' \in BOOLEAN
  BY <1>1
<1>6. WriterTypeOK'
  BY <1>1, <1>2, <1>3, <1>4, <1>5 DEF WriterInv, WriterTypeOK
<1>7. BufferBounded'
  BY <1>3 DEF BufferBounded
<1> QED
  BY <1>1, <1>2, <1>4, <1>6, <1>7 DEF WriterInv

LEMMA WriterStepKeeps ==
  ASSUME IInv, WriterStep
  PROVE  WriterInv' /\ StreamGrew
<1>1. StreamTypeOK /\ WriterInv /\ disturbed' = disturbed
  BY DEF IInv, ReaderInv, WriterStep
<1>2. CASE \E v \in Values : Write(v)
  BY <1>1, <1>2, WriteKeeps, ItemsAssumption DEF Values
<1>3. CASE Close
  <2>1. /\ werr = "none" /\ Finish /\ UNCHANGED <<end, nulls, sized>>
        /\ UNCHANGED <<accepted, offered, refused>>
        /\ caller' \in {"direct", "inF", "nil", "failed"} /\ caller' # "nil"
    BY <1>3 DEF Close, Failed, Calling
  <2> QED
    BY <1>1, <2>1, FinishKeeps
<1>4. CASE WriteArrayCloses
  <2>1. /\ UNCHANGED <<end, nulls, sized>> /\ UNCHANGED <<accepted, offered, refused>>
        /\ caller' = IF werr' = "none" THEN "nil" ELSE "failed"
    BY <1>4 DEF WriteArrayCloses
  <2>2. CASE Failed \/ closed
    <3>1. UNCHANGED <<wire, woff, buf, count, closed, werr, sealed>>
      BY <1>4, <2>2 DEF WriteArrayCloses
    <3>2. caller' = "nil" => closed
      BY <2>1, <2>2, <3>1 DEF Failed
    <3> QED
      BY <1>1, <2>1, <3>1, <3>2
         DEF WriterInv, WriterTypeOK, BufferBounded, ItemSize, OffsetCounts, StreamGrew, StreamTypeOK
  <2>3. CASE ~(Failed \/ closed)
    <3>1. werr = "none" /\ Finish
      BY <1>4, <2>3 DEF WriteArrayCloses, Failed
    <3> QED
      BY <1>1, <2>1, <3>1, FinishKeeps
  <2> QED
    BY <2>2, <2>3
<1>5. CASE WriteArrayGivesUp
  <2>1. /\ UNCHANGED <<wire, end, nulls, sized, woff, buf, count, closed, werr, accepted, offered,
                    refused, sealed>>
        /\ caller' = "failed"
    BY <1>5 DEF WriteArrayGivesUp, streamVars
  <2> QED
    BY <1>1, <2>1
       DEF WriterInv, WriterTypeOK, BufferBounded, ItemSize, OffsetCounts, StreamGrew, StreamTypeOK
<1>6. CASE WriteClosed
  <2>1. /\ UNCHANGED <<wire, end, nulls, sized, woff, buf, count, closed, werr, caller, accepted,
                    offered, sealed>>
        /\ refused' \in BOOLEAN
    BY <1>6 DEF WriteClosed, streamVars
  <2> QED
    BY <1>1, <2>1
       DEF WriterInv, WriterTypeOK, BufferBounded, ItemSize, OffsetCounts, StreamGrew, StreamTypeOK
<1> QED
  BY <1>2, <1>3, <1>4, <1>5, <1>6 DEF WriterStep, WriterNext

-----------------------------------------------------------------------------
(***************************************************************************)
(* The steps of the system keep the whole invariant.                       *)
(***************************************************************************)

\* The reader does not notice more bytes on the stream.
LEMMA ReaderKeepsItsPlace ==
  ASSUME ReaderInv, StreamTypeOK', Len(wire') >= rd.off, UNCHANGED readerVars
  PROVE  ReaderInv'
<1>1. rd' = rd /\ passed' = passed /\ yielded' = yielded
  BY DEF readerVars
<1>2. rd \in Readers /\ rd.off \in Nat /\ Len(wire') \in Nat
  BY DEF ReaderInv, Standing, Readers, StreamTypeOK
<1>3. Standing(rd)'
  BY <1>1, <1>2 DEF Standing
<1> QED
  BY <1>1, <1>3 DEF ReaderInv, ReaderTypeOK, Aligned, InBlock

LEMMA PlaceOnTheStream ==
  ASSUME ReaderInv
  PROVE  /\ wire \in Seq(Byte) /\ Len(wire) \in Nat
         /\ rd.off \in Nat /\ rd.off <= Len(wire)
BY DEF ReaderInv, StreamTypeOK, Standing, Readers

LEMMA InitIInv == Init => IInv
<1> SUFFICES ASSUME Init PROVE IInv
  OBVIOUS
<1>1. /\ Preamble \in Seq(Byte) /\ Len(Preamble) \in Nat /\ Limit \in Nat \ {0}
      /\ MaxWrites \in Nat /\ 0 \in Long
  BY WriterAssumption, HalfIsPositive DEF Long
<1>2. WriterInit /\ rd = NewReader(Len(Preamble)) /\ passed = 0 /\ yielded = << >>
  BY DEF Init, ReaderInit
<1>3. StreamTypeOK
  BY <1>1, <1>2 DEF WriterInit, StreamTypeOK, Ends
<1>4. Standing(rd) /\ Aligned(rd)
  BY <1>1, <1>2 DEF WriterInit, NewReader, Standing, Readers, ReaderErrors, Aligned
<1>5. ReaderInv
  BY <1>2, <1>3, <1>4 DEF ReaderInv, ReaderTypeOK, Standing
<1>6. WriterTypeOK
  <2>1. << >> \in Seq(Byte) /\ << >> \in Seq(Items)
    OBVIOUS
  <2>2. woff \in Nat /\ caller \in {"direct", "inF", "nil", "failed"}
    BY <1>1, <1>2 DEF WriterInit
  <2> QED
    BY <1>2, <2>1, <2>2 DEF WriterInit, WriterTypeOK, WriterErrors
<1>7. Len(buf) < Limit /\ Len(offered) = 0 /\ Len(accepted) = 0 /\ offered = accepted
  BY <1>1, <1>2 DEF WriterInit
<1>8. BufferBounded /\ OffsetCounts
  BY <1>1, <1>2, <1>7 DEF WriterInit, BufferBounded, OffsetCounts
<1>9. count <= Len(offered) /\ Len(offered) <= MaxWrites
  BY <1>1, <1>2, <1>7 DEF WriterInit
<1>10. ~closed /\ caller # "nil"
  BY <1>2 DEF WriterInit
<1>11. WriterInv
  BY <1>6, <1>7, <1>8, <1>9, <1>10 DEF WriterInv
<1> QED
  BY <1>2, <1>5, <1>11 DEF Init, IInv

LEMMA NextIInv == IInv /\ [Next]_vars => IInv'
<1> SUFFICES ASSUME IInv, [Next]_vars PROVE IInv'
  OBVIOUS
<1>1. /\ ReaderInv /\ WriterInv /\ StreamTypeOK /\ WriterTypeOK
      /\ arrayEnd \in Nat /\ disturbed \in BOOLEAN /\ (disturbed => end # "open")
      /\ wire \in Seq(Byte) /\ Len(wire) \in Nat
      /\ rd.off \in Nat /\ rd.off <= Len(wire)
  BY PlaceOnTheStream DEF IInv, ReaderInv, WriterInv
<1>2. CASE WriterStep
  <2>1. WriterInv' /\ StreamTypeOK' /\ Len(wire') >= Len(wire) /\ end' = end
    BY <1>2, WriterStepKeeps DEF StreamGrew
  <2>2. UNCHANGED readerVars /\ disturbed' = disturbed /\ arrayEnd' \in {Len(wire'), arrayEnd}
    BY <1>2 DEF WriterStep
  <2>3. Len(wire') \in Nat
    BY <2>1 DEF StreamTypeOK
  <2>4. ReaderInv'
    <3>1. Len(wire') >= rd.off
      BY <1>1, <2>1, <2>3
    <3> QED
      BY <1>1, <2>1, <2>2, <3>1, ReaderKeepsItsPlace
  <2> QED
    BY <1>1, <2>1, <2>2, <2>3, <2>4 DEF IInv
<1>3. CASE WriteFollowing
  <2>0. PICK l \in {0, 1} :
          \E w \in WriteLong(Out, l) : w.err = "none" /\ wire' = w.out /\ woff' = w.offset
    BY <1>3 DEF WriteFollowing
  <2>1. PICK w \in WriteLong(Out, l) : w.err = "none" /\ wire' = w.out /\ woff' = w.offset
    BY <2>0
  <2>2. /\ UNCHANGED <<end, nulls, sized, buf, count, closed, werr, caller, accepted, offered,
                    refused, sealed>>
        /\ UNCHANGED readerVars /\ disturbed' = disturbed /\ arrayEnd' = arrayEnd
        /\ werr = "none"
    BY <1>1, <1>3 DEF WriteFollowing, pipeVars, WriterInv
  <2>3. l \in Long
    BY HalfIsPositive, HalfExceedsOne DEF Long
  <2>4. Len(PutVarint(l)) \in Nat
    BY <2>3, PutVarintIsBytes
  <2>5. Grown(Out, w, Len(PutVarint(l)))
    BY <1>1, <2>1, <2>3, OutIsWriter, WriteLongGrows
  <2>6. Landed(w)
    BY <2>1, <2>2 DEF Landed
  <2>7. StreamGrew /\ woff' \in Nat /\ OffsetCounts'
    BY <1>1, <2>2, <2>4, <2>5, <2>6, LandedCounts DEF WriterInv
  <2>8. WriterInv'
    BY <1>1, <2>2, <2>7 DEF WriterInv, WriterTypeOK, BufferBounded, ItemSize
  <2>9. ReaderInv'
    <3>1. StreamTypeOK' /\ Len(wire') >= Len(wire) /\ Len(wire') \in Nat
      BY <2>7 DEF StreamGrew, StreamTypeOK
    <3>2. Len(wire') >= rd.off
      BY <1>1, <3>1
    <3> QED
      BY <1>1, <2>2, <3>1, <3>2, ReaderKeepsItsPlace
  <2> QED
    BY <1>1, <2>2, <2>8, <2>9 DEF IInv
<1>4. CASE ReaderStep
  <2>1. UNCHANGED streamVars /\ UNCHANGED writerVars /\ UNCHANGED pipeVars
    BY <1>4 DEF ReaderStep
  <2>2. ReaderInv'
    BY <1>1, <1>4, <2>1, ReadItemKeeps, SkipBlockKeeps DEF ReaderStep, ReaderNext
  <2>3. WriterInv'
    BY <1>1, <2>1
       DEF streamVars, writerVars, pipeVars, WriterInv, WriterTypeOK, BufferBounded, ItemSize,
           OffsetCounts
  <2> QED
    BY <1>1, <2>1, <2>2, <2>3 DEF IInv, pipeVars, streamVars
<1>5. CASE Leave \/ Lose
  <2>1. /\ UNCHANGED writerVars /\ UNCHANGED readerVars /\ arrayEnd' = arrayEnd
        /\ end' \in {"eof", "fault"} /\ disturbed' \in BOOLEAN /\ nulls' = nulls
    BY <1>5 DEF Leave, Lose, HangUp, Truncate
  <2>2. /\ wire' \in Seq(Byte) /\ Len(wire') >= rd.off
        /\ ~disturbed' => wire' = wire
    <3>1. CASE Leave
      BY <1>1, <3>1 DEF Leave, HangUp
    <3>2. CASE Lose
      <4>1. PICK n \in rd.off .. Len(wire) : wire' = SubSeq(wire, 1, n)
        BY <3>2 DEF Lose, Truncate
      <4>2. wire' \in Seq(Byte) /\ Len(wire') = n
        BY <1>1, <4>1, SubSeqProperties
      <4> QED
        BY <1>1, <3>2, <4>2 DEF Lose
    <3> QED
      BY <1>5, <3>1, <3>2
  <2>3. StreamTypeOK'
    BY <1>1, <2>1, <2>2 DEF StreamTypeOK, Ends
  <2>4. ReaderInv'
    BY <1>1, <2>1, <2>2, <2>3, ReaderKeepsItsPlace
  <2>5. ~disturbed' => ~disturbed
    BY <1>1, <1>5 DEF Leave, HangUp, Lose
  <2>6. OffsetCounts'
    BY <1>1, <2>1, <2>2, <2>5 DEF writerVars, WriterInv, OffsetCounts
  <2>7. WriterInv'
    BY <1>1, <2>1, <2>6 DEF writerVars, WriterInv, WriterTypeOK, BufferBounded, ItemSize
  <2> QED
    BY <1>1, <2>1, <2>4, <2>7 DEF IInv
<1>6. CASE UNCHANGED vars
  <2>1. UNCHANGED streamVars /\ UNCHANGED writerVars /\ UNCHANGED readerVars /\ UNCHANGED pipeVars
    BY <1>6 DEF vars
  <2>2. StreamTypeOK' /\ wire' = wire
    BY <1>1, <2>1 DEF streamVars, StreamTypeOK
  <2>3. ReaderInv'
    BY <1>1, <2>1, <2>2, ReaderKeepsItsPlace
  <2>4. WriterInv'
    BY <1>1, <2>1, <2>2
       DEF streamVars, writerVars, pipeVars, WriterInv, WriterTypeOK, BufferBounded, ItemSize,
           OffsetCounts
  <2> QED
    BY <1>1, <2>1, <2>3, <2>4 DEF IInv, pipeVars, streamVars
<1> QED
  BY <1>2, <1>3, <1>4, <1>5, <1>6 DEF Next

-----------------------------------------------------------------------------
(***************************************************************************)
(* Writer, reader and stream keep their types: no count, offset or length  *)
(* leaves its range, for any number of items and any mix of failures.      *)
(***************************************************************************)
THEOREM PipeTypeCorrect == Spec => []TypeOK
<1>1. IInv => TypeOK
  BY DEF IInv, ReaderInv, WriterInv, TypeOK
<1> QED
  BY <1>1, InitIInv, NextIInv, PTL DEF Spec

(***************************************************************************)
(* WriteArray never returns nil for an array that lacks the terminating    *)
(* block or an item its callback offered before the writer was closed      *)
(* (array.go:379).                                                         *)
(***************************************************************************)
THEOREM WriteArrayNilIsComplete == Spec => []WriteArrayNilMeansComplete
<1>1. IInv => WriteArrayNilMeansComplete
  BY DEF IInv, WriterInv, WriteArrayNilMeansComplete
<1> QED
  BY <1>1, InitIInv, NextIInv, PTL DEF Spec

(***************************************************************************)
(* The pending block of a sized writer is bounded by the limit, and by one *)
(* item more once a flush has failed (the flush of array.go:319).          *)
(***************************************************************************)
THEOREM BufferIsBounded == Spec => []BufferBounded
<1>1. IInv => BufferBounded
  BY DEF IInv, WriterInv
<1> QED
  BY <1>1, InitIInv, NextIInv, PTL DEF Spec

(***************************************************************************)
(* The offset of the BinaryWriter counts the bytes of the sink until a     *)
(* write fails, and is never ahead of them (avro.go:41).                   *)
(***************************************************************************)
THEOREM OffsetIsCount == Spec => []OffsetCounts
<1>1. IInv => OffsetCounts
  BY DEF IInv, WriterInv
<1> QED
  BY <1>1, InitIInv, NextIInv, PTL DEF Spec

(***************************************************************************)
(* Once a write of the array has failed, no step adds a byte to the sink   *)
(* or replaces the sticky error (array.go:368).                            *)
(***************************************************************************)
THEOREM FailureIsFinal == Spec => NothingAfterFailure
<1>1. ASSUME IInv, [Next]_vars, werr # "none"
      PROVE  Len(wire') <= Len(wire) /\ werr' = werr
  <2>1. /\ wire \in Seq(Byte) /\ Len(wire) \in Nat /\ rd.off \in Nat /\ ~closed
    BY <1>1, PlaceOnTheStream DEF IInv, WriterInv
  <2>2. CASE WriterStep
    <3>1. WriteArrayCloses \/ WriteArrayGivesUp
      BY <1>1, <2>2 DEF WriterStep, WriterNext, Write, WriteClosed, Close, Failed
    <3>2. wire' = wire /\ werr' = werr
      BY <1>1, <3>1 DEF WriteArrayCloses, WriteArrayGivesUp, Failed, streamVars
    <3> QED
      BY <2>1, <3>2
  <2>3. CASE WriteFollowing
    BY <2>1, <2>3 DEF WriteFollowing
  <2>4. CASE ReaderStep
    BY <2>1, <2>4 DEF ReaderStep, streamVars, writerVars
  <2>5. CASE Leave
    BY <2>1, <2>5 DEF Leave, HangUp, writerVars
  <2>6. CASE Lose
    <3>1. PICK n \in rd.off .. Len(wire) : wire' = SubSeq(wire, 1, n)
      BY <2>6 DEF Lose, Truncate
    <3>2. Len(wire') = n /\ n <= Len(wire)
      BY <2>1, <3>1, SubSeqProperties
    <3> QED
      BY <2>6, <3>2 DEF Lose, writerVars
  <2>7. CASE UNCHANGED vars
    BY <2>1, <2>7 DEF vars, streamVars, writerVars
  <2> QED
    BY <1>1, <2>2, <2>3, <2>4, <2>5, <2>6, <2>7 DEF Next
<1>2. IInv /\ [Next]_vars =>
        [werr # "none" => (Len(wire') <= Len(wire) /\ werr' = werr)]_vars
  BY <1>1
<1> QED
  BY <1>2, InitIInv, NextIInv, PTL DEF Spec, NothingAfterFailure

-----------------------------------------------------------------------------
(***************************************************************************)
(* Delivery: what the reader of the pipe is given is what the writer was   *)
(* given, it is told the truth about the end, and so the pipe implements   *)
(* the channel of ArrayChannel.                                            *)
(*                                                                         *)
(* The bytes on the wire are a beginning of those the writer would have    *)
(* sent if nothing was cut or lost: the ideal stream.  Where the items lie *)
(* in it, and where the reader is among them, is the invariant.            *)
(***************************************************************************)
-----------------------------------------------------------------------------
(***************************************************************************)
(* Where the items lie.  Place k is of item k: it begins after from bytes, *)
(* its block has left items from it on, and ends after stop bytes.         *)
(***************************************************************************)
Places == [from : Nat, left : Nat \ {0}, stop : Nat]

Header(sz, n, size) == IF sz THEN PutVarint(-n) \o PutVarint(size) ELSE PutVarint(n)

\* No block goes on after item k, and where the next one begins.
Ended(L, k) == k = 0 \/ L[k].left = 1

Gap(L, k) == IF k = 0 THEN Len(Preamble) ELSE L[k].stop

Size(p) == p.stop - p.from

Laid(ideal, L, items, nl, sz, k) ==
  LET item == Encoding(nl, items[k])
      after == L[k].from + Len(item)
      head == Header(sz, L[k].left, Size(L[k]))
  IN  /\ Has(ideal, L[k].from, item)
      /\ L[k].left < Half
      /\ L[k].from <= L[k].stop /\ L[k].stop <= Len(ideal)
      /\ L[k].left = 1 => after = L[k].stop
      /\ L[k].left # 1 => /\ k < Len(L) /\ sz
                          /\ L[k + 1].from = after
                          /\ L[k + 1].left = L[k].left - 1
                          /\ L[k + 1].stop = L[k].stop
      /\ Ended(L, k - 1) => /\ Size(L[k]) < Half
                            /\ Has(ideal, Gap(L, k - 1), head)
                            /\ L[k].from = Gap(L, k - 1) + Len(head)

ItemsOf(nl) == IF nl THEN {<< >>} ELSE Items

Layout(ideal, L, items, nl, sz) ==
  /\ ideal \in Seq(Byte) /\ Len(Preamble) <= Len(ideal)
  /\ items \in Seq(ItemsOf(nl))
  /\ L \in Seq(Places)
  /\ Len(L) <= Len(items)
  /\ Ended(L, Len(L))
  /\ \A k \in 1 .. Len(L) : Laid(ideal, L, items, nl, sz, k)

\* What follows the last block: the terminator, or nothing yet.
Closing(ideal, L, term) ==
  IF term THEN Has(ideal, Gap(L, Len(L)), PutVarint(0)) ELSE Len(ideal) = Gap(L, Len(L))

LEMMA GapIsNat ==
  ASSUME NEW ideal, NEW L, NEW items, NEW nl, NEW sz, Layout(ideal, L, items, nl, sz),
         NEW k \in 0 .. Len(L)
  PROVE  Gap(L, k) \in Nat /\ Gap(L, k) <= Len(ideal)
<1>1. CASE k = 0
  BY <1>1, WriterAssumption DEF Gap, Layout
<1>2. CASE k # 0
  <2>1. L \in Seq(Places) /\ Len(L) \in Nat
    BY DEF Layout
  <2>2. k \in 1 .. Len(L)
    BY <1>2, <2>1
  <2>3. L[k] \in Places /\ Laid(ideal, L, items, nl, sz, k)
    BY <2>1, <2>2 DEF Layout
  <2> QED
    BY <1>2, <2>3 DEF Gap, Places, Laid
<1> QED
  BY <1>1, <1>2

\* The items of a block follow each other.
LEMMA BlockTogether ==
  ASSUME NEW ideal, NEW L, NEW items, NEW nl, NEW sz, Layout(ideal, L, items, nl, sz),
         NEW k \in 1 .. Len(L)
  PROVE  \A j \in 0 .. L[k].left - 1 :
           k + j \in 1 .. Len(L) /\ L[k + j].left = L[k].left - j /\ L[k + j].stop = L[k].stop
<1> DEFINE Good(j) ==
      k + j \in 1 .. Len(L) /\ L[k + j].left = L[k].left - j /\ L[k + j].stop = L[k].stop
           T == {j \in 0 .. L[k].left - 1 : ~Good(j)}
<1> SUFFICES ASSUME T # {} PROVE FALSE
  OBVIOUS
<1>1. L \in Seq(Places) /\ Len(L) \in Nat /\ k \in Nat
  BY DEF Layout
<1>2. L[k] \in Places
  BY <1>1
<1>3. L[k].left \in Nat \ {0}
  BY <1>2 DEF Places
<1>4. T \in SUBSET Nat
  BY <1>3
<1>5. PICK m \in T : \A j \in T : m <= j
  BY <1>4, MinOfNats
<1>6. m \in 0 .. L[k].left - 1 /\ ~Good(m)
  OBVIOUS
<1>7. m # 0
  <2>1. Good(0)
    BY <1>1, <1>3
  <2> QED
    BY <1>6, <2>1
<1>8. m - 1 \in 0 .. L[k].left - 1 /\ ~(m <= m - 1)
  BY <1>3, <1>6, <1>7
<1>9. Good(m - 1)
  BY <1>5, <1>8
<1>10. Laid(ideal, L, items, nl, sz, k + (m - 1)) /\ k + (m - 1) + 1 = k + m
  BY <1>1, <1>8, <1>9 DEF Layout
<1>11. L[k + (m - 1)].left = L[k].left - (m - 1) /\ L[k].left - (m - 1) # 1
  BY <1>3, <1>6, <1>9
<1>12. /\ k + (m - 1) < Len(L)
       /\ L[k + m].left = L[k + (m - 1)].left - 1 /\ L[k + m].stop = L[k + (m - 1)].stop
  BY <1>10, <1>11 DEF Laid
<1>13. k + m \in 1 .. Len(L)
  BY <1>1, <1>8, <1>12
<1>14. L[k + m].left = L[k].left - m /\ L[k + m].stop = L[k].stop
  <2>1. L[k + (m - 1)].stop = L[k].stop
    BY <1>9
  <2>2. L[k].left - (m - 1) - 1 = L[k].left - m
    BY <1>3, <1>8
  <2> QED
    BY <1>11, <1>12, <2>1, <2>2
<1> QED
  BY <1>6, <1>13, <1>14

\* A size that does not fit a long any more makes the reader expect an end
\* that it has passed.
SizeKept(r, stop) == IF stop < Half THEN r.blockEnd = stop ELSE r.blockEnd < r.off

LEMMA EndOverflows ==
  ASSUME NEW stop \in Nat, NEW from \in Nat, from <= stop, stop - from < Half
  PROVE  /\ stop < Half => Wrap(stop) = stop
         /\ ~(stop < Half) => Wrap(stop) < from
<1>1. Half \in Nat \ {0}
  BY HalfIsPositive
<1>2. CASE stop < Half
  BY <1>1, <1>2, WrapOfLong DEF Long
<1>3. CASE ~(stop < Half)
  <2>1. Wrap(stop) \in Long
    BY WrapIsLong
  <2>2. CASE stop < 2 * Half
    <3>1. (stop + Half) % (2 * Half) = stop - Half
      <4>1. stop + Half = 2 * Half + (stop - Half) /\ stop - Half \in 0 .. (2 * Half - 1)
        BY <1>1, <1>3, <2>2
      <4>2. \A a \in Nat, m \in Nat \ {0} : a < m => (m + a) % m = a
        OBVIOUS
      <4>3. 2 * Half \in Nat \ {0} /\ stop - Half \in Nat /\ stop - Half < 2 * Half
        BY <1>1, <4>1
      <4> QED
        BY <4>1, <4>2, <4>3
    <3>2. Wrap(stop) = stop - 2 * Half
      BY <1>1, <3>1 DEF Wrap
    <3> QED
      BY <1>1, <1>3, <2>2, <3>2
  <2>3. CASE ~(stop < 2 * Half)
    BY <1>1, <2>1, <2>3 DEF Long
  <2> QED
    BY <2>2, <2>3
<1> QED
  BY <1>2, <1>3

-----------------------------------------------------------------------------
(***************************************************************************)
(* Where the reader is, having passed n items.                             *)
(***************************************************************************)
Reading(r, L, n, sz, term) ==
  /\ n \in 0 .. Len(L)
  /\ (InBlock(r) /\ r.remaining = 0) => Ended(L, n) /\ r.off = Gap(L, n)
  /\ (InBlock(r) /\ r.remaining # 0) =>
       /\ n < Len(L)
       /\ r.off = L[n + 1].from
       /\ r.remaining = L[n + 1].left
       /\ r.sized = sz
       /\ sz => SizeKept(r, L[n + 1].stop)
  /\ r.done => term /\ n = Len(L) /\ r.off = Gap(L, n) + Len(PutVarint(0))

\* The reader is on the way in this stream.
Under(ideal, L, term) ==
  /\ StreamTypeOK
  /\ sized \in BOOLEAN
  /\ Begins(wire, ideal)
  /\ Layout(ideal, L, offered, nulls, sized)
  /\ Closing(ideal, L, term)

\* Nothing is missing, and nothing too large for the reader.
Whole(ideal) ==
  /\ Len(wire) = Len(ideal)
  /\ Len(wire) < Half
  /\ end # "fault"
  /\ \A v \in Items : Len(v) < IntHalf

LEMMA WholeHas ==
  ASSUME NEW ideal, Whole(ideal), NEW off, NEW b, Has(ideal, off, b)
  PROVE  off + Len(b) <= Len(wire)
BY DEF Whole, Has

LEMMA FailedReads ==
  ASSUME NEW r \in Readers, r.err = "none", ~r.done, NEW off, NEW e, e # "none", NEW L, NEW n \in 0 .. Len(L), NEW sz, NEW term
  PROVE  Reading(Fail(r, off, e), L, n, sz, term) /\ Fail(r, off, e).err = e /\ ~Fail(r, off, e).done
<1>1. Fail(r, off, e).err = e /\ Fail(r, off, e).done = r.done
  BY DEF Fail, Readers
<1> QED
  BY <1>1 DEF Reading, InBlock

LEMMA InsideReads ==
  ASSUME NEW r, r.err = "none", ~r.done, r.remaining # 0,
         NEW L, NEW n \in 0 .. Len(L), n < Len(L),
         r.off = L[n + 1].from, r.remaining = L[n + 1].left,
         NEW sz, r.sized = sz, sz => SizeKept(r, L[n + 1].stop), NEW term
  PROVE  Reading(r, L, n, sz, term)
BY DEF Reading, InBlock

\* nextBlock after the last block.
LEMMA EndAt ==
  ASSUME NEW ideal, NEW L, NEW term, Under(ideal, L, term),
         NEW r, Standing(r), r.err = "none", ~r.done, Ended(L, Len(L)), r.off = Gap(L, Len(L))
  PROVE  LET p == NextBlock(r)
         IN  /\ Reading(p, L, Len(L), sized, term)
             /\ ~InBlock(p)
             /\ Whole(ideal) => p.err \in {"none", "truncatedArray"}
<1> DEFINE c == ReadLong(wire, end, r.off)
           p == NextBlock(r)
           zero == PutVarint(0)
<1>1. /\ wire \in Seq(Byte) /\ Len(wire) \in Nat /\ r \in Readers /\ r.off \in 0 .. Len(wire) /\ r.off \in Nat
      /\ Len(L) \in 0 .. Len(L)
  BY DEF Under, StreamTypeOK, Standing, Layout
<1>2. 0 \in Long
  BY HalfIsPositive DEF Long
<1>3. c = Result(Len(wire), ReadFullError(end, 0), 0) => c.err # "none" /\ c.off = Len(wire)
  BY DEF Result, ReadFullError
<1>4. CASE term
  <2>1. Has(ideal, r.off, zero) /\ ideal \in Seq(Byte) /\ Begins(wire, ideal)
    BY <1>4 DEF Under, Closing, Layout
  <2>2. c = IF r.off + Len(zero) <= Len(wire) THEN Result(r.off + Len(zero), "none", 0)
            ELSE Result(Len(wire), ReadFullError(end, 0), 0)
    BY <1>1, <1>2, <2>1, LongAt
  <2>3. CASE r.off + Len(zero) <= Len(wire)
    <3>1. c.err = "none" /\ c.val = 0 /\ c.off = r.off + Len(zero)
      BY <2>2, <2>3 DEF Result
    <3>2. p = [r EXCEPT !.off = c.off, !.done = TRUE]
      BY <3>1 DEF NextBlock
    <3> HIDE DEF c, p, zero
    <3>3. p.done /\ p.off = r.off + Len(zero) /\ p.err = "none"
      BY <1>1, <3>1, <3>2 DEF Readers
    <3> QED
      BY <1>1, <1>4, <3>3 DEF Reading, InBlock, p, zero
  <2>4. CASE ~(r.off + Len(zero) <= Len(wire))
    <3>1. c.err # "none"
      BY <1>3, <2>2, <2>4
    <3>2. p = Fail(r, c.off, CountError(r.off, c)) /\ CountError(r.off, c) # "none"
      BY <3>1 DEF NextBlock, CountError, UnexpectedEOF
    <3>3. ~Whole(ideal)
      BY <2>1, <2>4, WholeHas
    <3>4. /\ Reading(Fail(r, c.off, CountError(r.off, c)), L, Len(L), sized, term)
          /\ Fail(r, c.off, CountError(r.off, c)).err # "none"
      BY <1>1, <3>2, FailedReads
    <3> HIDE DEF p, c
    <3>5. Reading(p, L, Len(L), sized, term) /\ ~InBlock(p)
      BY <3>2, <3>4 DEF InBlock
    <3> QED
      BY <3>3, <3>5 DEF p
  <2> QED
    BY <2>3, <2>4
<1>5. CASE ~term
  <2>1. Len(ideal) = r.off /\ Len(wire) <= Len(ideal) /\ Len(ideal) \in Nat
    BY <1>5 DEF Under, Closing, Begins, Layout
  <2>2. Len(wire) = r.off
    BY <1>1, <2>1
  <2>3. LastGroups(wire, r.off) = {}
    BY <1>1, <2>2, VarintAssumption DEF LastGroups
  <2>4. ~(r.off + MaxLen <= Len(wire))
    BY <1>1, <2>2, VarintAssumption
  <2>5. c = Result(Len(wire), ReadFullError(end, 0), 0)
    BY <2>3, <2>4 DEF ReadLong
  <2>6. p = Fail(r, c.off, CountError(r.off, c)) /\ CountError(r.off, c) # "none"
    BY <1>3, <2>5 DEF NextBlock, CountError, UnexpectedEOF
  <2>7. Whole(ideal) => CountError(r.off, c) = "truncatedArray"
    BY <2>2, <2>5 DEF CountError, Result, ReadFullError, Whole
  <2> QED
    BY <1>1, <2>6, <2>7, FailedReads DEF InBlock
<1> QED
  BY <1>4, <1>5

LEMMA PlaceAt ==
  ASSUME NEW ideal, NEW L, NEW items, NEW nl, NEW sz, Layout(ideal, L, items, nl, sz),
         NEW k \in 1 .. Len(L)
  PROVE  /\ k \in Nat /\ Len(L) \in Nat /\ k <= Len(L)
         /\ L[k] \in Places
         /\ L[k].from \in Nat /\ L[k].left \in Nat \ {0} /\ L[k].stop \in Nat
         /\ L[k].from <= L[k].stop /\ L[k].stop <= Len(ideal)
         /\ L[k].left < Half
         /\ Laid(ideal, L, items, nl, sz, k)
         /\ items[k] \in ItemsOf(nl)
<1>1. L \in Seq(Places) /\ Len(L) \in Nat /\ items \in Seq(ItemsOf(nl)) /\ Len(L) <= Len(items)
      /\ Len(items) \in Nat
  BY DEF Layout
<1>2. k \in Nat /\ k <= Len(L) /\ k \in 1 .. Len(items)
  BY <1>1
<1>3. L[k] \in Places /\ items[k] \in ItemsOf(nl)
  BY <1>1, <1>2
<1>4. L[k].from \in Nat /\ L[k].left \in Nat \ {0} /\ L[k].stop \in Nat
  BY <1>3 DEF Places
<1>5. Laid(ideal, L, items, nl, sz, k)
  BY DEF Layout
<1>6. L[k].from <= L[k].stop /\ L[k].stop <= Len(ideal) /\ L[k].left < Half
  BY <1>5 DEF Laid
<1> QED
  BY <1>1, <1>2, <1>3, <1>4, <1>5, <1>6

\* nextBlock before a block.
LEMMA BlockAt ==
  ASSUME NEW ideal, NEW L, NEW term, Under(ideal, L, term),
         NEW r, Standing(r), r.err = "none", ~r.done,
         NEW n \in 0 .. Len(L), n # Len(L), Ended(L, n), r.off = Gap(L, n)
  PROVE  LET p == NextBlock(r)
         IN  /\ Reading(p, L, n, sized, term)
             /\ InBlock(p) => p.remaining # 0
             /\ Whole(ideal) => p.err = "none"
<1> DEFINE c == ReadLong(wire, end, r.off)
           p == NextBlock(r)
           k == n + 1
           at == L[k]
           fail == Result(Len(wire), ReadFullError(end, 0), 0)
<1>1. /\ wire \in Seq(Byte) /\ Len(wire) \in Nat /\ r \in Readers /\ r.off \in 0 .. Len(wire) /\ r.off \in Nat
      /\ Layout(ideal, L, offered, nulls, sized) /\ ideal \in Seq(Byte) /\ Begins(wire, ideal)
      /\ Half \in Nat \ {0} /\ Len(L) \in Nat /\ sized \in BOOLEAN
  BY HalfIsPositive DEF Under, StreamTypeOK, Standing, Layout
<1>2. k \in 1 .. Len(L) /\ n \in Nat /\ n < Len(L) /\ k - 1 = n
  BY <1>1
<1>3. /\ at.from \in Nat /\ at.left \in Nat \ {0} /\ at.stop \in Nat
      /\ at.from <= at.stop /\ at.stop <= Len(ideal) /\ at.left < Half
      /\ Laid(ideal, L, offered, nulls, sized, k)
  BY <1>1, <1>2, PlaceAt
<1>4. /\ Size(at) < Half /\ Size(at) \in Nat /\ at.from + Size(at) = at.stop
      /\ Has(ideal, r.off, Header(sized, at.left, Size(at)))
      /\ at.from = r.off + Len(Header(sized, at.left, Size(at)))
  <2>1. Ended(L, k - 1)
    BY <1>2
  <2>2. Size(at) < Half /\ Has(ideal, Gap(L, k - 1), Header(sized, at.left, Size(at)))
        /\ at.from = Gap(L, k - 1) + Len(Header(sized, at.left, Size(at)))
    BY <1>3, <2>1 DEF Laid
  <2>3. Size(at) = at.stop - at.from
    BY DEF Size
  <2> QED
    BY <1>2, <1>3, <2>2, <2>3
<1>5. fail.err # "none" /\ fail.off = Len(wire)
  BY DEF Result, ReadFullError
<1> HIDE DEF at, fail
<1>6. CASE ~sized
  <2> DEFINE head == PutVarint(at.left)
  <2>1. Header(sized, at.left, Size(at)) = head /\ at.left \in Long
    BY <1>1, <1>3, <1>6 DEF Header, Long
  <2>0. Has(ideal, r.off, head)
    BY <1>4, <2>1
  <2>2. c = IF r.off + Len(head) <= Len(wire) THEN Result(r.off + Len(head), "none", at.left) ELSE fail
    BY <1>1, <2>0, <2>1, LongAt DEF fail
  <2>3. CASE r.off + Len(head) <= Len(wire)
    <3>1. c.err = "none" /\ c.val = at.left /\ c.off = at.from
      BY <1>4, <2>1, <2>2, <2>3 DEF Result
    <3>2. c.val # 0 /\ ~(c.val < 0)
      BY <1>3, <3>1
    <3>3. p = [r EXCEPT !.off = at.from, !.sized = FALSE, !.remaining = at.left]
      BY <3>1, <3>2 DEF NextBlock
    <3> HIDE DEF p
    <3>4. p.off = at.from /\ p.remaining = at.left /\ p.err = "none" /\ p.done = FALSE /\ p.sized = FALSE
      BY <1>1, <3>3 DEF Readers
    <3>5. p.remaining # 0 /\ p.sized = sized /\ ~p.done /\ n \in 0 .. Len(L)
      BY <1>1, <1>3, <1>6, <3>4
    <3>6. Reading(p, L, n, sized, term)
      BY <1>2, <1>6, <3>4, <3>5, InsideReads DEF at
    <3> QED
      BY <3>4, <3>5, <3>6 DEF p
  <2>4. CASE ~(r.off + Len(head) <= Len(wire))
    <3>1. c.err # "none"
      BY <1>5, <2>2, <2>4
    <3>2. p = Fail(r, c.off, CountError(r.off, c)) /\ CountError(r.off, c) # "none"
      BY <3>1 DEF NextBlock, CountError, UnexpectedEOF
    <3>3. ~Whole(ideal)
      BY <1>4, <2>1, <2>4, WholeHas
    <3> QED
      BY <1>1, <3>2, <3>3, FailedReads DEF InBlock
  <2> QED
    BY <2>3, <2>4
<1>7. CASE sized
  <2> DEFINE ct == PutVarint(-at.left)
             sb == PutVarint(Size(at))
             mid == r.off + Len(ct)
             size == ReadLong(wire, end, mid)
  <2>1. /\ Header(sized, at.left, Size(at)) = ct \o sb
        /\ -at.left \in Long /\ Size(at) \in Long /\ -at.left < 0 /\ -at.left # -Half
        /\ -(-at.left) = at.left /\ at.left \in Long
    <3>1. at.left \in Nat /\ at.left # 0 /\ at.left < Half /\ Half \in Nat /\ Size(at) \in Nat /\ Size(at) < Half
      BY <1>1, <1>3, <1>4
    <3>2. -at.left \in Long /\ at.left \in Long /\ -at.left < 0 /\ -at.left # -Half /\ -(-at.left) = at.left
      BY <3>1 DEF Long
    <3>3. Size(at) \in Long
      BY <3>1 DEF Long
    <3> QED
      BY <1>7, <3>2, <3>3 DEF Header
  <2>2. ct \in Seq(Byte) /\ sb \in Seq(Byte) /\ Len(ct) \in Nat /\ Len(sb) \in Nat
    BY <2>1, PutVarintIsBytes
  <2>3. Has(ideal, r.off, ct) /\ Has(ideal, mid, sb)
    BY <1>1, <1>4, <2>1, <2>2, HasParts
  <2>4. at.from = mid + Len(sb) /\ mid \in Nat
    BY <1>1, <1>4, <2>1, <2>2
  <2>5. c = IF mid <= Len(wire) THEN Result(mid, "none", -at.left) ELSE fail
    BY <1>1, <2>1, <2>3, LongAt DEF fail
  <2>6. CASE ~(mid <= Len(wire))
    <3>1. c.err # "none"
      BY <1>5, <2>5, <2>6
    <3>2. p = Fail(r, c.off, CountError(r.off, c)) /\ CountError(r.off, c) # "none"
      BY <3>1 DEF NextBlock, CountError, UnexpectedEOF
    <3>3. ~Whole(ideal)
      BY <2>3, <2>6, WholeHas
    <3> QED
      BY <1>1, <3>2, <3>3, FailedReads DEF InBlock
  <2>7. CASE mid <= Len(wire)
    <3> DEFINE was == [r EXCEPT !.sized = TRUE]
               placed == [was EXCEPT !.blockEnd = BlockEnd(size)]
    <3>1. c.err = "none" /\ c.val = -at.left /\ c.off = mid
      BY <2>5, <2>7 DEF Result
    <3>2. p = SizedHeader(r, mid, -at.left) /\ ~NoMagnitude(-at.left)
      BY <2>1, <3>1 DEF NextBlock, NoMagnitude
    <3>3. size = IF mid + Len(sb) <= Len(wire) THEN Result(mid + Len(sb), "none", Size(at)) ELSE fail
      <4>1. mid \in 0 .. Len(wire)
        BY <1>1, <2>4, <2>7
      <4> HIDE DEF mid
      <4> QED
        BY <1>1, <2>1, <2>3, <4>1, LongAt DEF fail
    <3>4. was \in Readers /\ was.err = "none" /\ was.done = FALSE
      BY <1>1 DEF Readers
    <3> HIDE DEF size, was
    <3>5. CASE ~(mid + Len(sb) <= Len(wire))
      <4>1. size.err # "none"
        BY <1>5, <3>3, <3>5
      <4>2. p = Fail(was, size.off, UnexpectedEOF(size.err)) /\ UnexpectedEOF(size.err) # "none"
        BY <3>2, <4>1 DEF SizedHeader, UnexpectedEOF, was, size
      <4>3. ~Whole(ideal)
        BY <2>3, <3>5, WholeHas
      <4> QED
        BY <1>1, <3>4, <4>2, <4>3, FailedReads DEF InBlock
    <3>6. CASE mid + Len(sb) <= Len(wire)
      <4>1. size.err = "none" /\ size.val = Size(at) /\ size.off = at.from /\ ~(size.val < 0)
        BY <1>4, <2>4, <3>3, <3>6 DEF Result
      <4>2. BlockEnd(size) = Wrap(at.stop)
        BY <1>4, <4>1 DEF BlockEnd
      <4>3. /\ at.stop < Half => Wrap(at.stop) = at.stop
            /\ ~(at.stop < Half) => Wrap(at.stop) < at.from
        <5>1. at.stop - at.from < Half
          BY <1>4 DEF Size
        <5> QED
          BY <1>3, <5>1, EndOverflows
      <4>4. placed \in Readers /\ placed.err = "none" /\ placed.done = FALSE
            /\ placed.blockEnd = Wrap(at.stop) /\ placed.sized = TRUE
        <5>1. Wrap(at.stop) \in Long
          BY <1>3, WrapIsLong
        <5>2. BlockEnd(size) \in Long /\ was.sized = TRUE
          BY <1>1, <4>2, <5>1 DEF was, Readers
        <5> QED
          BY <3>4, <4>2, <5>2 DEF Readers
      <4>5. CASE BlockEnd(size) < 0
        <5>1. p = Fail(placed, size.off, "overflow")
          BY <3>2, <4>1, <4>5 DEF SizedHeader, was, size
        <5>2. ~Whole(ideal)
          <6>1. Len(ideal) < Half => at.stop < Half
            BY <1>1, <1>3
          <6>2. at.stop < Half => ~(BlockEnd(size) < 0)
            BY <1>3, <4>2, <4>3
          <6> QED
            BY <4>5, <6>1, <6>2 DEF Whole
        <5> HIDE DEF placed
        <5>3. placed \in Readers /\ placed.err = "none" /\ ~placed.done /\ "overflow" # "none"
          BY <4>4
        <5>4. /\ Reading(Fail(placed, size.off, "overflow"), L, n, sized, term)
              /\ Fail(placed, size.off, "overflow").err = "overflow"
          BY <5>3, FailedReads
        <5> HIDE DEF p
        <5>5. Reading(p, L, n, sized, term) /\ ~InBlock(p)
          BY <5>1, <5>4 DEF InBlock
        <5> QED
          BY <5>2, <5>5 DEF p
      <4>6. CASE ~(BlockEnd(size) < 0)
        <5>1. p = [placed EXCEPT !.off = size.off, !.remaining = Wrap(at.left)]
          BY <2>1, <3>2, <4>1, <4>6 DEF SizedHeader, was, size
        <5>2. Wrap(at.left) = at.left
          BY <2>1, WrapOfLong
        <5> HIDE DEF placed, p
        <5>3. /\ p.off = at.from /\ p.remaining = at.left /\ p.err = "none" /\ p.done = FALSE
              /\ p.sized = TRUE /\ p.blockEnd = Wrap(at.stop)
          BY <4>1, <4>4, <5>1, <5>2 DEF Readers
        <5>4. p.remaining # 0 /\ p.sized = sized /\ ~p.done /\ n \in 0 .. Len(L)
          BY <1>1, <1>3, <1>7, <5>3
        <5>5. SizeKept(p, at.stop)
          BY <4>3, <5>3 DEF SizeKept
        <5>6. Reading(p, L, n, sized, term)
          BY <1>2, <5>3, <5>4, <5>5, InsideReads DEF at
        <5> QED
          BY <5>3, <5>4, <5>6 DEF p
      <4> QED
        BY <4>5, <4>6
    <3> QED
      BY <3>5, <3>6
  <2> QED
    BY <2>6, <2>7
<1> QED
  BY <1>6, <1>7

LEMMA PositionedAt ==
  ASSUME NEW ideal, NEW L, NEW term, Under(ideal, L, term),
         NEW r, Standing(r), r.err = "none", ~r.done,
         NEW n, Reading(r, L, n, sized, term)
  PROVE  LET p == Positioned(r)
         IN  /\ Reading(p, L, n, sized, term)
             /\ InBlock(p) => p.remaining # 0
             /\ Whole(ideal) => p.err \in {"none", "truncatedArray"}
<1>1. n \in 0 .. Len(L)
  BY DEF Reading
<1>2. CASE r.remaining # 0
  BY <1>2 DEF Positioned
<1>3. CASE r.remaining = 0
  <2>1. Positioned(r) = NextBlock(r)
    BY <1>3 DEF Positioned
  <2>2. Ended(L, n) /\ r.off = Gap(L, n)
    BY <1>3 DEF Reading, InBlock
  <2>3. CASE n = Len(L)
    BY <2>1, <2>2, <2>3, EndAt
  <2>4. CASE n # Len(L)
    BY <1>1, <2>1, <2>2, <2>4, BlockAt
  <2> QED
    BY <2>3, <2>4
<1> QED
  BY <1>2, <1>3

\* In the middle of a block, or after the last item of one.
LEMMA BetweenReads ==
  ASSUME NEW r, r.err = "none", ~r.done, r.remaining = 0,
         NEW L, NEW n \in 0 .. Len(L), Ended(L, n), r.off = Gap(L, n),
         NEW sz, NEW term
  PROVE  Reading(r, L, n, sz, term)
BY DEF Reading, InBlock

\* Next decodes the item whose turn it is.
LEMMA DecodeNextAt ==
  ASSUME NEW ideal, NEW L, NEW term, Under(ideal, L, term),
         NEW r, Standing(r), r.err = "none", ~r.done,
         NEW n, Reading(r, L, n, sized, term)
  PROVE  LET res == DecodeNext(r)
         IN  /\ ~res.ok => Reading(res.rd, L, n, sized, term)
             /\ res.ok => /\ n < Len(L) /\ res.val = offered[n + 1]
                          /\ Reading(res.rd, L, n + 1, sized, term)
             /\ Whole(ideal) => res.rd.err \in {"none", "truncatedArray"}
<1> DEFINE p == Positioned(r)
           item == Unmarshal(p.off)
           after == [p EXCEPT !.off = item.off, !.remaining = @ - 1]
           res == DecodeNext(r)
           k == n + 1
           at == L[k]
           v == offered[k]
           to == at.from + Len(Encoding(nulls, v))
<1>1. /\ StreamTypeOK /\ Begins(wire, ideal) /\ Layout(ideal, L, offered, nulls, sized)
      /\ ideal \in Seq(Byte) /\ Len(L) \in Nat /\ n \in 0 .. Len(L) /\ Len(wire) \in Nat
      /\ wire \in Seq(Byte) /\ nulls \in BOOLEAN /\ sized \in BOOLEAN
  BY DEF Under, StreamTypeOK, Layout, Reading
<1>2. Standing(p) /\ p \in Readers /\ p.off \in 0 .. Len(wire)
  BY <1>1, PositionedStands DEF Standing
<1>3. /\ Reading(p, L, n, sized, term)
      /\ InBlock(p) => p.remaining # 0
      /\ Whole(ideal) => p.err \in {"none", "truncatedArray"}
  BY PositionedAt
<1> HIDE DEF p
<1>4. CASE ~InBlock(p)
  <2>1. res = NoItem(p)
    BY <1>4 DEF DecodeNext, p
  <2>2. res.rd = p /\ res.ok = FALSE
    BY <2>1 DEF NoItem
  <2> QED
    BY <1>3, <2>2
<1>5. CASE InBlock(p)
  <2>1. /\ p.err = "none" /\ ~p.done /\ n < Len(L) /\ p.off = at.from /\ p.remaining = at.left
        /\ p.sized = sized /\ (sized => SizeKept(p, at.stop))
    BY <1>3, <1>5 DEF InBlock, Reading
  <2>2. k \in 1 .. Len(L) /\ k - 1 = n /\ n \in Nat /\ k # 0 /\ k \in 0 .. Len(L)
    BY <1>1, <2>1
  <2>3. /\ at.from \in Nat /\ at.left \in Nat \ {0} /\ at.stop \in Nat
        /\ at.from <= at.stop /\ at.stop <= Len(ideal)
        /\ Laid(ideal, L, offered, nulls, sized, k)
        /\ v \in ItemsOf(nulls)
    BY <1>1, <2>2, PlaceAt
  <2> HIDE DEF k, v
  <2>4. v \in Values /\ v \in Items /\ v \in Seq(Byte) /\ Len(v) \in Long
    <3>1. v \in Values /\ v \in Items
      BY <2>3, ItemsAssumption DEF ItemsOf, Values
    <3>2. v \in Seq(Byte) /\ Limit + MaxLen + Len(v) < Half
      BY <3>1, ItemsAssumption, RangeAssumption
    <3>3. Limit \in Nat /\ MaxLen \in Nat /\ Len(v) \in Nat /\ Half \in Nat
      BY <3>2, HalfIsPositive, WriterAssumption, VarintAssumption
    <3> QED
      BY <3>1, <3>2, <3>3 DEF Long
  <2>5. Has(ideal, p.off, Encoding(nulls, v))
    BY <2>1, <2>3 DEF Laid, v
  <2>6. /\ item.err = "none" => item = Result(to, "none", v) /\ to <= Len(wire)
        /\ (to <= Len(wire) /\ Len(v) < IntHalf) => item.err = "none"
    BY <1>1, <1>2, <2>1, <2>4, <2>5, ItemAt
  <2> HIDE DEF item, at, to
  <2>7. CASE item.err # "none"
    <3>1. res = NoItem(Fail(p, item.off, item.err))
      BY <1>5, <2>7 DEF DecodeNext, p, item
    <3>2. res.rd = Fail(p, item.off, item.err) /\ res.ok = FALSE
      BY <3>1 DEF NoItem
    <3>3. Reading(Fail(p, item.off, item.err), L, n, sized, term)
      BY <1>1, <1>2, <2>1, <2>7, FailedReads
    <3>4. ~Whole(ideal)
      <4>1. ASSUME Whole(ideal) PROVE FALSE
        <5>1. to <= Len(wire)
          BY <2>1, <2>5, <4>1, WholeHas DEF to
        <5>2. Len(v) < IntHalf
          BY <2>4, <4>1 DEF Whole
        <5> QED
          BY <2>6, <2>7, <5>1, <5>2
      <4> QED
        BY <4>1
    <3> HIDE DEF res
    <3>5. ~res.ok /\ Reading(res.rd, L, n, sized, term)
      BY <3>2, <3>3
    <3> QED
      BY <3>4, <3>5 DEF res
  <2>8. CASE item.err = "none"
    <3>1. item.off = to /\ item.val = v
      BY <2>6, <2>8 DEF Result
    <3>2. to \in Nat /\ at.from <= to
      <4>1. Encoding(nulls, v) \in Seq(Byte)
        BY <2>4, PutVarintIsBytes DEF Encoding
      <4> QED
        BY <2>3, <4>1 DEF to
    <3> DEFINE less == at.left - 1
    <3>9. less \in Nat /\ after = [p EXCEPT !.off = to, !.remaining = less]
      BY <2>1, <2>3, <3>1
    <3> HIDE DEF less
    <3>10. /\ after \in Readers
           /\ after.off = to /\ after.remaining = less /\ after.err = p.err
           /\ after.done = p.done /\ after.sized = p.sized /\ after.blockEnd = p.blockEnd
      BY <1>2, <3>2, <3>9 DEF Readers
    <3>3. /\ after.off = to /\ after.remaining = at.left - 1 /\ after.err = "none" /\ ~after.done
          /\ after.sized = sized /\ after.blockEnd = p.blockEnd
      BY <2>1, <3>10 DEF less
    <3> HIDE DEF after
    <3>4. CASE at.left = 1
      <4>1. to = at.stop /\ after.remaining = 0
        BY <2>3, <3>3, <3>4 DEF Laid, to, at, v
      <4>2. Ended(L, k) /\ Gap(L, k) = at.stop
        BY <2>2, <3>4 DEF Ended, Gap, at, k
      <4>3. after \in Readers
        BY <3>10
      <4>4. CASE SizeWrong(after)
        <5>1. res = NoItem(Fail(after, after.off, "blockSizeMismatch"))
          BY <1>5, <2>8, <4>4 DEF DecodeNext, p, item, after
        <5>2. res.rd = Fail(after, after.off, "blockSizeMismatch") /\ res.ok = FALSE
          BY <5>1 DEF NoItem
        <5>3. Reading(Fail(after, after.off, "blockSizeMismatch"), L, n, sized, term)
          BY <1>1, <3>3, <4>3, FailedReads
        <5>4. ~Whole(ideal)
          <6>1. sized /\ after.off # after.blockEnd
            BY <3>3, <4>4 DEF SizeWrong
          <6>2. ~(at.stop < Half)
            BY <2>1, <3>3, <4>1, <6>1 DEF SizeKept
          <6>3. Len(ideal) \in Nat /\ Half \in Nat
            BY <1>1, HalfIsPositive
          <6>4. ~(Len(ideal) < Half)
            BY <2>3, <6>2, <6>3
          <6> QED
            BY <6>4 DEF Whole
        <5> HIDE DEF res
        <5>5. ~res.ok /\ Reading(res.rd, L, n, sized, term)
          BY <5>2, <5>3
        <5> QED
          BY <5>4, <5>5 DEF res
      <4>5. CASE ~SizeWrong(after)
        <5>1. res = [rd |-> after, ok |-> TRUE, val |-> item.val, skipped |-> 0]
          BY <1>5, <2>8, <4>5 DEF DecodeNext, p, item, after
        <5>2. Reading(after, L, k, sized, term)
          BY <2>2, <3>3, <4>1, <4>2, BetweenReads
        <5> HIDE DEF res
        <5>3. res.rd = after /\ res.ok = TRUE /\ res.val = v
          BY <3>1, <5>1
        <5>4. Reading(res.rd, L, n + 1, sized, term) /\ res.val = offered[n + 1] /\ res.rd.err = "none"
          BY <3>3, <5>2, <5>3 DEF k, v
        <5> QED
          BY <2>1, <5>3, <5>4 DEF res
      <4> QED
        BY <4>4, <4>5
    <3>5. CASE at.left # 1
      <4>1. /\ k < Len(L) /\ sized /\ L[k + 1].from = to /\ L[k + 1].left = at.left - 1
            /\ L[k + 1].stop = at.stop
        BY <2>3, <3>5 DEF Laid, to, at, v
      <4>2. after.remaining # 0
        BY <2>3, <3>3, <3>5
      <4>3. SizeKept(after, at.stop)
        <5>1. SizeKept(p, at.stop)
          BY <2>1, <4>1
        <5>2. p.blockEnd \in Int
          BY <1>2, HalfIsPositive DEF Readers, Long
        <5> QED
          BY <2>1, <2>3, <3>2, <3>3, <5>1, <5>2 DEF SizeKept
      <4>4. Reading(after, L, k, sized, term)
        BY <2>2, <3>3, <4>1, <4>2, <4>3, InsideReads
      <4>5. res = [rd |-> after, ok |-> TRUE, val |-> item.val, skipped |-> 0]
        BY <1>5, <2>8, <4>2 DEF DecodeNext, p, item, after, SizeWrong
      <4> HIDE DEF res
      <4>6. res.rd = after /\ res.ok = TRUE /\ res.val = v
        BY <3>1, <4>5
      <4>7. Reading(res.rd, L, n + 1, sized, term) /\ res.val = offered[n + 1] /\ res.rd.err = "none"
        BY <3>3, <4>4, <4>6 DEF k, v
      <4> QED
        BY <2>1, <4>6, <4>7 DEF res
    <3> QED
      BY <3>4, <3>5
  <2> QED
    BY <2>7, <2>8
<1> QED
  BY <1>4, <1>5

\* SkipBlock passes over the rest of the block.
LEMMA DiscardBlockAt ==
  ASSUME NEW ideal, NEW L, NEW term, Under(ideal, L, term),
         NEW r, Standing(r), r.err = "none", ~r.done,
         NEW n, Reading(r, L, n, sized, term)
  PROVE  LET res == DiscardBlock(r)
         IN  /\ Reading(res.rd, L, n + res.skipped, sized, term)
             /\ Whole(ideal) => res.rd.err \in {"none", "truncatedArray"}
<1> DEFINE p == Positioned(r)
           unread == Unread(p)
           rest == Discard(wire, end, p.off, unread)
           res == DiscardBlock(r)
           k == n + 1
           at == L[k]
<1>1. /\ Layout(ideal, L, offered, nulls, sized) /\ ideal \in Seq(Byte)
      /\ Len(L) \in Nat /\ n \in 0 .. Len(L) /\ n \in Nat /\ n + 0 = n /\ Len(wire) \in Nat
  BY DEF Under, StreamTypeOK, Layout, Reading
<1>2. Standing(p) /\ p \in Readers /\ p.off \in 0 .. Len(wire)
  <2>1. StreamTypeOK
    BY DEF Under
  <2> QED
    BY <2>1, PositionedStands DEF Standing
<1>3. /\ Reading(p, L, n, sized, term)
      /\ Whole(ideal) => p.err \in {"none", "truncatedArray"}
  BY PositionedAt
<1>4. InBlock(p) => p.remaining # 0
  BY PositionedAt
<1> HIDE DEF p
<1>5. ASSUME NEW q, res = NoItem(q), Reading(q, L, n, sized, term),
             Whole(ideal) => q.err \in {"none", "truncatedArray"}
      PROVE  /\ Reading(res.rd, L, n + res.skipped, sized, term)
             /\ Whole(ideal) => res.rd.err \in {"none", "truncatedArray"}
  <2>1. res.rd = q /\ res.skipped = 0
    BY <1>5 DEF NoItem
  <2> HIDE DEF res
  <2> QED
    BY <1>1, <1>5, <2>1
<1>6. CASE ~InBlock(p) \/ ~p.sized
  <2>1. res = NoItem(p)
    BY <1>6 DEF DiscardBlock, p
  <2> QED
    BY <1>3, <1>5, <2>1
<1>7. CASE InBlock(p) /\ p.sized
  <2>1. /\ p.err = "none" /\ ~p.done /\ n < Len(L) /\ p.off = at.from /\ p.remaining = at.left
        /\ sized /\ SizeKept(p, at.stop)
    BY <1>3, <1>4, <1>7 DEF InBlock, Reading
  <2>2. k \in 1 .. Len(L)
    BY <1>1, <2>1
  <2>3. /\ at.from \in Nat /\ at.left \in Nat \ {0} /\ at.stop \in Nat
        /\ at.from <= at.stop /\ at.stop <= Len(ideal)
    BY <1>1, <2>2, PlaceAt
  <2>4. p.blockEnd \in Int
    BY <1>2, HalfIsPositive DEF Readers, Long
  <2>5. CASE unread < 0
    <3>1. res = NoItem(Fail(p, p.off, "blockSizeMismatch"))
      BY <1>7, <2>5 DEF DiscardBlock, p
    <3>2. /\ Reading(Fail(p, p.off, "blockSizeMismatch"), L, n, sized, term)
      BY <1>1, <1>2, <2>1, FailedReads
    <3>3. ~Whole(ideal)
      <4>1. p.blockEnd < at.from
        BY <2>1, <2>3, <2>4, <2>5 DEF Unread
      <4>2. ~(at.stop < Half)
        BY <2>1, <2>3, <2>4, <4>1 DEF SizeKept
      <4>3. Len(ideal) \in Nat /\ Half \in Nat
        BY <1>1, HalfIsPositive
      <4>4. ~(Len(ideal) < Half)
        BY <2>3, <4>2, <4>3
      <4> QED
        BY <4>4 DEF Whole
    <3> QED
      BY <1>5, <3>1, <3>2, <3>3
  <2>6. CASE ~(unread < 0)
    <3>1. at.stop < Half /\ p.blockEnd = at.stop
      BY <2>1, <2>3, <2>4, <2>6 DEF SizeKept, Unread
    <3>2. p.off + unread = at.stop
      BY <2>1, <2>3, <3>1 DEF Unread
    <3>3. CASE ~(at.stop <= Len(wire))
      <4>1. rest.err # "none"
        BY <3>2, <3>3 DEF Discard, Result
      <4>2. res = NoItem(Fail(p, rest.off, rest.err))
        BY <1>7, <2>6, <4>1 DEF DiscardBlock, p
      <4>3. Reading(Fail(p, rest.off, rest.err), L, n, sized, term)
        BY <1>1, <1>2, <2>1, <4>1, FailedReads
      <4>4. ~Whole(ideal)
        BY <1>1, <2>3, <3>3 DEF Whole
      <4> QED
        BY <1>5, <4>2, <4>3, <4>4
    <3>4. CASE at.stop <= Len(wire)
      <4>1. rest.err = "none" /\ rest.off = at.stop
        BY <3>2, <3>4 DEF Discard, Result
      <4> DEFINE q == Skipped(p, at.stop)
                 m == n + at.left
      <4>2. res = [NoItem(q) EXCEPT !.skipped = p.remaining]
        BY <1>7, <2>6, <4>1 DEF DiscardBlock, p
      <4>3. res.rd = q /\ res.skipped = at.left
        BY <2>1, <4>2 DEF NoItem
      <4>4. q.off = at.stop /\ q.remaining = 0 /\ q.err = "none" /\ ~q.done
        BY <1>2, <2>1, <2>3 DEF Skipped, Readers
      <4>5. m \in 1 .. Len(L) /\ L[m].left = 1 /\ L[m].stop = at.stop
        <5>0. \A x \in Nat \ {0}, y \in Nat : x - 1 \in 0 .. x - 1 /\ y + 1 + (x - 1) = y + x
          OBVIOUS
        <5>1. at.left - 1 \in 0 .. at.left - 1 /\ k + (at.left - 1) = m
          BY <1>1, <2>3, <5>0
        <5>2. /\ k + (at.left - 1) \in 1 .. Len(L)
              /\ L[k + (at.left - 1)].left = at.left - (at.left - 1)
              /\ L[k + (at.left - 1)].stop = at.stop
          <6>1. \A j \in 0 .. at.left - 1 :
                  k + j \in 1 .. Len(L) /\ L[k + j].left = at.left - j /\ L[k + j].stop = at.stop
            BY <1>1, <2>2, BlockTogether
          <6> DEFINE last == at.left - 1
          <6>2. last \in 0 .. at.left - 1
            BY <5>1
          <6> HIDE DEF last
          <6>3. /\ k + last \in 1 .. Len(L) /\ L[k + last].left = at.left - last
                /\ L[k + last].stop = at.stop
            BY <6>1, <6>2
          <6> QED
            BY <6>3 DEF last
        <5>3. at.left - (at.left - 1) = 1
          BY <2>3
        <5> QED
          BY <5>1, <5>2, <5>3
      <4>6. m \in 0 .. Len(L) /\ m # 0
        BY <1>1, <4>5
      <4>7. Ended(L, m) /\ Gap(L, m) = at.stop
        BY <4>5, <4>6 DEF Ended, Gap
      <4> HIDE DEF q, m
      <4>8. Reading(q, L, m, sized, term)
        BY <4>4, <4>6, <4>7, BetweenReads
      <4> HIDE DEF res
      <4>9. Reading(res.rd, L, n + res.skipped, sized, term) /\ res.rd.err = "none"
        BY <4>3, <4>4, <4>8 DEF m
      <4> QED
        BY <4>9 DEF res
    <3> QED
      BY <3>3, <3>4
  <2> QED
    BY <2>5, <2>6
<1> QED
  BY <1>6, <1>7

-----------------------------------------------------------------------------
(***************************************************************************)
(* What the writer's operations leave: a beginning of what they write, and *)
(* all of it if they do not fail.                                          *)
(***************************************************************************)
LEMMA ItemIsEncoded ==
  ASSUME NEW v \in Items, NEW nl
  PROVE  /\ Encoding(nl, v) \in Seq(Byte)
         /\ v \in Seq(Byte) /\ PutVarint(Len(v)) \in Seq(Byte) /\ Len(v) \in Long
BY ItemSizeIsNat, ItemEncodes

LEMMA MarshalParts ==
  ASSUME NEW w \in BinaryWriters, w.err = "none", NEW v \in Items, NEW y \in Marshal(w, v)
  PROVE  Part(w, y, Encoding(nulls, v))
BY ItemSizeIsNat, MarshalWrites

LEMMA FlushParts ==
  ASSUME NEW w \in BinaryWriters, w.err = "none", NEW n \in Nat, -n \in Long,
         NEW block \in Seq(Byte), Len(block) \in Long, NEW y \in Flush(w, n, block)
  PROVE  Part(w, y, Header(TRUE, n, Len(block)) \o block)
<1> DEFINE a == PutVarint(-n)
           b == PutVarint(Len(block))
<1>1. a \in Seq(Byte) /\ b \in Seq(Byte) /\ a \o b \in Seq(Byte)
  BY PutVarintIsBytes
<1>2. \A x \in WriteLong(w, -n) : Part(w, x, a)
  BY <1>1, PartFixed DEF WriteLong
<1>3. Header(TRUE, n, Len(block)) = a \o b
  BY DEF Header
<1> HIDE DEF a
<1>4. \A x \in AndThenLong(WriteLong(w, -n), Len(block)) : Part(w, x, a \o b)
  BY <1>1, <1>2, PartThen DEF AndThenLong
<1>5. y \in AndThenFixed(AndThenLong(WriteLong(w, -n), Len(block)), block)
  BY DEF Flush
<1> HIDE DEF b
<1>6. Part(w, y, (a \o b) \o block)
  BY <1>1, <1>4, <1>5, PartThen
<1> QED
  BY <1>3, <1>6

-----------------------------------------------------------------------------
(***************************************************************************)
(* How the ideal stream and its places grow.                               *)
(***************************************************************************)

\* The items after the first ones lie in body, the j-th up to byte b[j].
Packed(body, b, n, first, items, nl) ==
  /\ b \in [0 .. n -> Nat] /\ b[0] = 0 /\ b[n] = Len(body)
  /\ \A j \in 1 .. n :
       LET item == Encoding(nl, items[first + j])
       IN  b[j] = b[j - 1] + Len(item) /\ Has(body, b[j - 1], item)

\* The same items, and perhaps more of them.
More(items, more) ==
  Len(items) <= Len(more) /\ \A k \in 1 .. Len(items) : more[k] = items[k]

LEMMA HeaderIsBytes ==
  ASSUME NEW sz, NEW n \in Nat, n < Half, NEW size \in Nat, size < Half
  PROVE  Header(sz, n, size) \in Seq(Byte)
<1>1. Half \in Nat \ {0}
  BY HalfIsPositive
<1>2. n \in Long /\ -n \in Long /\ size \in Long
  BY <1>1 DEF Long
<1>3. PutVarint(n) \in Seq(Byte) /\ PutVarint(-n) \in Seq(Byte) /\ PutVarint(size) \in Seq(Byte)
  BY <1>2, PutVarintIsBytes
<1> QED
  BY <1>3 DEF Header

LEMMA LaidLater ==
  ASSUME NEW ideal, NEW L, NEW items, NEW nl, NEW sz, Layout(ideal, L, items, nl, sz),
         NEW c \in Seq(Byte), NEW more, More(items, more), NEW k \in 1 .. Len(L)
  PROVE  Laid(ideal \o c, L, more, nl, sz, k)
<1> DEFINE item == Encoding(nl, items[k])
           head == Header(sz, L[k].left, Size(L[k]))
<1>1. /\ ideal \in Seq(Byte) /\ Len(L) \in Nat /\ Len(items) \in Nat /\ Len(L) <= Len(items)
      /\ Len(ideal \o c) = Len(ideal) + Len(c) /\ Len(ideal) \in Nat /\ Len(c) \in Nat
      /\ ItemsOf(nl) \subseteq Items
  BY ItemsAssumption DEF Layout, ItemsOf
<1>2. /\ k \in Nat /\ L[k].from \in Nat /\ L[k].left \in Nat \ {0} /\ L[k].stop \in Nat
      /\ L[k].from <= L[k].stop /\ L[k].stop <= Len(ideal) /\ L[k].left < Half
      /\ Laid(ideal, L, items, nl, sz, k) /\ items[k] \in Items
  BY <1>1, PlaceAt
<1>3. more[k] = items[k]
  <2>1. k \in 1 .. Len(items)
    BY <1>1
  <2> QED
    BY <2>1 DEF More
<1>4. Has(ideal \o c, L[k].from, item)
  <2>1. Has(ideal, L[k].from, item) /\ item \in Seq(Byte)
    BY <1>2, ItemIsEncoded DEF Laid
  <2> QED
    BY <1>1, <1>2, <2>1, HasLater
<1>5. L[k].stop <= Len(ideal \o c)
  BY <1>1, <1>2
<1>6. ASSUME Ended(L, k - 1)
      PROVE  Size(L[k]) < Half /\ Has(ideal \o c, Gap(L, k - 1), head) /\ L[k].from = Gap(L, k - 1) + Len(head)
  <2>1. Size(L[k]) < Half /\ Has(ideal, Gap(L, k - 1), head) /\ L[k].from = Gap(L, k - 1) + Len(head)
    BY <1>2, <1>6 DEF Laid
  <2>2. Size(L[k]) \in Nat
    BY <1>2 DEF Size
  <2>3. head \in Seq(Byte)
    BY <1>2, <2>1, <2>2, HeaderIsBytes
  <2>4. k - 1 \in 0 .. Len(L)
    BY <1>1, <1>2
  <2>5. Gap(L, k - 1) \in Nat
    BY <2>4, GapIsNat
  <2> HIDE DEF head
  <2>6. Has(ideal \o c, Gap(L, k - 1), head)
    BY <1>1, <2>1, <2>3, <2>5, HasLater
  <2> QED
    BY <2>1, <2>6
<1>7. /\ L[k].left = 1 => L[k].from + Len(item) = L[k].stop
      /\ L[k].left # 1 => /\ k < Len(L) /\ sz
                          /\ L[k + 1].from = L[k].from + Len(item)
                          /\ L[k + 1].left = L[k].left - 1
                          /\ L[k + 1].stop = L[k].stop
  BY <1>2 DEF Laid
<1> QED
  BY <1>2, <1>3, <1>4, <1>5, <1>6, <1>7 DEF Laid

\* More bytes and more items leave the places where they are.
LEMMA LayoutLater ==
  ASSUME NEW ideal, NEW L, NEW items, NEW nl, NEW sz, Layout(ideal, L, items, nl, sz),
         NEW c \in Seq(Byte), NEW more \in Seq(ItemsOf(nl)), More(items, more)
  PROVE  Layout(ideal \o c, L, more, nl, sz)
<1>1. /\ ideal \in Seq(Byte) /\ Len(L) \in Nat /\ Len(items) \in Nat /\ Len(L) <= Len(items)
      /\ Len(ideal \o c) = Len(ideal) + Len(c) /\ Len(ideal) \in Nat /\ Len(c) \in Nat
      /\ Len(more) \in Nat /\ Len(items) <= Len(more) /\ Len(Preamble) \in Nat
      /\ Len(Preamble) <= Len(ideal) /\ L \in Seq(Places) /\ Ended(L, Len(L))
      /\ ideal \o c \in Seq(Byte)
  BY WriterAssumption DEF Layout, More
<1>2. Len(Preamble) <= Len(ideal \o c) /\ Len(L) <= Len(more)
  BY <1>1
<1>3. \A k \in 1 .. Len(L) : Laid(ideal \o c, L, more, nl, sz, k)
  BY LaidLater
<1> QED
  BY <1>1, <1>2, <1>3 DEF Layout

\* The places of the block that comes next.
NextPlace(base, body, b, n, j) ==
  [from |-> base + b[j - 1], left |-> n - j + 1, stop |-> base + Len(body)]

WithBlock(L, base, body, b, n) ==
  [k \in 1 .. Len(L) + n |->
     IF k <= Len(L) THEN L[k] ELSE NextPlace(base, body, b, n, k - Len(L))]

Lengthened(L, M, n) == Len(M) = Len(L) + n /\ \A k \in 1 .. Len(L) : M[k] = L[k]

BlockBytes(sz, n, body) == Header(sz, n, Len(body)) \o body

PlacesAfter(ideal, L, sz, n, body, b) ==
  WithBlock(L, Len(ideal) + Len(Header(sz, n, Len(body))), body, b, n)

LEMMA BlockAppended ==
  ASSUME NEW ideal, NEW L, NEW items, NEW nl, NEW sz, Layout(ideal, L, items, nl, sz),
         Closing(ideal, L, FALSE),
         NEW n \in Nat \ {0}, n < Half, sz \/ n = 1, Len(L) + n <= Len(items),
         NEW body \in Seq(Byte), Len(body) < Half,
         NEW b, Packed(body, b, n, Len(L), items, nl)
  PROVE  LET more == ideal \o BlockBytes(sz, n, body)
             M == PlacesAfter(ideal, L, sz, n, body, b)
         IN  /\ Layout(more, M, items, nl, sz)
             /\ Closing(more, M, FALSE)
             /\ Lengthened(L, M, n)
<1> DEFINE head == Header(sz, n, Len(body))
           more == ideal \o (head \o body)
           base == Len(ideal) + Len(head)
           M == WithBlock(L, base, body, b, n)
           N == Len(L)
<1>1. /\ ideal \in Seq(Byte) /\ Len(ideal) \in Nat /\ Len(body) \in Nat
      /\ L \in Seq(Places) /\ N \in Nat /\ Ended(L, N)
      /\ items \in Seq(ItemsOf(nl)) /\ Len(items) \in Nat
      /\ Len(Preamble) \in Nat /\ Len(Preamble) <= Len(ideal)
  BY WriterAssumption DEF Layout
<1>2. head \in Seq(Byte) /\ Len(head) \in Nat
  BY <1>1, HeaderIsBytes
<1> HIDE DEF head
<1>3. /\ head \o body \in Seq(Byte) /\ more \in Seq(Byte) /\ more = (ideal \o head) \o body
      /\ ideal \o head \in Seq(Byte) /\ Len(ideal \o head) = base /\ base \in Nat
      /\ Len(more) = base + Len(body)
  <2>1. head \o body \in Seq(Byte) /\ ideal \o head \in Seq(Byte)
    BY <1>1, <1>2
  <2>2. more \in Seq(Byte) /\ more = (ideal \o head) \o body
    <3>1. ideal \in Seq(Byte) /\ head \in Seq(Byte) /\ body \in Seq(Byte)
      BY <1>1, <1>2
    <3>2. /\ ideal \o (head \o body) \in Seq(Byte)
          /\ (ideal \o head) \o body = ideal \o (head \o body)
      <4>1. (ideal \o head) \o body = ideal \o (head \o body)
        BY <3>1, Regroup, Zenon
      <4>2. head \o body \in Seq(Byte)
        BY <3>1, JoinedIsBytes
      <4>3. ideal \o (head \o body) \in Seq(Byte)
        BY <3>1, <4>2, JoinedIsBytes, Zenon
      <4> QED
        BY <4>1, <4>3
    <3> QED
      BY <3>2
  <2>3. Len(ideal \o head) = base /\ base \in Nat
    BY <1>1, <1>2
  <2>4. Len((ideal \o head) \o body) = Len(ideal \o head) + Len(body)
    BY <1>1, <2>1
  <2> QED
    BY <2>1, <2>2, <2>3, <2>4
<1> HIDE DEF more
<1>4. /\ b \in [0 .. n -> Nat] /\ b[0] = 0 /\ b[n] = Len(body)
      /\ \A j \in 1 .. n : b[j] = b[j - 1] + Len(Encoding(nl, items[N + j]))
                           /\ Has(body, b[j - 1], Encoding(nl, items[N + j]))
  BY DEF Packed
<1>5. \A j \in 1 .. n : /\ b[j - 1] \in Nat /\ b[j - 1] <= Len(body)
                        /\ Encoding(nl, items[N + j]) \in Seq(Byte)
  <2> SUFFICES ASSUME NEW j \in 1 .. n
               PROVE  /\ b[j - 1] \in Nat /\ b[j - 1] <= Len(body)
                      /\ Encoding(nl, items[N + j]) \in Seq(Byte)
    OBVIOUS
  <2>1. j - 1 \in 0 .. n /\ N + j \in 1 .. Len(items)
    BY <1>1
  <2>2. items[N + j] \in Items
    BY <1>1, <2>1, ItemsAssumption DEF ItemsOf
  <2>3. Encoding(nl, items[N + j]) \in Seq(Byte)
    BY <2>2, ItemIsEncoded
  <2>4. b[j - 1] \in Nat
    BY <1>4, <2>1
  <2>5. b[j - 1] + Len(Encoding(nl, items[N + j])) <= Len(body) /\ Len(Encoding(nl, items[N + j])) \in Nat
    <3>1. Has(body, b[j - 1], Encoding(nl, items[N + j]))
      BY <1>4
    <3> QED
      BY <2>3, <3>1 DEF Has
  <2> QED
    BY <1>1, <2>3, <2>4, <2>5
<1> HIDE DEF base
<1>6. \A j \in 1 .. n : NextPlace(base, body, b, n, j) \in Places
  <2> SUFFICES ASSUME NEW j \in 1 .. n PROVE NextPlace(base, body, b, n, j) \in Places
    OBVIOUS
  <2>1. base + b[j - 1] \in Nat /\ n - j + 1 \in Nat \ {0} /\ base + Len(body) \in Nat
    <3>1. b[j - 1] \in Nat
      BY <1>5
    <3>2. n - j + 1 \in Nat \ {0}
      OBVIOUS
    <3>3. \A x, y \in Nat : x + y \in Nat
      OBVIOUS
    <3>4. base + b[j - 1] \in Nat /\ base + Len(body) \in Nat
      BY <1>1, <1>3, <3>1, <3>3
    <3> QED
      BY <3>2, <3>4
  <2> QED
    BY <2>1 DEF NextPlace, Places
<1>7. /\ \A k \in 1 .. N : M[k] = L[k]
      /\ \A j \in 1 .. n : M[N + j] = NextPlace(base, body, b, n, j)
      /\ M \in Seq(Places) /\ Len(M) = N + n
  <2>1. \A k \in 1 .. N : k \in 1 .. N + n /\ k <= N
    BY <1>1
  <2>3. \A k \in 1 .. N + n : k <= N \/ (k - N \in 1 .. n)
    BY <1>1
  <2>4. M = [k \in 1 .. N + n |->
               IF k <= N THEN L[k] ELSE NextPlace(base, body, b, n, k - N)]
    BY DEF WithBlock
  <2>5. \A k \in 1 .. N : L[k] \in Places
    BY <1>1
  <2>6. M \in [1 .. N + n -> Places]
    <3>1. ASSUME NEW k \in 1 .. N + n
          PROVE  (IF k <= N THEN L[k] ELSE NextPlace(base, body, b, n, k - N)) \in Places
      <4>1. CASE k <= N
        <5>1. k \in 1 .. N
          BY <1>1, <4>1
        <5> QED
          BY <2>5, <4>1, <5>1
      <4>2. CASE ~(k <= N)
        BY <1>6, <2>3, <4>2
      <4> QED
        BY <4>1, <4>2
    <3> HIDE DEF M
    <3> QED
      BY <2>4, <3>1
  <2>7. N + n \in Nat
    BY <1>1
  <2> HIDE DEF M, N
  <2>8. M \in Seq(Places) /\ Len(M) = N + n
    BY <2>6, <2>7
  <2>9. ASSUME NEW k \in 1 .. N PROVE M[k] = L[k]
    BY <2>1, <2>4
  <2>10. ASSUME NEW j \in 1 .. n PROVE M[N + j] = NextPlace(base, body, b, n, j)
    <3> DEFINE k == N + j
    <3>1. k \in 1 .. N + n /\ ~(k <= N) /\ k - N = j
      BY <1>1
    <3> HIDE DEF k
    <3>2. M[k] = NextPlace(base, body, b, n, k - N)
      BY <2>4, <3>1
    <3>3. M[k] = NextPlace(base, body, b, n, j)
      BY <3>1, <3>2
    <3> QED
      BY <3>3 DEF k
  <2> QED
    BY <2>8, <2>9, <2>10
<1>8. /\ \A k \in 0 .. N : Ended(M, k) = Ended(L, k) /\ Gap(M, k) = Gap(L, k)
  <2> SUFFICES ASSUME NEW k \in 0 .. N PROVE Ended(M, k) = Ended(L, k) /\ Gap(M, k) = Gap(L, k)
    OBVIOUS
  <2>1. CASE k = 0
    BY <2>1 DEF Ended, Gap
  <2>2. CASE k # 0
    <3>1. M[k] = L[k]
      <4>1. k \in 1 .. N
        BY <1>1, <2>2
      <4> QED
        BY <1>7, <4>1
    <3> QED
      BY <3>1 DEF Ended, Gap
  <2> QED
    BY <2>1, <2>2
<1>9. Gap(L, N) = Len(ideal)
  BY DEF Closing
<1> HIDE DEF M
<1>10. ASSUME NEW k \in 1 .. N PROVE Laid(more, M, items, nl, sz, k)
  <2>1. More(items, items)
    BY <1>1 DEF More
  <2>2. Laid(more, L, items, nl, sz, k)
    <3>1. Laid(ideal \o (head \o body), L, items, nl, sz, k)
      BY <1>3, <2>1, LaidLater
    <3> QED
      BY <3>1 DEF more
  <2>3. k \in Nat /\ k - 1 \in 0 .. N /\ M[k] = L[k] /\ N <= Len(M)
    BY <1>1, <1>7
  <2>4. Ended(M, k - 1) = Ended(L, k - 1) /\ Gap(M, k - 1) = Gap(L, k - 1)
    BY <1>8, <2>3
  <2>5. L[k].left # 1 => k < Len(L)
    BY <2>2 DEF Laid
  <2>6. L[k].left # 1 => M[k + 1] = L[k + 1] /\ k < Len(M)
    <3>1. ASSUME L[k].left # 1 PROVE k + 1 \in 1 .. N /\ k < Len(M)
      BY <1>1, <1>7, <2>3, <2>5, <3>1
    <3> QED
      BY <1>7, <3>1
  <2> QED
    BY <2>2, <2>3, <2>4, <2>6 DEF Laid
<1>11. ASSUME NEW j \in 1 .. n PROVE Laid(more, M, items, nl, sz, N + j)
  <2> DEFINE k == N + j
             item == Encoding(nl, items[k])
             at == M[k]
  <2>1. at.from = base + b[j - 1] /\ at.left = n - j + 1 /\ at.stop = base + Len(body)
    <3>1. at = NextPlace(base, body, b, n, j)
      BY <1>7
    <3> HIDE DEF at
    <3> QED
      BY <3>1 DEF NextPlace
  <2>2. b[j - 1] \in Nat /\ b[j - 1] <= Len(body) /\ item \in Seq(Byte) /\ Len(item) \in Nat
        /\ b[j] = b[j - 1] + Len(item) /\ Has(body, b[j - 1], item)
    <3>1. b[j - 1] \in Nat /\ b[j - 1] <= Len(body) /\ item \in Seq(Byte)
      BY <1>5
    <3>2. b[j] = b[j - 1] + Len(item) /\ Has(body, b[j - 1], item)
      BY <1>4
    <3> HIDE DEF item
    <3> QED
      BY <3>1, <3>2
  <2>3. Has(more, at.from, item)
    <3> HIDE DEF item, at
    <3>1. Has((ideal \o head) \o body, Len(ideal \o head) + b[j - 1], item)
      BY <1>3, <2>2, HasInside
    <3> QED
      BY <1>3, <2>1, <3>1
  <2>4. at.left < Half /\ at.from <= at.stop /\ at.stop <= Len(more)
    <3>1. n - j + 1 <= n /\ n - j + 1 \in Nat /\ Half \in Nat
      BY HalfIsPositive
    <3>2. n - j + 1 < Half
      BY <3>1
    <3>3. \A x, y, z \in Nat : x <= y => z + x <= z + y /\ z + y <= z + y
      OBVIOUS
    <3>4. base + b[j - 1] <= base + Len(body) /\ base + Len(body) <= base + Len(body)
      BY <1>1, <1>3, <2>2, <3>3
    <3> HIDE DEF at
    <3> QED
      BY <1>3, <2>1, <3>2, <3>4
  <2>5. ASSUME at.left = 1 PROVE at.from + Len(item) = at.stop
    <3>1. j = n
      BY <2>1, <2>5
    <3>2. b[j] = Len(body)
      BY <1>4, <3>1
    <3> DEFINE size == Len(item)
               from == b[j - 1]
    <3>3. size \in Nat /\ from \in Nat /\ base \in Nat /\ from + size = Len(body)
      BY <1>3, <2>2, <3>2
    <3>4. at.from = base + from /\ at.stop = base + Len(body)
      BY <2>1
    <3> HIDE DEF at, size, from
    <3>5. (base + from) + size = base + (from + size)
      BY <3>3
    <3>6. at.from + size = at.stop
      BY <3>3, <3>4, <3>5
    <3> QED
      BY <3>6 DEF size
  <2>6. ASSUME at.left # 1
        PROVE  /\ k < Len(M) /\ sz
               /\ M[k + 1].from = at.from + Len(item)
               /\ M[k + 1].left = at.left - 1
               /\ M[k + 1].stop = at.stop
    <3>1. j + 1 \in 1 .. n /\ n # 1 /\ k + 1 = N + (j + 1) /\ k < N + n /\ (j + 1) - 1 = j
      <4>1. n - j + 1 # 1
        BY <2>1, <2>6
      <4>2. j # n /\ j + 1 \in 1 .. n /\ n # 1 /\ (j + 1) - 1 = j
        BY <4>1
      <4>3. N \in Nat
        BY <1>1
      <4> HIDE DEF N
      <4> QED
        BY <4>2, <4>3
    <3>2. M[k + 1] = NextPlace(base, body, b, n, j + 1)
      BY <1>7, <3>1
    <3>3. M[k + 1].from = base + b[j] /\ M[k + 1].left = n - (j + 1) + 1 /\ M[k + 1].stop = base + Len(body)
      BY <3>1, <3>2 DEF NextPlace
    <3>4. n - (j + 1) + 1 = (n - j + 1) - 1
      OBVIOUS
    <3>5. base + b[j] = (base + b[j - 1]) + Len(item)
      <4> DEFINE from == b[j - 1]
                 size == Len(item)
      <4>1. b[j] = from + size /\ from \in Nat /\ size \in Nat /\ base \in Nat
        BY <1>3, <2>2
      <4> HIDE DEF from, size
      <4>2. base + (from + size) = (base + from) + size
        BY <4>1
      <4>3. base + b[j] = (base + from) + size
        BY <4>1, <4>2
      <4> QED
        BY <4>3 DEF from, size
    <3> HIDE DEF at, item, k
    <3> QED
      BY <1>7, <2>1, <3>1, <3>3, <3>4, <3>5
  <2>7. ASSUME Ended(M, k - 1)
        PROVE  /\ Size(at) < Half
               /\ Has(more, Gap(M, k - 1), Header(sz, at.left, Size(at)))
               /\ at.from = Gap(M, k - 1) + Len(Header(sz, at.left, Size(at)))
    <3>1. j = 1
      <4>1. ASSUME j # 1 PROVE FALSE
        <5>1. j - 1 \in 1 .. n /\ k - 1 = N + (j - 1) /\ k - 1 # 0 /\ n - (j - 1) + 1 # 1
          BY <1>1, <4>1
        <5>2. M[k - 1] = NextPlace(base, body, b, n, j - 1)
          BY <1>7, <5>1
        <5>3. M[k - 1].left = n - (j - 1) + 1
          BY <5>2 DEF NextPlace
        <5> HIDE DEF k
        <5> QED
          BY <2>7, <5>1, <5>3 DEF Ended
      <4> QED
        BY <4>1
    <3>2. k - 1 = N /\ N \in 0 .. N
      BY <1>1, <3>1
    <3>3. Gap(M, k - 1) = Len(ideal)
      BY <1>8, <1>9, <3>2
    <3>4. at.from = base /\ at.left = n /\ Size(at) = Len(body)
      <4>1. b[j - 1] = 0
        BY <1>4, <3>1
      <4>2. n - j + 1 = n
        BY <3>1
      <4> HIDE DEF at
      <4> QED
        BY <1>1, <1>3, <2>1, <4>1, <4>2 DEF Size
    <3>5. Header(sz, at.left, Size(at)) = head
      BY <3>4 DEF head
    <3>6. Has(more, Len(ideal), head)
      <4>1. Has(ideal \o head, Len(ideal), head)
        BY <1>1, <1>2, HasAppended
      <4>2. Has((ideal \o head) \o body, Len(ideal), head)
        BY <1>1, <1>2, <1>3, <4>1, HasLater
      <4> QED
        BY <1>3, <4>2
    <3> HIDE DEF at, k
    <3> QED
      BY <3>3, <3>4, <3>5, <3>6 DEF base
  <2> QED
    BY <2>3, <2>4, <2>5, <2>6, <2>7 DEF Laid
<1>12. \A k \in 1 .. Len(M) : Laid(more, M, items, nl, sz, k)
  <2> SUFFICES ASSUME NEW k \in 1 .. Len(M) PROVE Laid(more, M, items, nl, sz, k)
    OBVIOUS
  <2>1. CASE k \in 1 .. N
    BY <1>10, <2>1
  <2>2. CASE k \notin 1 .. N
    <3>1. k - N \in 1 .. n /\ N + (k - N) = k
      BY <1>1, <1>7, <2>2
    <3>2. Laid(more, M, items, nl, sz, N + (k - N))
      BY <1>11, <3>1
    <3> QED
      BY <3>1, <3>2
  <2> QED
    BY <2>1, <2>2
<1>13. M[N + n].left = 1 /\ M[N + n].stop = base + Len(body) /\ N + n # 0
  <2>1. n \in 1 .. n /\ n - n + 1 = 1
    OBVIOUS
  <2>2. M[N + n] = NextPlace(base, body, b, n, n) /\ N + n # 0
    BY <1>1, <1>7, <2>1
  <2> QED
    BY <2>1, <2>2 DEF NextPlace
<1>14. Layout(more, M, items, nl, sz)
  <2>1. Len(Preamble) <= Len(more)
    BY <1>1, <1>2, <1>3 DEF base
  <2>2. Ended(M, Len(M))
    BY <1>7, <1>13 DEF Ended
  <2> QED
    BY <1>1, <1>3, <1>7, <1>12, <2>1, <2>2 DEF Layout
<1>15. Closing(more, M, FALSE)
  BY <1>3, <1>7, <1>13 DEF Closing, Gap
<1> QED
  BY <1>2, <1>7, <1>14, <1>15 DEF head, more, base, M, BlockBytes, PlacesAfter, Lengthened

\* One more item behind those packed.
LEMMA PackedAppended ==
  ASSUME NEW body \in Seq(Byte), NEW n \in Nat, NEW first \in Nat, NEW items, NEW nl,
         Len(items) = first + n, NEW b, Packed(body, b, n, first, items, nl),
         items \in Seq(Items), NEW more, More(items, more), NEW v \in Items, more[first + n + 1] = v
  PROVE  \E c : Packed(body \o Encoding(nl, v), c, n + 1, first, more, nl)
<1> DEFINE item == Encoding(nl, v)
           c == [j \in 0 .. n + 1 |-> IF j <= n THEN b[j] ELSE b[n] + Len(item)]
           both == body \o item
<1>1. item \in Seq(Byte) /\ Len(item) \in Nat /\ Len(body) \in Nat
  BY ItemIsEncoded
<1> HIDE DEF item
<1>2. /\ b \in [0 .. n -> Nat] /\ b[0] = 0 /\ b[n] = Len(body)
      /\ \A j \in 1 .. n : b[j] = b[j - 1] + Len(Encoding(nl, items[first + j]))
                           /\ Has(body, b[j - 1], Encoding(nl, items[first + j]))
  BY DEF Packed
<1>3. Len(both) = Len(body) + Len(item) /\ both \in Seq(Byte)
  BY <1>1
<1>4. \A j \in 0 .. n : c[j] = b[j] /\ b[j] \in Nat
  <2>1. \A j \in 0 .. n : j \in 0 .. n + 1 /\ j <= n
    OBVIOUS
  <2> QED
    BY <1>2, <2>1
<1>5. c[n + 1] = Len(both)
  <2>1. n + 1 \in 0 .. n + 1 /\ ~(n + 1 <= n)
    OBVIOUS
  <2> QED
    BY <1>2, <1>3, <2>1
<1>6. c \in [0 .. n + 1 -> Nat]
  <2>1. ASSUME NEW j \in 0 .. n + 1
        PROVE  (IF j <= n THEN b[j] ELSE b[n] + Len(item)) \in Nat
    <3>1. CASE j <= n
      <4>1. j \in 0 .. n
        BY <3>1
      <4> QED
        BY <1>4, <3>1, <4>1
    <3>2. CASE ~(j <= n)
      <4>1. b[n] + Len(item) \in Nat
        BY <1>1, <1>2
      <4> QED
        BY <3>2, <4>1
    <3> QED
      BY <3>1, <3>2
  <2> QED
    BY <2>1
<1> HIDE DEF c
<1>7. ASSUME NEW j \in 1 .. n + 1
      PROVE  LET x == Encoding(nl, more[first + j])
             IN  c[j] = c[j - 1] + Len(x) /\ Has(both, c[j - 1], x)
  <2>1. CASE j = n + 1
    <3>1. more[first + j] = v /\ j - 1 = n /\ n \in 0 .. n
      BY <2>1
    <3>2. c[j] = Len(both) /\ c[j - 1] = Len(body)
      BY <1>2, <1>4, <1>5, <2>1, <3>1
    <3>3. Has(both, Len(body), item)
      BY <1>1, HasAppended
    <3> QED
      BY <1>3, <3>1, <3>2, <3>3 DEF item
  <2>2. CASE j # n + 1
    <3>1. j \in 1 .. n /\ j \in 0 .. n /\ j - 1 \in 0 .. n /\ first + j \in 1 .. Len(items)
      BY <2>2
    <3>2. more[first + j] = items[first + j] /\ items[first + j] \in Items
      BY <3>1 DEF More
    <3> DEFINE x == Encoding(nl, items[first + j])
    <3>3. b[j] = b[j - 1] + Len(x) /\ Has(body, b[j - 1], x)
      BY <1>2, <3>1
    <3>4. x \in Seq(Byte)
      BY <3>2, ItemIsEncoded
    <3>5. c[j] = b[j] /\ c[j - 1] = b[j - 1] /\ b[j - 1] \in Nat
      BY <1>4, <3>1
    <3> HIDE DEF x
    <3>6. Has(both, b[j - 1], x)
      BY <1>1, <3>3, <3>4, <3>5, HasLater
    <3> QED
      BY <3>2, <3>3, <3>5, <3>6 DEF x
  <2> QED
    BY <2>1, <2>2
<1>8. c[0] = 0
  <2>1. 0 \in 0 .. n
    OBVIOUS
  <2> QED
    BY <1>2, <1>4, <2>1
<1>9. Packed(both, c, n + 1, first, more, nl)
  BY <1>5, <1>6, <1>7, <1>8 DEF Packed
<1> QED
  BY <1>9 DEF item

\* The reader does not notice more places, if the array is not at its end.
LEMMA ReadingLater ==
  ASSUME NEW r, NEW L, NEW n, NEW sz, Reading(r, L, n, sz, FALSE), Len(L) \in Nat,
         NEW M, Len(M) \in Nat, Len(L) <= Len(M), \A k \in 1 .. Len(L) : M[k] = L[k], NEW term
  PROVE  Reading(r, M, n, sz, term)
<1>1. n \in 0 .. Len(L) /\ ~r.done /\ n \in 0 .. Len(M)
  BY DEF Reading
<1>2. n # 0 => M[n] = L[n]
  <2>1. n # 0 => n \in 1 .. Len(L)
    BY <1>1
  <2> QED
    BY <2>1
<1>3. Ended(M, n) = Ended(L, n) /\ Gap(M, n) = Gap(L, n)
  BY <1>2 DEF Ended, Gap
<1>4. n < Len(L) => n < Len(M) /\ M[n + 1] = L[n + 1]
  <2>1. n < Len(L) => n < Len(M) /\ n + 1 \in 1 .. Len(L)
    BY <1>1
  <2> QED
    BY <2>1
<1> QED
  BY <1>1, <1>3, <1>4 DEF Reading

-----------------------------------------------------------------------------
(***************************************************************************)
(* The invariant: there are an ideal stream and the places of the items in *)
(* it, those still pending excepted, of which the wire is a beginning.  A  *)
(* writer that has not failed is at its end, and the array is sealed just  *)
(* when its terminator is on the wire.                                     *)
(***************************************************************************)
EndOf(L) == Gap(L, Len(L)) + Len(PutVarint(0))

Kept(L, term) ==
  /\ werr = "none" => /\ Len(L) + count = Len(offered)
                      /\ term = closed
                      /\ sized => \E b : Packed(buf, b, count, Len(L), offered, nulls)
  /\ ~sized => count = 0
  /\ closed => arrayEnd = EndOf(L)
  /\ sealed => term /\ Len(L) = Len(offered) /\ accepted = offered
  /\ (term /\ EndOf(L) <= Len(wire)) => sealed

Taken ==
  \A i \in 1 .. Len(yielded) :
    yielded[i][1] \in 1 .. passed /\ yielded[i][2] = offered[yielded[i][1]]

Delivery(ideal, L, term) ==
  /\ Under(ideal, L, term)
  /\ term \in BOOLEAN
  /\ end = "fault" => disturbed
  /\ (werr = "none" /\ ~disturbed) => wire = ideal
  /\ Kept(L, term)
  /\ Reading(rd, L, passed, sized, term)
  /\ Taken

\* A step of the writer makes the ideal stream grow.
LEMMA DeliveryGrows ==
  ASSUME NEW ideal, NEW L, Delivery(ideal, L, FALSE),
         UNCHANGED <<end, nulls, sized, disturbed>>, UNCHANGED readerVars,
         More(offered, offered'), StreamTypeOK',
         NEW more, NEW M, NEW term \in BOOLEAN,
         Begins(wire', more), (werr' = "none" /\ ~disturbed) => wire' = more,
         Layout(more, M, offered', nulls, sized), Closing(more, M, term),
         Len(L) <= Len(M), \A k \in 1 .. Len(L) : M[k] = L[k],
         Kept(M, term)'
  PROVE  Delivery(more, M, term)'
<1>1. /\ Under(ideal, L, FALSE) /\ (end = "fault" => disturbed)
      /\ Reading(rd, L, passed, sized, FALSE) /\ Taken
  BY DEF Delivery
<1>2. sized \in BOOLEAN /\ Layout(ideal, L, offered, nulls, sized)
  BY <1>1 DEF Under
<1>3. Len(L) \in Nat /\ Len(M) \in Nat /\ Len(L) <= Len(offered) /\ Len(offered) \in Nat
  BY <1>2 DEF Layout
<1>4. rd' = rd /\ passed' = passed /\ yielded' = yielded
  BY DEF readerVars
<1>5. Under(more, M, term)'
  BY <1>2 DEF Under
<1>6. Reading(rd, M, passed, sized, term)'
  <2>1. Reading(rd, M, passed, sized, term)
    BY <1>1, <1>3, ReadingLater
  <2> QED
    BY <1>4, <2>1
<1>7. Taken'
  <2>1. passed \in 0 .. Len(L)
    BY <1>1 DEF Reading
  <2> SUFFICES ASSUME NEW i \in 1 .. Len(yielded)
               PROVE  /\ yielded[i][1] \in 1 .. passed
                      /\ yielded[i][2] = offered'[yielded[i][1]]
    BY <1>4 DEF Taken
  <2>2. yielded[i][1] \in 1 .. passed /\ yielded[i][2] = offered[yielded[i][1]]
    BY <1>1 DEF Taken
  <2>3. yielded[i][1] \in 1 .. Len(offered)
    BY <1>3, <2>1, <2>2
  <2> QED
    BY <2>2, <2>3 DEF More
<1> QED
  BY <1>1, <1>5, <1>6, <1>7 DEF Delivery

-----------------------------------------------------------------------------
(***************************************************************************)
(* Write keeps it: the wire does not change, or it takes a whole block, or *)
(* a beginning of one.                                                     *)
(***************************************************************************)

\* Nothing was sent.
LEMMA NothingSent ==
  ASSUME NEW ideal, NEW L, Delivery(ideal, L, FALSE), werr = "none",
         UNCHANGED <<end, nulls, sized, disturbed>>, UNCHANGED readerVars,
         offered' \in Seq(ItemsOf(nulls)), More(offered, offered'), StreamTypeOK',
         wire' = wire, ~closed', ~sealed', ~sized => count' = 0,
         werr' = "none" => /\ Len(L) + count' = Len(offered')
                           /\ closed' \in BOOLEAN
                           /\ sized => \E b : Packed(buf', b, count', Len(L), offered', nulls)
  PROVE  Delivery(ideal, L, FALSE)'
<1>1. Under(ideal, L, FALSE) /\ (~disturbed => wire = ideal)
  BY DEF Delivery
<1>2. /\ Begins(wire, ideal) /\ Layout(ideal, L, offered, nulls, sized) /\ Closing(ideal, L, FALSE)
      /\ ideal \in Seq(Byte) /\ Len(L) \in Nat
  <2>1. Begins(wire, ideal) /\ Layout(ideal, L, offered, nulls, sized) /\ Closing(ideal, L, FALSE)
    BY <1>1 DEF Under
  <2>2. ideal \in Seq(Byte) /\ Len(L) \in Nat
    BY <2>1 DEF Layout
  <2> QED
    BY <2>1, <2>2
<1>3. Layout(ideal, L, offered', nulls, sized)
  <2>1. << >> \in Seq(Byte) /\ ideal \o << >> = ideal
    BY <1>2, BeginsAll
  <2>2. Layout(ideal \o << >>, L, offered', nulls, sized)
    BY <1>2, <2>1, LayoutLater
  <2> QED
    BY <2>1, <2>2
<1>4. Kept(L, FALSE)'
  BY DEF Kept
<1>5. /\ Begins(wire', ideal) /\ (werr' = "none" /\ ~disturbed => wire' = ideal)
      /\ Len(L) <= Len(L) /\ (\A k \in 1 .. Len(L) : L[k] = L[k])
  BY <1>1, <1>2
<1>6. FALSE \in BOOLEAN
  OBVIOUS
<1> QED
  BY <1>2, <1>3, <1>4, <1>5, <1>6, DeliveryGrows

LEMMA PackedNothing ==
  ASSUME NEW first, NEW items, NEW nl
  PROVE  \E b : Packed(<< >>, b, 0, first, items, nl)
<1> DEFINE b == [j \in 0 .. 0 |-> 0]
<1>1. b \in [0 .. 0 -> Nat] /\ b[0] = 0 /\ Len(<< >>) = 0 /\ 1 .. 0 = {}
  OBVIOUS
<1> HIDE DEF b
<1>2. Packed(<< >>, b, 0, first, items, nl)
  BY <1>1 DEF Packed
<1> QED
  BY <1>2

\* A block of n items was sent, or a beginning of it.
LEMMA BlockSent ==
  ASSUME NEW ideal, NEW L, Delivery(ideal, L, FALSE), wire = ideal,
         UNCHANGED <<end, nulls, sized, disturbed>>, UNCHANGED readerVars,
         offered' \in Seq(ItemsOf(nulls)), More(offered, offered'), StreamTypeOK',
         NEW n \in Nat \ {0}, n < Half, sized \/ n = 1, Len(L) + n = Len(offered'),
         NEW body \in Seq(Byte), Len(body) < Half,
         NEW b, Packed(body, b, n, Len(L), offered', nulls),
         NEW x, Part(Out, x, BlockBytes(sized, n, body)), wire' = x.out, werr' = x.err,
         ~closed', ~sealed', closed' \in BOOLEAN, ~sized => count' = 0,
         werr' = "none" => count' = 0 /\ (sized => buf' = << >>)
  PROVE  \E more, M : Delivery(more, M, FALSE)'
<1>1. Under(ideal, L, FALSE)
  BY DEF Delivery
<1>2. /\ Layout(ideal, L, offered, nulls, sized) /\ Closing(ideal, L, FALSE)
      /\ ideal \in Seq(Byte) /\ Len(L) \in Nat /\ Len(offered') \in Nat /\ Len(L) + n <= Len(offered')
  <2>1. Layout(ideal, L, offered, nulls, sized) /\ Closing(ideal, L, FALSE)
    BY <1>1 DEF Under
  <2>2. Len(offered') \in Nat
    OBVIOUS
  <2>3. ideal \in Seq(Byte) /\ Len(L) \in Nat
    BY <2>1 DEF Layout
  <2>4. Len(L) + n <= Len(offered')
    BY <2>2, <2>3
  <2> QED
    BY <2>1, <2>2, <2>3, <2>4
<1>3. Layout(ideal, L, offered', nulls, sized)
  <2>1. << >> \in Seq(Byte) /\ ideal \o << >> = ideal
    BY <1>2, BeginsAll
  <2>2. Layout(ideal \o << >>, L, offered', nulls, sized)
    BY <1>2, <2>1, LayoutLater
  <2> QED
    BY <2>1, <2>2
<1>4. PICK more : more = ideal \o BlockBytes(sized, n, body)
  OBVIOUS
<1>5. PICK M : M = PlacesAfter(ideal, L, sized, n, body, b)
  OBVIOUS
<1>6. /\ Layout(more, M, offered', nulls, sized)
      /\ Closing(more, M, FALSE)
      /\ Len(M) = Len(L) + n
      /\ \A k \in 1 .. Len(L) : M[k] = L[k]
  <2> DEFINE all == offered'
             bytes == ideal \o BlockBytes(sized, n, body)
             places == PlacesAfter(ideal, L, sized, n, body, b)
  <2> HIDE DEF all
  <2>1. /\ Layout(ideal, L, all, nulls, sized)
        /\ Closing(ideal, L, FALSE)
        /\ n \in Nat \ {0} /\ n < Half /\ (sized \/ n = 1) /\ Len(L) + n <= Len(all)
        /\ body \in Seq(Byte) /\ Len(body) < Half /\ Packed(body, b, n, Len(L), all, nulls)
    BY <1>2, <1>3 DEF all
  <2>2. Layout(bytes, places, all, nulls, sized)
    BY <2>1, BlockAppended
  <2>3. Closing(bytes, places, FALSE)
    BY <2>1, BlockAppended
  <2>4. Lengthened(L, places, n)
    BY <2>1, BlockAppended
  <2>5. Len(places) = Len(L) + n /\ \A k \in 1 .. Len(L) : places[k] = L[k]
    BY <2>4 DEF Lengthened
  <2>6. more = bytes /\ M = places
    BY <1>4, <1>5
  <2> HIDE DEF bytes, places
  <2> QED
    BY <2>2, <2>3, <2>4, <2>5, <2>6 DEF all
<1>7. Begins(wire', more) /\ (werr' = "none" => wire' = more)
  BY <1>4 DEF Part, Out, Writer
<1>8. Kept(M, FALSE)'
  <2>1. \E c : Packed(<< >>, c, 0, Len(M), offered', nulls)
    BY PackedNothing
  <2>2. Len(M) + 0 = Len(offered')
    BY <1>2, <1>6
  <2> QED
    BY <2>1, <2>2 DEF Kept
<1>9. Len(L) <= Len(M)
  BY <1>2, <1>6
<1>10. Delivery(more, M, FALSE)'
  BY <1>6, <1>7, <1>8, <1>9, DeliveryGrows
<1> QED
  BY <1>10

\* Through: the count, and the item.
LEMMA ThroughParts ==
  ASSUME StreamTypeOK, WriterTypeOK, NEW v \in Items, NEW started \in WriteLong(Out, 1),
         NEW w \in IF started.err = "none" THEN Marshal(started, v) ELSE {started}
  PROVE  Part(Out, w, PutVarint(1) \o Encoding(nulls, v))
<1>1. Out \in BinaryWriters /\ Out.err = "none"
  BY OutIsWriter
<1>2. 1 \in Long
  BY HalfIsPositive, HalfExceedsOne DEF Long
<1>3. PutVarint(1) \in Seq(Byte) /\ Encoding(nulls, v) \in Seq(Byte)
  BY <1>2, PutVarintIsBytes, ItemIsEncoded
<1>4. Part(Out, started, PutVarint(1))
  BY <1>1, <1>3, PartFixed DEF WriteLong
<1>5. started.err = "none" => Part(started, w, Encoding(nulls, v))
  <2>1. started \in BinaryWriters
    BY <1>4 DEF Part
  <2> QED
    BY <2>1, MarshalParts
<1>6. started.err # "none" => w = started
  OBVIOUS
<1> QED
  BY <1>1, <1>3, <1>4, <1>5, <1>6, PartOn

\* What Write finds.
LEMMA WriteStarts ==
  ASSUME StreamTypeOK, WriterInv, NEW ideal, NEW L, NEW term, Delivery(ideal, L, term),
         NEW v \in Values, Write(v)
  PROVE  /\ Delivery(ideal, L, FALSE)
         /\ werr = "none" /\ ~closed /\ ~sealed /\ Len(offered) < MaxWrites
         /\ UNCHANGED <<end, nulls, sized, closed, sealed>>
         /\ v \in Items /\ count \in Nat /\ Len(L) \in Nat /\ Len(offered) \in Nat
         /\ Len(L) + count = Len(offered)
         /\ count + 1 < Half
         /\ ~sized => count = 0
         /\ sized => \E b : Packed(buf, b, count, Len(L), offered, nulls)
         /\ offered' \in Seq(ItemsOf(nulls)) /\ More(offered, offered')
         /\ Len(offered') = Len(offered) + 1 /\ offered'[Len(offered) + 1] = v
         /\ offered \in Seq(Items)
         /\ end = "open" => (disturbed \/ wire = ideal)
<1>1. /\ werr = "none" /\ ~closed /\ Len(offered) < MaxWrites /\ offered' = Append(offered, v)
      /\ UNCHANGED <<end, nulls, sized, closed, sealed>>
  BY DEF Write, Failed
<1>2. /\ closed \in BOOLEAN /\ count \in Nat /\ offered \in Seq(Items) /\ Len(offered) \in Nat
      /\ MaxWrites \in Nat /\ MaxWrites < Half /\ Half \in Nat
  BY WriterAssumption, RangeAssumption, HalfIsPositive DEF WriterInv, WriterTypeOK
<1>3. /\ Len(L) + count = Len(offered) /\ term = closed
      /\ sized => \E b : Packed(buf, b, count, Len(L), offered, nulls)
      /\ ~sized => count = 0
      /\ sealed => term
  BY <1>1 DEF Delivery, Kept
<1>4. term = FALSE
  BY <1>1, <1>2, <1>3
<1>5. Delivery(ideal, L, FALSE) /\ ~sealed
  BY <1>3, <1>4
<1>6. Under(ideal, L, FALSE) /\ (~disturbed => wire = ideal)
  BY <1>1, <1>5 DEF Delivery
<1>7. Layout(ideal, L, offered, nulls, sized)
  BY <1>6 DEF Under
<1>8. offered \in Seq(ItemsOf(nulls)) /\ Len(L) \in Nat
  BY <1>7 DEF Layout
<1>9. v \in ItemsOf(nulls) /\ v \in Items
  BY ItemsAssumption DEF ItemsOf, Values
<1>10. /\ offered' \in Seq(ItemsOf(nulls)) /\ Len(offered') = Len(offered) + 1
       /\ offered'[Len(offered) + 1] = v /\ \A k \in 1 .. Len(offered) : offered'[k] = offered[k]
  BY <1>1, <1>8, <1>9
<1>11. More(offered, offered') /\ count + 1 < Half
  BY <1>1, <1>2, <1>3, <1>8, <1>10 DEF More
<1> QED
  BY <1>1, <1>2, <1>3, <1>5, <1>6, <1>8, <1>9, <1>10, <1>11

LEMMA WriteThroughDelivers ==
  ASSUME StreamTypeOK, WriterInv, StreamTypeOK', disturbed => end # "open",
         NEW ideal, NEW L, NEW term, Delivery(ideal, L, term),
         NEW v \in Values, Write(v), WriteThrough(v), UNCHANGED readerVars, disturbed' = disturbed
  PROVE  \E more, M : Delivery(more, M, FALSE)'
<1>1. /\ Delivery(ideal, L, FALSE)
      /\ werr = "none" /\ ~closed /\ ~sealed
      /\ UNCHANGED <<end, nulls, sized, closed, sealed, disturbed>>
      /\ v \in Items /\ Len(L) \in Nat /\ Len(offered) \in Nat
      /\ offered' \in Seq(ItemsOf(nulls)) /\ More(offered, offered')
      /\ Len(offered') = Len(offered) + 1 /\ offered'[Len(offered) + 1] = v
      /\ end = "open" => (disturbed \/ wire = ideal)
  BY WriteStarts
<1>2. Len(L) + count = Len(offered) /\ (~sized => count = 0)
  BY WriteStarts
<1>3. ~sized /\ count' = count /\ buf' = buf
  BY DEF WriteThrough
<1>4. Len(L) = Len(offered) /\ count' = 0 /\ Len(L) + 1 = Len(offered')
  BY <1>1, <1>2, <1>3
<1>5. PICK started \in WriteLong(Out, 1) :
        \E w \in Reach(IF started.err = "none" THEN Marshal(started, v) ELSE {started}) : Landed(w)
  BY DEF WriteThrough
<1>6. PICK w \in Reach(IF started.err = "none" THEN Marshal(started, v) ELSE {started}) : Landed(w)
  BY <1>5
<1>7. /\ w \in IF started.err = "none" THEN Marshal(started, v) ELSE {started}
      /\ end = "open" \/ (w.out = wire /\ w.err # "none")
      /\ wire' = w.out /\ werr' = w.err
  BY <1>6 DEF Reach, Landed
<1> DEFINE body == Encoding(nulls, v)
<1>8. Part(Out, w, PutVarint(1) \o body)
  BY <1>1, <1>7, ThroughParts DEF WriterInv
<1>9. CASE end # "open"
  <2>1. wire' = wire /\ werr' # "none" /\ ~closed' /\ ~sealed'
    BY <1>1, <1>7, <1>9
  <2>2. Delivery(ideal, L, FALSE)'
    BY <1>1, <1>4, <2>1, NothingSent
  <2> QED
    BY <2>2
<1>10. CASE end = "open"
  <2>1. wire = ideal
    BY <1>1, <1>10
  <2>2. /\ body \in Seq(Byte) /\ Len(body) \in Nat /\ Len(body) < Half
    <3>1. /\ body \in Seq(Byte) /\ v \in Seq(Byte)
      BY <1>1, ItemIsEncoded
    <3>2. Len(body) = ItemSize(v)
      BY <1>1, ItemSizeIsNat DEF ItemSize, Encoding
    <3>3. ItemSize(v) \in Nat /\ Limit + ItemSize(v) \in Long /\ Limit \in Nat /\ Half \in Nat
      BY <1>1, ItemSizeIsNat, WriterAssumption, HalfIsPositive
    <3> QED
      BY <3>1, <3>2, <3>3 DEF Long
  <2>3. PICK block \in Seq(Byte) : block = body
    BY <2>2
  <2>4. \E b : Packed(block, b, 1, Len(L), offered', nulls)
    <3> DEFINE b == [j \in 0 .. 1 |-> IF j = 0 THEN 0 ELSE Len(block)]
    <3>1. b \in [0 .. 1 -> Nat] /\ b[0] = 0 /\ b[1] = Len(block)
      <4>1. Len(block) \in Nat
        OBVIOUS
      <4> QED
        BY <4>1
    <3>2. offered'[Len(L) + 1] = v
      BY <1>1, <1>4
    <3>3. Has(block, 0, block)
      BY <2>2, <2>3 DEF Has
    <3>4. ASSUME NEW j \in 1 .. 1
          PROVE  LET item == Encoding(nulls, offered'[Len(L) + j])
                 IN  b[j] = b[j - 1] + Len(item) /\ Has(block, b[j - 1], item)
      <4>1. j = 1 /\ j - 1 = 0
        OBVIOUS
      <4>2. Encoding(nulls, offered'[Len(L) + j]) = block
        BY <2>3, <3>2, <4>1
      <4> HIDE DEF b
      <4>3. b[j] = b[j - 1] + Len(block)
        BY <3>1, <4>1
      <4> QED
        BY <3>1, <3>3, <4>1, <4>2, <4>3
    <3> HIDE DEF b
    <3>5. Packed(block, b, 1, Len(L), offered', nulls)
      BY <3>1, <3>4 DEF Packed
    <3> QED
      BY <3>5
  <2>5. PICK b : Packed(block, b, 1, Len(L), offered', nulls)
    BY <2>4
  <2>6. Part(Out, w, BlockBytes(sized, 1, block))
    <3>1. BlockBytes(sized, 1, block) = PutVarint(1) \o body
      BY <1>3, <2>3 DEF BlockBytes, Header
    <3> QED
      BY <1>8, <3>1
  <2>7. 1 \in Nat \ {0} /\ 1 < Half /\ Len(block) < Half
    BY <2>2, <2>3, HalfIsPositive, HalfExceedsOne
  <2>8. closed' \in BOOLEAN /\ ~closed' /\ ~sealed'
    BY <1>1 DEF WriterInv, WriterTypeOK
  <2> HIDE DEF body
  <2> QED
    BY <1>1, <1>3, <1>4, <1>7, <2>1, <2>5, <2>6, <2>7, <2>8, BlockSent
<1> QED
  BY <1>9, <1>10

LEMMA WriteBufferedDelivers ==
  ASSUME StreamTypeOK, WriterInv, StreamTypeOK', disturbed => end # "open",
         NEW ideal, NEW L, NEW term, Delivery(ideal, L, term),
         NEW v \in Values, Write(v), WriteBuffered(v), UNCHANGED readerVars, disturbed' = disturbed
  PROVE  \E more, M : Delivery(more, M, FALSE)'
<1>1. /\ Delivery(ideal, L, FALSE)
      /\ werr = "none" /\ ~closed /\ ~sealed
      /\ UNCHANGED <<end, nulls, sized, closed, sealed, disturbed>>
      /\ v \in Items /\ Len(L) \in Nat /\ Len(offered) \in Nat /\ count \in Nat
      /\ offered' \in Seq(ItemsOf(nulls)) /\ More(offered, offered')
      /\ Len(offered') = Len(offered) + 1 /\ offered'[Len(offered) + 1] = v
      /\ offered \in Seq(Items)
      /\ end = "open" => (disturbed \/ wire = ideal)
  BY WriteStarts
<1>2. Len(L) + count = Len(offered) /\ count + 1 < Half
  BY WriteStarts
<1>3. sized /\ \E b : Packed(buf, b, count, Len(L), offered, nulls)
  <2>1. sized
    BY DEF WriteBuffered
  <2> QED
    BY <2>1, WriteStarts
<1>4. closed' \in BOOLEAN /\ ~closed' /\ ~sealed' /\ sized'
  BY <1>1, <1>3 DEF WriterInv, WriterTypeOK
<1>5. PICK b \in {x \in Marshal(Buffered, v) : x.err # "sink"} :
        IF b.err # "none"
        THEN buf' = b.out /\ werr' = b.err /\ UNCHANGED <<wire, woff, count, accepted>>
        ELSE IF FlushDue(b.out)
        THEN \E w \in Reach(Flush(Out, count + 1, b.out)) : Landed(w) /\ AfterFlush(w, count + 1, b.out)
        ELSE buf' = b.out /\ count' = count + 1 /\ UNCHANGED <<wire, woff, werr>>
  BY DEF WriteBuffered
<1>6. /\ buf \in Seq(Byte) /\ Len(buf) \in Nat /\ Len(buf) < Limit /\ Limit \in Nat
      /\ ItemSize(v) \in Nat /\ Limit + ItemSize(v) \in Long
  BY <1>1, WriterAssumption, ItemSizeIsNat DEF WriterInv, WriterTypeOK, BufferBounded
<1>7. Buffered \in BinaryWriters /\ Buffered.err = "none" /\ Buffered.out = buf
  BY <1>6 DEF Buffered, Writer, BinaryWriters, WriterErrors
<1>8. /\ Part(Buffered, b, Encoding(nulls, v)) /\ Grown(Buffered, b, ItemSize(v))
  BY <1>1, <1>5, <1>7, MarshalParts, MarshalGrows
<1>9. CASE b.err # "none"
  <2>1. wire' = wire /\ werr' # "none"
    BY <1>5, <1>9
  <2>2. Delivery(ideal, L, FALSE)'
    BY <1>1, <1>3, <1>4, <2>1, NothingSent
  <2> QED
    BY <2>2
<1>10. CASE b.err = "none"
  <2>1. b.out = buf \o Encoding(nulls, v)
    BY <1>7, <1>8, <1>10 DEF Part
  <2>2. /\ b.out \in Seq(Byte) /\ Len(b.out) \in Nat /\ Len(b.out) < Half /\ Len(b.out) \in Long
    <3>1. b.out \in Seq(Byte) /\ Len(b.out) - Len(buf) \in 0 .. ItemSize(v)
      BY <1>7, <1>8 DEF Grown, BinaryWriters
    <3>2. Len(b.out) \in Nat /\ Half \in Nat
      BY <3>1, HalfIsPositive
    <3> QED
      BY <1>6, <3>1, <3>2 DEF Long
  <2>3. \E c : Packed(b.out, c, count + 1, Len(L), offered', nulls)
    <3>1. PICK c : Packed(buf, c, count, Len(L), offered, nulls)
      BY <1>3
    <3>2. offered'[Len(L) + count + 1] = v
      BY <1>1, <1>2
    <3>3. \E d : Packed(buf \o Encoding(nulls, v), d, count + 1, Len(L), offered', nulls)
      <4> DEFINE all == offered'
                 body == buf
                 n == count
      <4>1. /\ body \in Seq(Byte) /\ n \in Nat /\ Len(L) \in Nat /\ Len(offered) = Len(L) + n
            /\ Packed(body, c, n, Len(L), offered, nulls) /\ offered \in Seq(Items)
            /\ More(offered, all) /\ v \in Items /\ all[Len(L) + n + 1] = v
        BY <1>1, <1>2, <1>6, <3>1, <3>2
      <4> HIDE DEF all, body, n
      <4>2. \E d : Packed(body \o Encoding(nulls, v), d, n + 1, Len(L), all, nulls)
        BY <4>1, PackedAppended
      <4> QED
        BY <4>2 DEF all, body, n
    <3> QED
      BY <2>1, <3>3
  <2>4. Len(L) + (count + 1) = Len(offered')
    BY <1>1, <1>2
  <2>5. CASE FlushDue(b.out)
    <3>1. PICK w \in Reach(Flush(Out, count + 1, b.out)) : Landed(w) /\ AfterFlush(w, count + 1, b.out)
      BY <1>5, <1>10, <2>5
    <3>2. /\ w \in Flush(Out, count + 1, b.out)
          /\ end = "open" \/ (w.out = wire /\ w.err # "none")
          /\ wire' = w.out /\ werr' = w.err
          /\ w.err = "none" => buf' = << >> /\ count' = 0
      BY <3>1 DEF Reach, Landed, AfterFlush
    <3>3. CASE end # "open"
      <4>1. wire' = wire /\ werr' # "none"
        BY <3>2, <3>3
      <4>2. Delivery(ideal, L, FALSE)'
        BY <1>1, <1>3, <1>4, <4>1, NothingSent
      <4> QED
        BY <4>2
    <3>4. CASE end = "open"
      <4>1. wire = ideal
        BY <1>1, <3>4
      <4>2. PICK n \in Nat \ {0} : n = count + 1
        BY <1>1
      <4>3. PICK block \in Seq(Byte) : block = b.out
        BY <2>2
      <4>4. PICK c : Packed(block, c, n, Len(L), offered', nulls)
        BY <2>3, <4>2, <4>3
      <4>5. Part(Out, w, BlockBytes(sized, n, block))
        <5>1. Out \in BinaryWriters /\ Out.err = "none"
          BY OutIsWriter DEF WriterInv
        <5>2. -n \in Long
          BY <1>2, <4>2, HalfIsPositive DEF Long
        <5>3. w \in Flush(Out, n, block) /\ Len(block) \in Long
          BY <2>2, <3>2, <4>2, <4>3
        <5>4. Part(Out, w, Header(TRUE, n, Len(block)) \o block)
          BY <5>1, <5>2, <5>3, FlushParts
        <5>5. Header(sized, n, Len(block)) = Header(TRUE, n, Len(block))
          BY <1>3 DEF Header
        <5> QED
          BY <5>4, <5>5 DEF BlockBytes
      <4>6. n < Half /\ Len(block) < Half /\ Len(L) + n = Len(offered')
        BY <1>2, <2>2, <2>4, <4>2, <4>3
      <4>7. (sized \/ n = 1) /\ (~sized => count' = 0) /\ (werr' = "none" => count' = 0 /\ (sized => buf' = << >>))
        BY <1>3, <3>2
      <4> HIDE <3>1, <3>2, <4>2, <4>3
      <4> QED
        BY <1>1, <1>4, <3>2, <4>1, <4>4, <4>5, <4>6, <4>7, BlockSent
    <3> QED
      BY <3>3, <3>4
  <2>6. CASE ~FlushDue(b.out)
    <3>1. buf' = b.out /\ count' = count + 1 /\ wire' = wire /\ werr' = werr
      BY <1>5, <1>10, <2>6
    <3>2. \E c : Packed(buf', c, count', Len(L), offered', nulls)
      BY <2>3, <3>1
    <3>3. Len(L) + count' = Len(offered')
      BY <2>4, <3>1
    <3>4. Delivery(ideal, L, FALSE)'
      BY <1>1, <1>3, <1>4, <3>1, <3>2, <3>3, NothingSent
    <3> QED
      BY <3>4
  <2> QED
    BY <2>5, <2>6
<1> QED
  BY <1>9, <1>10

-----------------------------------------------------------------------------
(***************************************************************************)
(* Close keeps it: the pending block and the terminator, or a beginning of *)
(* them.                                                                   *)
(***************************************************************************)

\* What is pending, in its place: flushed sent a beginning of c.
FlushedTo(ideal, L, flushed, c, M) ==
  /\ c \in Seq(Byte)
  /\ Part(Out, flushed, c)
  /\ Layout(ideal \o c, M, offered, nulls, sized)
  /\ Closing(ideal \o c, M, FALSE)
  /\ Len(M) = Len(offered)
  /\ Len(L) <= Len(M) /\ \A k \in 1 .. Len(L) : M[k] = L[k]
  /\ ~Pending => M = L

ToFlush == IF Pending THEN Flush(Out, count, buf) ELSE {Out}

LEMMA FlushPlaces ==
  ASSUME StreamTypeOK, WriterInv, NEW ideal, NEW L, Delivery(ideal, L, FALSE), werr = "none",
         NEW flushed \in ToFlush
  PROVE  \E c, M : FlushedTo(ideal, L, flushed, c, M)
<1>1. /\ Len(L) + count = Len(offered) /\ (~sized => count = 0)
      /\ sized => \E b : Packed(buf, b, count, Len(L), offered, nulls)
  BY DEF Delivery, Kept
<1>2. /\ Layout(ideal, L, offered, nulls, sized) /\ Closing(ideal, L, FALSE)
      /\ sized \in BOOLEAN
  BY DEF Delivery, Under
<1>3. ideal \in Seq(Byte) /\ Len(L) \in Nat
  BY <1>2 DEF Layout
<1>4. Out \in BinaryWriters /\ Out.err = "none" /\ Out.out = wire /\ wire \in Seq(Byte)
  BY OutIsWriter DEF WriterInv, Out, Writer, StreamTypeOK
<1>5. /\ buf \in Seq(Byte) /\ Len(buf) \in Nat /\ Len(buf) < Half /\ Len(buf) \in Long
      /\ count \in Nat /\ count < Half /\ -count \in Long /\ Len(offered) \in Nat
  <2>1. /\ buf \in Seq(Byte) /\ Len(buf) \in Nat /\ Len(buf) < Limit
        /\ Limit \in Nat /\ Limit < Half /\ Half \in Nat
        /\ count \in Nat /\ offered \in Seq(Items) /\ Len(offered) \in Nat
        /\ count <= Len(offered) /\ Len(offered) <= MaxWrites
        /\ MaxWrites \in Nat /\ MaxWrites < Half
    BY WriterAssumption, RangeAssumption, HalfIsPositive
       DEF WriterInv, WriterTypeOK, BufferBounded
  <2> QED
    BY <2>1 DEF Long
<1>6. CASE ~Pending
  <2>1. flushed = Out /\ count = 0
    BY <1>1, <1>6 DEF Pending, ToFlush
  <2>2. << >> \in Seq(Byte) /\ ideal \o << >> = ideal
    BY <1>3, BeginsAll
  <2>3. wire \o << >> = wire /\ Begins(wire, wire \o << >>)
    BY <1>4, BeginsAll
  <2>4. Part(Out, Out, << >>)
    BY <1>4, <2>3 DEF Part
  <2>5. Len(L) = Len(offered) /\ Len(L) <= Len(L) /\ \A k \in 1 .. Len(L) : L[k] = L[k]
    BY <1>1, <1>3, <2>1
  <2> QED
    BY <1>2, <1>6, <2>1, <2>2, <2>4, <2>5 DEF FlushedTo
<1>7. CASE Pending
  <2>1. sized /\ count # 0 /\ flushed \in Flush(Out, count, buf)
    BY <1>7 DEF Pending, ToFlush
  <2>2. PICK b : Packed(buf, b, count, Len(L), offered, nulls)
    BY <1>1, <2>1
  <2>3. Part(Out, flushed, BlockBytes(sized, count, buf))
    <3>1. Part(Out, flushed, Header(TRUE, count, Len(buf)) \o buf)
      BY <1>4, <1>5, <2>1, FlushParts
    <3>2. Header(sized, count, Len(buf)) = Header(TRUE, count, Len(buf))
      BY <2>1 DEF Header
    <3> QED
      BY <3>1, <3>2 DEF BlockBytes
  <2>4. BlockBytes(sized, count, buf) \in Seq(Byte)
    <3>1. Header(sized, count, Len(buf)) \in Seq(Byte)
      BY <1>5, HeaderIsBytes
    <3> QED
      BY <1>5, <3>1 DEF BlockBytes
  <2> DEFINE c == BlockBytes(sized, count, buf)
             M == PlacesAfter(ideal, L, sized, count, buf, b)
  <2>5. /\ Layout(ideal \o c, M, offered, nulls, sized)
        /\ Closing(ideal \o c, M, FALSE)
        /\ Lengthened(L, M, count)
    <3>1. count \in Nat \ {0} /\ (sized \/ count = 1) /\ Len(L) + count <= Len(offered)
      BY <1>1, <1>3, <1>5, <2>1
    <3> QED
      BY <1>2, <1>5, <2>2, <3>1, BlockAppended
  <2> HIDE DEF M
  <2>6. Len(M) = Len(offered) /\ Len(L) <= Len(M) /\ \A k \in 1 .. Len(L) : M[k] = L[k]
    <3>1. Len(M) = Len(L) + count /\ \A k \in 1 .. Len(L) : M[k] = L[k]
      BY <2>5 DEF Lengthened
    <3> QED
      BY <1>1, <1>3, <1>5, <3>1
  <2> QED
    BY <1>7, <2>3, <2>4, <2>5, <2>6 DEF FlushedTo
<1> QED
  BY <1>6, <1>7

\* The terminator, behind what was flushed.
LEMMA TerminateParts ==
  ASSUME NEW flushed, NEW c \in Seq(Byte), NEW w0 \in BinaryWriters, Part(w0, flushed, c),
         NEW w \in Terminate({flushed})
  PROVE  /\ Part(w0, w, c \o PutVarint(0))
         /\ w.err = "none" => flushed.err = "none"
         /\ flushed.err # "none" => w = flushed
<1>1. 0 \in Long
  BY HalfIsPositive DEF Long
<1>2. PutVarint(0) \in Seq(Byte)
  BY <1>1, PutVarintIsBytes
<1>3. w \in AndThenFixed({flushed}, PutVarint(0))
  BY DEF Terminate, AndThenLong
<1>4. Part(w0, w, c \o PutVarint(0))
  BY <1>2, <1>3, PartThen
<1>5. flushed.err # "none" => w = flushed
  BY <1>3 DEF AndThenFixed
<1> QED
  BY <1>4, <1>5

\* When the terminator is on the wire, and only then, the array is sealed.
LEMMA SealedWhenThere ==
  ASSUME NEW s \in Seq(Byte), NEW c \in Seq(Byte), NEW w0 \in BinaryWriters, w0.out = s,
         NEW flushed, Part(w0, flushed, c), NEW w \in Terminate({flushed})
  PROVE  /\ Sealing(flushed, w) => w.out = (s \o c) \o PutVarint(0)
         /\ Len((s \o c) \o PutVarint(0)) <= Len(w.out) => Sealing(flushed, w)
         /\ Len((s \o c) \o PutVarint(0)) > Len(s)
<1> DEFINE zero == PutVarint(0)
           t == s \o c
           all == t \o zero
<1>1. zero \in Seq(Byte) /\ Len(zero) \in Nat /\ Len(zero) >= 1
  <2>1. 0 \in Long
    BY HalfIsPositive DEF Long
  <2>2. zero \in Seq(Byte) /\ Len(zero) \in 1 .. MaxLen
    BY <2>1, PutVarintIsBytes
  <2> QED
    BY <2>2, VarintAssumption
<1> HIDE DEF zero
<1>2. /\ t \in Seq(Byte) /\ all \in Seq(Byte) /\ Len(t) = Len(s) + Len(c)
      /\ Len(all) = Len(t) + Len(zero)
      /\ Len(s) \in Nat /\ Len(c) \in Nat /\ Len(t) \in Nat
  BY <1>1
<1>3. all = s \o (c \o zero)
  BY <1>1, Regroup, Zenon
<1>4. /\ w \in BinaryWriters /\ w.out \in Seq(Byte)
      /\ Begins(w.out, all)
      /\ flushed.err # "none" => w = flushed
  <2>1. Part(w0, w, c \o zero) /\ (flushed.err # "none" => w = flushed)
    BY TerminateParts DEF zero
  <2> QED
    BY <1>3, <2>1 DEF Part, BinaryWriters
<1>5. flushed.err = "none" => flushed.out = t
  BY DEF Part
<1>6. Begins(flushed.out, t)
  BY DEF Part
<1> HIDE DEF t, all
<1>7. Sealing(flushed, w) => w.out = all
  BY <1>5 DEF Sealing, all, zero
<1>8. ASSUME Len(all) <= Len(w.out) PROVE Sealing(flushed, w)
  <2>1. w.out = all
    BY <1>2, <1>4, <1>8, BeginsWhole
  <2>2. flushed.err = "none"
    <3>1. ASSUME flushed.err # "none" PROVE FALSE
      <4>1. Len(all) <= Len(t)
        BY <1>2, <1>4, <1>6, <1>8, <3>1 DEF Begins
      <4> QED
        BY <1>1, <1>2, <4>1
    <3> QED
      BY <3>1
  <2> QED
    BY <1>5, <2>1, <2>2 DEF Sealing, all, zero
<1>9. Len(all) > Len(s)
  BY <1>1, <1>2
<1> QED
  BY <1>7, <1>8, <1>9 DEF all, t, zero

LEMMA FinishDelivers ==
  ASSUME StreamTypeOK, WriterInv, StreamTypeOK', disturbed => end # "open",
         NEW ideal, NEW L, NEW term, Delivery(ideal, L, term),
         werr = "none", ~closed, Finish,
         UNCHANGED <<end, nulls, sized, offered, accepted, disturbed>>, UNCHANGED readerVars,
         arrayEnd' = IF closed' /\ ~closed THEN Len(wire') ELSE arrayEnd
  PROVE  \E more, M, t : Delivery(more, M, t)'
<1>1. /\ Delivery(ideal, L, FALSE) /\ ~sealed
      /\ Len(L) + count = Len(offered) /\ (~sized => count = 0)
      /\ sized => \E b : Packed(buf, b, count, Len(L), offered, nulls)
  <2>1. /\ closed \in BOOLEAN
        /\ Len(L) + count = Len(offered) /\ (~sized => count = 0)
        /\ sized => \E b : Packed(buf, b, count, Len(L), offered, nulls)
        /\ term = closed /\ (sealed => term)
    BY DEF Delivery, Kept, WriterInv, WriterTypeOK
  <2>2. term = FALSE
    BY <2>1
  <2> QED
    BY <2>1, <2>2
<1>2. /\ Layout(ideal, L, offered, nulls, sized) /\ Closing(ideal, L, FALSE)
      /\ (~disturbed => wire = ideal) /\ Begins(wire, ideal)
  <2>1. Under(ideal, L, FALSE) /\ (~disturbed => wire = ideal)
    BY <1>1 DEF Delivery
  <2> QED
    BY <2>1 DEF Under
<1>3. /\ ideal \in Seq(Byte) /\ Len(L) \in Nat /\ wire \in Seq(Byte)
      /\ offered \in Seq(ItemsOf(nulls)) /\ offered = accepted /\ Len(offered) \in Nat
  BY <1>2 DEF Layout, StreamTypeOK, WriterInv
<1>4. Out \in BinaryWriters /\ Out.err = "none" /\ Out.out = wire
  BY OutIsWriter DEF WriterInv, Out, Writer
<1>5. PICK flushed \in (IF Pending THEN Flush(Out, count, buf) ELSE {Out}) :
        \E w \in Reach(Terminate({flushed})) :
          /\ Landed(w)
          /\ IF Pending THEN AfterFlush(flushed, count, buf) ELSE UNCHANGED <<buf, count>>
          /\ closed' = (w.err = "none")
          /\ sealed' = Sealing(flushed, w)
  BY DEF Finish
<1>6. PICK w \in Reach(Terminate({flushed})) :
          /\ Landed(w)
          /\ IF Pending THEN AfterFlush(flushed, count, buf) ELSE UNCHANGED <<buf, count>>
          /\ closed' = (w.err = "none")
          /\ sealed' = Sealing(flushed, w)
  BY <1>5
<1>7. /\ w \in Terminate({flushed})
      /\ end = "open" \/ (w.out = wire /\ w.err # "none")
      /\ wire' = w.out /\ werr' = w.err
      /\ Pending => AfterFlush(flushed, count, buf)
      /\ ~Pending => buf' = buf /\ count' = count
      /\ closed' = (w.err = "none")
      /\ sealed' = Sealing(flushed, w)
  BY <1>6 DEF Reach, Landed
<1>8. PICK c, M : FlushedTo(ideal, L, flushed, c, M)
  <2>1. flushed \in ToFlush
    BY <1>5 DEF ToFlush
  <2> QED
    BY <1>1, <2>1, FlushPlaces
<1>9. /\ c \in Seq(Byte)
      /\ Part(Out, flushed, c)
      /\ Layout(ideal \o c, M, offered, nulls, sized)
      /\ Closing(ideal \o c, M, FALSE)
      /\ Len(M) = Len(offered)
      /\ Len(L) <= Len(M) /\ \A k \in 1 .. Len(L) : M[k] = L[k]
      /\ ~Pending => M = L
  BY <1>8 DEF FlushedTo
<1>10. PICK zero : zero = PutVarint(0)
  OBVIOUS
<1>11. zero \in Seq(Byte)
  <2>1. 0 \in Long
    BY HalfIsPositive DEF Long
  <2> QED
    BY <1>10, <2>1, PutVarintIsBytes
<1>12. /\ Sealing(flushed, w) => w.out = (wire \o c) \o zero
       /\ Len((wire \o c) \o zero) <= Len(w.out) => Sealing(flushed, w)
       /\ Len((wire \o c) \o zero) > Len(wire)
  <2>1. /\ wire \in Seq(Byte) /\ c \in Seq(Byte) /\ Out \in BinaryWriters /\ Out.out = wire
        /\ Part(Out, flushed, c) /\ w \in Terminate({flushed})
    BY <1>3, <1>4, <1>7, <1>9
  <2>2. Sealing(flushed, w) => w.out = (wire \o c) \o PutVarint(0)
    BY <2>1, SealedWhenThere
  <2>3. Len((wire \o c) \o PutVarint(0)) <= Len(w.out) => Sealing(flushed, w)
    BY <2>1, SealedWhenThere
  <2>4. Len((wire \o c) \o PutVarint(0)) > Len(wire)
    BY <2>1, SealedWhenThere
  <2> QED
    BY <1>10, <2>2, <2>3, <2>4
<1>13. ~sized => count' = 0
  BY <1>1, <1>7 DEF Pending
<1>14. More(offered, offered')
  BY <1>3 DEF More
<1>15. CASE end # "open"
  <2>1. wire' = wire /\ werr' # "none" /\ ~closed'
    BY <1>7, <1>15
  <2>2. ~sealed'
    <3>1. ASSUME Sealing(flushed, w) PROVE FALSE
      <4>1. Len(wire) > Len(wire) /\ Len(wire) \in Nat
        BY <1>3, <1>7, <1>12, <1>15, <3>1
      <4> QED
        BY <4>1
    <3> QED
      BY <1>7, <3>1
  <2>3. offered' \in Seq(ItemsOf(nulls))
    BY <1>3
  <2>4. Delivery(ideal, L, FALSE)'
    BY <1>1, <1>13, <1>14, <2>1, <2>2, <2>3, NothingSent
  <2> QED
    BY <2>4
<1>16. CASE end = "open"
  <2>1. wire = ideal /\ ~disturbed
    BY <1>2, <1>16
  <2>2. PICK flush : flush = ideal \o c
    OBVIOUS
  <2>3. PICK more : more = flush \o zero
    OBVIOUS
  <2>4. /\ flush \in Seq(Byte) /\ more \in Seq(Byte)
        /\ Layout(flush, M, offered, nulls, sized) /\ Closing(flush, M, FALSE)
        /\ Len(more) = Len(flush) + Len(zero)
    <3>1. flush \in Seq(Byte)
      BY <1>3, <1>9, <2>2
    <3>2. more \in Seq(Byte) /\ Len(more) = Len(flush) + Len(zero)
      BY <1>11, <2>3, <3>1
    <3>3. Layout(flush, M, offered, nulls, sized) /\ Closing(flush, M, FALSE)
      BY <1>9, <2>2, Zenon
    <3> QED
      BY <3>1, <3>2, <3>3
  <2>5. Layout(more, M, offered', nulls, sized)
    <3>1. Layout(flush \o zero, M, offered, nulls, sized)
      BY <1>3, <1>11, <1>14, <2>4, LayoutLater
    <3> QED
      BY <2>3, <3>1
  <2>6. Gap(M, Len(M)) = Len(flush)
    BY <2>4 DEF Closing
  <2>7. Closing(more, M, TRUE)
    <3>1. Has(flush \o zero, Len(flush), zero)
      BY <1>11, <2>4, HasAppended
    <3> QED
      BY <1>10, <2>3, <2>6, <3>1 DEF Closing
  <2>8. EndOf(M) = Len(more)
    BY <1>10, <2>4, <2>6 DEF EndOf
  <2>9. /\ Begins(wire', more) /\ (werr' = "none" => wire' = more)
        /\ w.err = "none" => flushed.err = "none"
    <3>1. /\ Part(Out, w, c \o zero)
          /\ w.err = "none" => flushed.err = "none"
      BY <1>4, <1>7, <1>9, <1>10, TerminateParts
    <3>2. wire \o (c \o zero) = more
      <4>1. (ideal \o c) \o zero = ideal \o (c \o zero)
        <5>1. ideal \in Seq(Byte) /\ c \in Seq(Byte) /\ zero \in Seq(Byte)
          BY <1>3, <1>9, <1>11
        <5> QED
          BY <5>1, Regroup, Zenon
      <4> QED
        BY <2>1, <2>2, <2>3, <4>1
    <3> QED
      BY <1>4, <1>7, <3>1, <3>2 DEF Part
  <2>10. Kept(M, TRUE)'
    <3>1. ASSUME werr' = "none"
          PROVE  /\ Len(M) + count' = Len(offered') /\ TRUE = closed'
                 /\ sized' => \E b : Packed(buf', b, count', Len(M), offered', nulls')
      <4>1. TRUE = closed'
        BY <1>7, <3>1
      <4>2. CASE Pending
        <5>1. buf' = << >> /\ count' = 0
          BY <1>7, <2>9, <3>1, <4>2 DEF AfterFlush
        <5>2. \E b : Packed(<< >>, b, 0, Len(M), offered', nulls')
          BY PackedNothing
        <5> QED
          BY <1>3, <1>9, <4>1, <5>1, <5>2
      <4>3. CASE ~Pending
        <5>1. M = L /\ buf' = buf /\ count' = count
          BY <1>7, <1>9, <4>3
        <5> QED
          BY <1>1, <4>1, <5>1
      <4> QED
        BY <4>2, <4>3
    <3>2. closed' => arrayEnd' = EndOf(M)
      BY <1>7, <2>8, <2>9
    <3>3. Len(M) = Len(offered') /\ accepted' = offered'
      BY <1>3, <1>9
    <3>4. EndOf(M) <= Len(wire') => sealed'
      <4>1. (wire \o c) \o zero = more
        BY <2>1, <2>2, <2>3
      <4> QED
        BY <1>7, <1>12, <2>8, <4>1
    <3> QED
      BY <1>13, <3>1, <3>2, <3>3, <3>4 DEF Kept, EndOf, Gap
  <2>11. TRUE \in BOOLEAN
    OBVIOUS
  <2>12. Delivery(more, M, TRUE)'
    BY <1>1, <1>9, <1>14, <2>5, <2>7, <2>9, <2>10, <2>11, DeliveryGrows
  <2> QED
    BY <2>12
<1> QED
  BY <1>15, <1>16

-----------------------------------------------------------------------------
(***************************************************************************)
(* Every step keeps it.                                                    *)
(***************************************************************************)
Delivered == \E ideal, L, term : Delivery(ideal, L, term)

LEMMA DeliveryStays ==
  ASSUME NEW ideal, NEW L, NEW term, Delivery(ideal, L, term),
         UNCHANGED <<wire, end, nulls, sized, buf, count, closed, werr, accepted, offered, sealed,
                     arrayEnd, disturbed>>,
         UNCHANGED readerVars
  PROVE  Delivery(ideal, L, term)'
<1>1. rd' = rd /\ passed' = passed /\ yielded' = yielded
  BY DEF readerVars
<1>2. Under(ideal, L, term)'
  BY DEF Delivery, Under, StreamTypeOK
<1>3. Kept(L, term)'
  BY DEF Delivery, Kept
<1>4. Taken'
  BY <1>1 DEF Delivery, Taken
<1>5. Reading(rd, L, passed, sized, term)'
  BY <1>1 DEF Delivery
<1> QED
  BY <1>2, <1>3, <1>4, <1>5 DEF Delivery

LEMMA WriterDelivers ==
  ASSUME IInv, Delivered, WriterStep
  PROVE  Delivered'
<1>1. /\ StreamTypeOK /\ WriterInv /\ (disturbed => end # "open")
      /\ StreamTypeOK' /\ disturbed' = disturbed /\ UNCHANGED readerVars
      /\ arrayEnd' = IF closed' /\ ~closed THEN Len(wire') ELSE arrayEnd
  BY WriterStepKeeps DEF IInv, ReaderInv, StreamGrew, WriterStep
<1>2. PICK ideal, L, term : Delivery(ideal, L, term)
  BY DEF Delivered
<1>3. ASSUME NEW v \in Values, Write(v) PROVE Delivered'
  <2>1. \E more, M : Delivery(more, M, FALSE)'
    <3>1. WriteThrough(v) \/ WriteBuffered(v)
      BY <1>3 DEF Write
    <3>2. CASE WriteThrough(v)
      BY <1>1, <1>2, <1>3, <3>2, WriteThroughDelivers
    <3>3. CASE WriteBuffered(v)
      BY <1>1, <1>2, <1>3, <3>3, WriteBufferedDelivers
    <3> QED
      BY <3>1, <3>2, <3>3
  <2> QED
    BY <2>1 DEF Delivered
<1>4. ASSUME werr = "none", ~closed, Finish, UNCHANGED <<end, nulls, sized, offered, accepted>>
      PROVE  Delivered'
  <2>1. \E more, M, t : Delivery(more, M, t)'
    BY <1>1, <1>2, <1>4, FinishDelivers
  <2> QED
    BY <2>1 DEF Delivered
<1>5. ASSUME UNCHANGED <<wire, end, nulls, sized, buf, count, closed, werr, accepted, offered, sealed>>
      PROVE  Delivered'
  <2>1. arrayEnd' = arrayEnd
    BY <1>1, <1>5
  <2>2. Delivery(ideal, L, term)'
    BY <1>1, <1>2, <1>5, <2>1, DeliveryStays
  <2> QED
    BY <2>2 DEF Delivered
<1>6. CASE Close
  BY <1>4, <1>6 DEF Close, Failed
<1>7. CASE WriteArrayCloses
  <2>1. CASE Failed \/ closed
    BY <1>5, <1>7, <2>1 DEF WriteArrayCloses
  <2>2. CASE ~(Failed \/ closed)
    BY <1>4, <1>7, <2>2 DEF WriteArrayCloses, Failed
  <2> QED
    BY <2>1, <2>2
<1>8. CASE WriteArrayGivesUp
  BY <1>5, <1>8 DEF WriteArrayGivesUp, streamVars
<1>9. CASE WriteClosed
  BY <1>5, <1>9 DEF WriteClosed, streamVars
<1> QED
  BY <1>3, <1>6, <1>7, <1>8, <1>9 DEF WriterStep, WriterNext

\* The field after the array comes behind the terminator.
LEMMA FollowingDelivers ==
  ASSUME IInv, Delivered, WriteFollowing
  PROVE  Delivered'
<1>1. /\ StreamTypeOK /\ WriterInv /\ (disturbed => end # "open")
  BY DEF IInv, ReaderInv
<1>2. PICK ideal, L, term : Delivery(ideal, L, term)
  BY DEF Delivered
<1>3. /\ closed /\ sealed /\ werr = "none" /\ end = "open" /\ ~disturbed
      /\ UNCHANGED <<end, nulls, sized, buf, count, closed, werr, accepted, offered, sealed>>
      /\ UNCHANGED readerVars /\ arrayEnd' = arrayEnd /\ disturbed' = disturbed
  BY <1>1 DEF WriteFollowing, WriterInv, pipeVars
<1>4. /\ Under(ideal, L, term) /\ Kept(L, term) /\ wire = ideal /\ term = closed /\ term \in BOOLEAN
  BY <1>2, <1>3 DEF Delivery, Kept
<1>5. term = TRUE
  BY <1>3, <1>4
<1>6. /\ Layout(ideal, L, offered, nulls, sized) /\ Closing(ideal, L, TRUE)
      /\ sized \in BOOLEAN
  BY <1>4, <1>5 DEF Under
<1>7. ideal \in Seq(Byte) /\ offered \in Seq(ItemsOf(nulls)) /\ Len(L) \in Nat
  BY <1>6 DEF Layout
<1>8. PICK l \in {0, 1} : \E w \in {x \in WriteLong(Out, l) : x.err = "none"} : wire' = w.out
  BY DEF WriteFollowing
<1>9. PICK w \in WriteLong(Out, l) : w.err = "none" /\ wire' = w.out
  BY <1>8
<1>10. l \in Long /\ 0 \in Long
  BY HalfIsPositive, HalfExceedsOne DEF Long
<1>11. PICK c \in Seq(Byte) : c = PutVarint(l)
  BY <1>10, PutVarintIsBytes
<1>12. PICK more : more = ideal \o c
  OBVIOUS
<1>13. wire' = more /\ more \in Seq(Byte)
  <2>1. Out \in BinaryWriters /\ Out.err = "none" /\ Out.out = wire
    BY <1>1, OutIsWriter DEF WriterInv, Out, Writer
  <2>2. Part(Out, w, c)
    BY <1>9, <1>11, <2>1, PartFixed DEF WriteLong
  <2>3. wire' = wire \o c
    BY <1>9, <2>1, <2>2 DEF Part
  <2> QED
    BY <1>4, <1>7, <1>12, <2>3
<1>14. Layout(more, L, offered, nulls, sized)
  <2>1. More(offered, offered)
    BY <1>7 DEF More
  <2> QED
    BY <1>6, <1>7, <1>12, <2>1, LayoutLater
<1>15. Closing(more, L, TRUE)
  <2>1. Has(ideal, Gap(L, Len(L)), PutVarint(0))
    BY <1>6 DEF Closing
  <2>2. Gap(L, Len(L)) \in Nat
    <3>1. Len(L) \in 0 .. Len(L)
      BY <1>7
    <3> QED
      BY <1>6, <3>1, GapIsNat
  <2>3. PutVarint(0) \in Seq(Byte)
    BY <1>10, PutVarintIsBytes
  <2>4. Has(more, Gap(L, Len(L)), PutVarint(0))
    BY <1>7, <1>12, <2>1, <2>2, <2>3, HasLater
  <2> QED
    BY <2>4 DEF Closing
<1>16. Under(more, L, TRUE)'
  <2>1. Begins(wire', more)
    BY <1>13, BeginsAll
  <2>2. StreamTypeOK'
    BY <1>1, <1>3, <1>13 DEF StreamTypeOK
  <2> QED
    BY <1>3, <1>6, <1>14, <1>15, <2>1, <2>2 DEF Under
<1>17. Kept(L, TRUE)'
  BY <1>3, <1>4, <1>5 DEF Kept
<1>18. Reading(rd, L, passed, sized, TRUE)' /\ Taken'
  <2>1. rd' = rd /\ passed' = passed /\ yielded' = yielded
    BY <1>3 DEF readerVars
  <2>2. Reading(rd, L, passed, sized, TRUE) /\ Taken
    BY <1>2, <1>5 DEF Delivery
  <2>3. Reading(rd, L, passed, sized, TRUE)'
    BY <1>3, <2>1, <2>2
  <2> QED
    BY <1>3, <2>1, <2>2, <2>3 DEF Taken
<1>19. Delivery(more, L, TRUE)'
  BY <1>3, <1>13, <1>16, <1>17, <1>18 DEF Delivery
<1> QED
  BY <1>19 DEF Delivered

\* The reader is not told otherwise than that the array was cut, unless
\* something went wrong.
Told == (rd.err # "none" /\ werr = "none" /\ ~disturbed) => rd.err = "truncatedArray"

\* Nothing too large for the reader: neither the items nor their place.
Readable == Len(wire) < Half /\ \A v \in Items : Len(v) < IntHalf

LEMMA WholeWhenReadable ==
  ASSUME NEW ideal, NEW L, NEW term, Delivery(ideal, L, term), werr = "none", ~disturbed, Readable
  PROVE  Whole(ideal)
BY DEF Delivery, Readable, Whole

LEMMA ReadDelivers ==
  ASSUME IInv, Delivered, ReaderStep
  PROVE  Delivered' /\ (Told /\ Readable => Told')
<1>1. /\ ReaderInv /\ StreamTypeOK /\ Standing(rd) /\ rd.err = "none" /\ ~rd.done
      /\ UNCHANGED streamVars /\ UNCHANGED writerVars /\ UNCHANGED pipeVars
      /\ passed \in Nat /\ yielded \in Seq(Nat \X Seq(Byte))
  BY DEF IInv, ReaderInv, ReaderTypeOK, ReaderStep, ReaderNext, ReadItem, SkipBlock, Answered
<1>2. PICK ideal, L, term : Delivery(ideal, L, term)
  BY DEF Delivered
<1>3. /\ Under(ideal, L, term) /\ Kept(L, term) /\ Reading(rd, L, passed, sized, term) /\ Taken
      /\ Len(L) \in Nat
  <2>1. /\ Under(ideal, L, term) /\ Kept(L, term) /\ Reading(rd, L, passed, sized, term) /\ Taken
    BY <1>2 DEF Delivery
  <2>2. Layout(ideal, L, offered, nulls, sized)
    BY <2>1 DEF Under
  <2>3. L \in Seq(Places)
    BY <2>2 DEF Layout
  <2> QED
    BY <2>1, <2>3
<1>4. /\ wire' = wire /\ end' = end /\ nulls' = nulls /\ sized' = sized /\ buf' = buf /\ count' = count
      /\ closed' = closed /\ werr' = werr /\ accepted' = accepted /\ offered' = offered
      /\ sealed' = sealed /\ arrayEnd' = arrayEnd /\ disturbed' = disturbed
  BY <1>1 DEF streamVars, writerVars, pipeVars
<1>5. ASSUME Reading(rd', L, passed', sized, term), Taken'
      PROVE  Delivered'
  <2>1. Under(ideal, L, term)' /\ Kept(L, term)'
    <3>1. Under(ideal, L, term)'
      BY <1>3, <1>4 DEF Under, StreamTypeOK
    <3>2. Kept(L, term)'
      BY <1>3, <1>4 DEF Kept
    <3> QED
      BY <3>1, <3>2
  <2>2. Reading(rd, L, passed, sized, term)'
    BY <1>4, <1>5
  <2>3. Delivery(ideal, L, term)'
    BY <1>2, <1>4, <1>5, <2>1, <2>2 DEF Delivery
  <2> QED
    BY <2>3 DEF Delivered
<1>6. ASSUME Whole(ideal) => rd'.err \in {"none", "truncatedArray"}
      PROVE  Told /\ Readable => Told'
  BY <1>2, <1>4, <1>6, WholeWhenReadable DEF Told
<1>7. CASE ReadItem
  <2> DEFINE res == DecodeNext(rd)
  <2>1. /\ ~res.ok => Reading(res.rd, L, passed, sized, term)
        /\ res.ok => /\ passed < Len(L) /\ res.val = offered[passed + 1]
                     /\ Reading(res.rd, L, passed + 1, sized, term)
        /\ Whole(ideal) => res.rd.err \in {"none", "truncatedArray"}
    BY <1>1, <1>3, DecodeNextAt
  <2>2. /\ rd' = res.rd
        /\ passed' = IF res.ok THEN passed + 1 ELSE passed
        /\ yielded' = IF res.ok THEN Append(yielded, <<passed + 1, res.val>>) ELSE yielded
    BY <1>7 DEF ReadItem
  <2> HIDE DEF res
  <2>3. Reading(rd', L, passed', sized, term)
    BY <2>1, <2>2
  <2>4. Taken'
    <3>1. CASE ~res.ok
      BY <1>3, <1>4, <2>2, <3>1 DEF Taken
    <3>2. CASE res.ok
      <4>1. /\ passed' = passed + 1 /\ yielded' = Append(yielded, <<passed + 1, res.val>>)
            /\ res.val = offered[passed + 1]
        BY <2>1, <2>2, <3>2
      <4>2. PICK pair : pair = <<passed + 1, res.val>>
        OBVIOUS
      <4>3. pair[1] = passed + 1 /\ pair[2] = offered[passed + 1]
        BY <4>1, <4>2
      <4>4. /\ Len(yielded') = Len(yielded) + 1 /\ yielded'[Len(yielded) + 1] = pair
            /\ \A i \in 1 .. Len(yielded) : yielded'[i] = yielded[i]
            /\ Len(yielded) \in Nat
        <5> DEFINE seq == yielded
        <5>1. seq \in Seq(Nat \X Seq(Byte)) /\ Len(seq) \in Nat
          BY <1>1
        <5>2. yielded' = Append(seq, pair)
          BY <4>1, <4>2
        <5> HIDE DEF seq
        <5>3. /\ Len(Append(seq, pair)) = Len(seq) + 1 /\ Append(seq, pair)[Len(seq) + 1] = pair
              /\ \A i \in 1 .. Len(seq) : Append(seq, pair)[i] = seq[i]
          BY <5>1, AppendProperties
        <5>4. /\ Len(yielded') = Len(seq) + 1 /\ yielded'[Len(seq) + 1] = pair
              /\ \A i \in 1 .. Len(seq) : yielded'[i] = seq[i]
          BY <5>2, <5>3
        <5> QED
          BY <5>1, <5>4 DEF seq
      <4> SUFFICES ASSUME NEW i \in 1 .. Len(yielded')
                   PROVE  yielded'[i][1] \in 1 .. passed' /\ yielded'[i][2] = offered'[yielded'[i][1]]
        BY DEF Taken
      <4>5. CASE i = Len(yielded) + 1
        <5>1. yielded'[i] = pair /\ passed + 1 \in 1 .. passed + 1
          BY <1>1, <4>4, <4>5
        <5> QED
          BY <1>4, <4>1, <4>3, <5>1
      <4>6. CASE i # Len(yielded) + 1
        <5>1. i \in 1 .. Len(yielded)
          BY <4>4, <4>6
        <5>2. yielded[i][1] \in 1 .. passed /\ yielded[i][2] = offered[yielded[i][1]]
          BY <1>3, <5>1 DEF Taken
        <5>3. \A x \in 1 .. passed : x \in 1 .. passed + 1
          BY <1>1
        <5> QED
          BY <1>4, <4>1, <4>4, <5>1, <5>2, <5>3
      <4> QED
        BY <4>5, <4>6
    <3> QED
      BY <3>1, <3>2
  <2>5. Whole(ideal) => rd'.err \in {"none", "truncatedArray"}
    BY <2>1, <2>2
  <2> QED
    BY <1>5, <1>6, <2>3, <2>4, <2>5
<1>8. CASE SkipBlock
  <2> DEFINE res == DiscardBlock(rd)
  <2>1. /\ Reading(res.rd, L, passed + res.skipped, sized, term)
        /\ Whole(ideal) => res.rd.err \in {"none", "truncatedArray"}
    BY <1>1, <1>3, DiscardBlockAt
  <2>2. rd' = res.rd /\ passed' = passed + res.skipped /\ yielded' = yielded /\ res.skipped \in Nat
    <3>1. res.skipped \in Nat
      BY <1>1, DiscardBlockStands
    <3> QED
      BY <1>8, <3>1 DEF SkipBlock
  <2> HIDE DEF res
  <2>3. Reading(rd', L, passed', sized, term)
    BY <2>1, <2>2
  <2>4. Taken'
    <3>1. \A x \in 1 .. passed : x \in 1 .. passed'
      BY <1>1, <2>2
    <3> QED
      BY <1>3, <1>4, <2>2, <3>1 DEF Taken
  <2>5. Whole(ideal) => rd'.err \in {"none", "truncatedArray"}
    BY <2>1, <2>2
  <2> QED
    BY <1>5, <1>6, <2>3, <2>4, <2>5
<1> QED
  BY <1>7, <1>8 DEF ReaderStep, ReaderNext

\* The stream ends, or is cut: the wire is a beginning all the same.
LEMMA LossDelivers ==
  ASSUME IInv, Delivered, Leave \/ Lose
  PROVE  Delivered' /\ (Told => Told')
<1>1. /\ StreamTypeOK /\ wire \in Seq(Byte) /\ Len(wire) \in Nat /\ rd.off \in Nat /\ rd.off <= Len(wire)
      /\ (disturbed => end # "open") /\ (closed => sealed)
  BY PlaceOnTheStream DEF IInv, ReaderInv, WriterInv
<1>2. PICK ideal, L, term : Delivery(ideal, L, term)
  BY DEF Delivered
<1>3. /\ end = "open" /\ end' \in {"eof", "fault"} /\ nulls' = nulls
      /\ sized' = sized /\ buf' = buf /\ count' = count
      /\ closed' = closed /\ werr' = werr /\ accepted' = accepted /\ offered' = offered
      /\ sealed' = sealed /\ arrayEnd' = arrayEnd
      /\ rd' = rd /\ passed' = passed /\ yielded' = yielded
  BY DEF Leave, Lose, HangUp, Truncate, writerVars, readerVars
<1>4. ~disturbed /\ (end' = "fault" => disturbed') /\ (~disturbed' => wire' = wire)
  BY <1>1, <1>3 DEF Leave, Lose, HangUp
<1>5. /\ wire' \in Seq(Byte) /\ Len(wire') <= Len(wire)
      /\ \A i \in 1 .. Len(wire') : wire'[i] = wire[i]
  <2>1. CASE Leave
    BY <1>1, <2>1 DEF Leave, HangUp
  <2>2. CASE Lose
    <3>1. PICK n \in rd.off .. Len(wire) : wire' = SubSeq(wire, 1, n)
      BY <2>2 DEF Lose, Truncate
    <3>2. n \in Nat /\ n <= Len(wire)
      BY <1>1
    <3>3. /\ SubSeq(wire, 1, n) \in Seq(Byte) /\ Len(SubSeq(wire, 1, n)) = n
          /\ \A i \in 1 .. n : SubSeq(wire, 1, n)[i] = wire[i]
      BY <1>1, <3>2, SubSeqProperties
    <3> QED
      BY <3>1, <3>2, <3>3
  <2> QED
    BY <2>1, <2>2
<1>6. /\ Under(ideal, L, term) /\ Kept(L, term) /\ Reading(rd, L, passed, sized, term) /\ Taken
      /\ (werr = "none" => wire = ideal) /\ term \in BOOLEAN
  BY <1>2, <1>4 DEF Delivery
<1>7. /\ sized \in BOOLEAN /\ Begins(wire, ideal)
      /\ Layout(ideal, L, offered, nulls, sized) /\ Closing(ideal, L, term)
      /\ ideal \in Seq(Byte) /\ Len(L) \in Nat
  <2>1. /\ sized \in BOOLEAN /\ Begins(wire, ideal)
        /\ Layout(ideal, L, offered, nulls, sized) /\ Closing(ideal, L, term)
    BY <1>6 DEF Under
  <2>2. ideal \in Seq(Byte) /\ L \in Seq(Places)
    BY <2>1 DEF Layout
  <2> QED
    BY <2>1, <2>2
<1>8. Under(ideal, L, term)'
  <2>1. Begins(wire', ideal)
    <3>1. Len(wire) <= Len(ideal) /\ \A i \in 1 .. Len(wire) : wire[i] = ideal[i]
      BY <1>7 DEF Begins
    <3>2. Len(wire') <= Len(ideal) /\ \A i \in 1 .. Len(wire') : i \in 1 .. Len(wire)
      BY <1>1, <1>5, <1>7, <3>1
    <3> QED
      BY <1>5, <3>1, <3>2 DEF Begins
  <2>2. StreamTypeOK'
    BY <1>1, <1>3, <1>5 DEF StreamTypeOK, Ends
  <2> QED
    BY <1>3, <1>7, <2>1, <2>2 DEF Under
<1>9. Kept(L, term)'
  <2>1. (term /\ EndOf(L) <= Len(wire')) => EndOf(L) <= Len(wire)
    <3>1. Gap(L, Len(L)) \in Nat
      <4>1. Len(L) \in 0 .. Len(L)
        BY <1>7
      <4> QED
        BY <1>7, <4>1, GapIsNat
    <3>2. Len(PutVarint(0)) \in Nat
      <4>1. 0 \in Long
        BY HalfIsPositive DEF Long
      <4> QED
        BY <4>1, PutVarintIsBytes
    <3>3. EndOf(L) \in Nat
      BY <3>1, <3>2 DEF EndOf
    <3> QED
      BY <1>1, <1>5, <3>3
  <2> QED
    BY <1>3, <1>6, <2>1 DEF Kept
<1>10. Reading(rd, L, passed, sized, term)' /\ Taken'
  <2>1. Reading(rd, L, passed, sized, term)'
    BY <1>3, <1>6
  <2> QED
    BY <1>3, <1>6, <2>1 DEF Taken
<1>11. (werr' = "none" /\ ~disturbed') => wire' = ideal
  BY <1>3, <1>4, <1>6
<1>12. Delivery(ideal, L, term)'
  BY <1>4, <1>6, <1>8, <1>9, <1>10, <1>11 DEF Delivery
<1>13. Told => Told'
  BY <1>3, <1>4 DEF Told
<1> QED
  BY <1>12, <1>13 DEF Delivered

LEMMA InitDelivers == Init => Delivered /\ Told
<1> SUFFICES ASSUME Init PROVE Delivered /\ Told
  OBVIOUS
<1>1. /\ WriterInit /\ rd = NewReader(Len(Preamble)) /\ passed = 0 /\ yielded = << >> /\ ~disturbed
  BY DEF Init, ReaderInit
<1>2. /\ wire = Preamble /\ end = "open" /\ nulls \in BOOLEAN /\ sized \in BOOLEAN
      /\ buf = << >> /\ count = 0 /\ ~closed /\ accepted = << >> /\ offered = << >> /\ ~sealed
      /\ closed = FALSE
  BY <1>1 DEF WriterInit
<1>3. /\ rd.err = "none" /\ ~rd.done /\ rd.remaining = 0 /\ rd.off = Len(Preamble)
  BY <1>1 DEF NewReader
<1>4. PICK L : L = << >>
  OBVIOUS
<1>5. /\ L \in Seq(Places) /\ Len(L) = 0 /\ Ended(L, 0) /\ Gap(L, 0) = Len(Preamble) /\ 1 .. 0 = {}
      /\ 0 \in 0 .. 0
  BY <1>4 DEF Ended, Gap
<1>6. Preamble \in Seq(Byte) /\ Begins(Preamble, Preamble) /\ Len(Preamble) \in Nat
  <2>1. Preamble \in Seq(Byte)
    BY WriterAssumption
  <2> QED
    BY <2>1, BeginsAll
<1>7. Layout(Preamble, L, offered, nulls, sized)
  <2>1. offered \in Seq(ItemsOf(nulls)) /\ Len(offered) = 0
    BY <1>2
  <2>2. \A k \in 1 .. Len(L) : Laid(Preamble, L, offered, nulls, sized, k)
    BY <1>5
  <2> QED
    BY <1>5, <1>6, <2>1, <2>2 DEF Layout
<1>8. Under(Preamble, L, FALSE)
  BY <1>2, <1>5, <1>6, <1>7 DEF Under, Closing, StreamTypeOK, Ends
<1>9. Kept(L, FALSE)
  <2>1. \E b : Packed(buf, b, count, Len(L), offered, nulls)
    BY <1>2, PackedNothing
  <2>2. Len(L) + count = Len(offered)
    BY <1>2, <1>5
  <2> QED
    BY <1>2, <2>1, <2>2 DEF Kept
<1>10. Reading(rd, L, passed, sized, FALSE)
  BY <1>1, <1>3, <1>5, BetweenReads
<1>11. Taken
  BY <1>1 DEF Taken
<1>12. Delivery(Preamble, L, FALSE)
  BY <1>1, <1>2, <1>8, <1>9, <1>10, <1>11 DEF Delivery
<1> QED
  BY <1>3, <1>12 DEF Delivered, Told

LEMMA NextDelivers ==
  ASSUME IInv, Delivered, [Next]_vars
  PROVE  Delivered' /\ (Told /\ Readable => Told')
<1>1. CASE WriterStep
  <2>1. Delivered'
    BY <1>1, WriterDelivers
  <2>2. werr' = "none" => werr = "none"
    BY <1>1
       DEF WriterStep, WriterNext, Write, WriteClosed, Close, WriteArrayCloses, WriteArrayGivesUp,
           Failed
  <2>3. rd' = rd /\ disturbed' = disturbed
    BY <1>1 DEF WriterStep, readerVars
  <2> QED
    BY <2>1, <2>2, <2>3 DEF Told
<1>2. CASE WriteFollowing
  BY <1>2, FollowingDelivers DEF WriteFollowing, readerVars, pipeVars, Told
<1>3. CASE ReaderStep
  BY <1>3, ReadDelivers
<1>4. CASE Leave \/ Lose
  BY <1>4, LossDelivers
<1>5. CASE UNCHANGED vars
  <2>1. UNCHANGED streamVars /\ UNCHANGED writerVars /\ UNCHANGED readerVars /\ UNCHANGED pipeVars
    BY <1>5 DEF vars
  <2>2. PICK ideal, L, term : Delivery(ideal, L, term)
    BY DEF Delivered
  <2>3. Delivery(ideal, L, term)'
    BY <2>1, <2>2, DeliveryStays DEF streamVars, writerVars, pipeVars
  <2>4. Told => Told'
    BY <2>1 DEF Told, readerVars, writerVars, pipeVars
  <2> QED
    BY <2>3, <2>4 DEF Delivered
<1> QED
  BY <1>1, <1>2, <1>3, <1>4, <1>5 DEF Next

-----------------------------------------------------------------------------
(***************************************************************************)
(* What the reader says of an array it finished: it stands where the next  *)
(* field begins, and has passed every item of the writer and no other.     *)
(***************************************************************************)
DoneTold ==
  rd.done => /\ sealed
             /\ passed = Len(accepted)
             /\ offered = accepted
             /\ closed => rd.off = arrayEnd

LEMMA DoneIsTrue == IInv /\ Delivered => DoneTold
<1> SUFFICES ASSUME IInv, Delivered, rd.done
             PROVE  /\ sealed /\ passed = Len(accepted) /\ offered = accepted
                    /\ closed => rd.off = arrayEnd
  BY DEF DoneTold
<1>1. PICK ideal, L, term : Delivery(ideal, L, term)
  BY DEF Delivered
<1>2. Kept(L, term) /\ Reading(rd, L, passed, sized, term)
  BY <1>1 DEF Delivery
<1>3. term /\ passed = Len(L) /\ rd.off = EndOf(L)
  BY <1>2 DEF Reading, EndOf
<1>4. rd.off <= Len(wire)
  BY PlaceOnTheStream DEF IInv
<1> QED
  BY <1>2, <1>3, <1>4 DEF Kept

(***************************************************************************)
(* Whatever the reader decodes is what was written at that place of the    *)
(* array, however blocks, skips, failures and losses divide it (array.go   *)
(* 157, Next, and 229, SkipBlock).                                         *)
(***************************************************************************)
THEOREM YieldsOnlyWhatWasWritten == Spec => []YieldsWhatWasWritten
<1>1. Delivered => YieldsWhatWasWritten
  <2> SUFFICES ASSUME Delivered PROVE YieldsWhatWasWritten
    OBVIOUS
  <2>1. PICK ideal, L, term : Delivery(ideal, L, term)
    BY DEF Delivered
  <2>2. /\ Layout(ideal, L, offered, nulls, sized) /\ Reading(rd, L, passed, sized, term) /\ Taken
    BY <2>1 DEF Delivery, Under
  <2>3. passed \in 0 .. Len(L) /\ Len(L) <= Len(offered) /\ L \in Seq(Places) /\ offered \in Seq(ItemsOf(nulls))
    BY <2>2 DEF Layout, Reading
  <2>4. passed <= Len(offered)
    BY <2>3
  <2> QED
    BY <2>2, <2>4 DEF YieldsWhatWasWritten, Taken
<1>2. Init => IInv /\ Delivered
  BY InitIInv, InitDelivers
<1>3. IInv /\ Delivered /\ [Next]_vars => IInv' /\ Delivered'
  BY NextIInv, NextDelivers
<1> QED
  BY <1>1, <1>2, <1>3, PTL DEF Spec

(***************************************************************************)
(* A reader that reports the end of the array has passed every item the    *)
(* writer accepted and stands where the next field begins, and a writer    *)
(* abandoned without Close reads as a truncated array (array.go:259), as   *)
(* long as no item is too large for an int and the stream for a long.      *)
(***************************************************************************)
THEOREM EndIsToldTruly ==
  ASSUME \A v \in Items : Len(v) < IntHalf
  PROVE  Spec /\ [](Len(wire) < Half) => []EndIsTold
<1>1. IInv /\ Delivered /\ Told => EndIsTold
  BY DoneIsTrue DEF EndIsTold, Told, DoneTold
<1>2. Init => IInv /\ Delivered /\ Told
  BY InitIInv, InitDelivers
<1>3. IInv /\ Delivered /\ Told /\ Len(wire) < Half /\ [Next]_vars => IInv' /\ Delivered' /\ Told'
  BY NextIInv, NextDelivers DEF Readable
<1> QED
  BY <1>1, <1>2, <1>3, PTL DEF Spec

-----------------------------------------------------------------------------
(***************************************************************************)
(* The pair implements the channel of ArrayChannel: the items go in one by *)
(* one, the array is finished once, and the consumer takes them in order.  *)
(***************************************************************************)
Producer == IF sealed THEN "finished" ELSE "open"
Outcome == IF rd.done THEN "complete" ELSE IF rd.err # "none" THEN "broken" ELSE "pending"

Idle == UNCHANGED <<offered, yielded, passed, Producer, Outcome>>

LEMMA ChannelIdles == Idle => UNCHANGED Channel!vars
BY DEF Idle, Channel!vars, Producer, Outcome

LEMMA WriterOnChannel ==
  ASSUME IInv, Delivered, WriterStep
  PROVE  Channel!Next \/ Idle
<1>1. /\ StreamTypeOK /\ WriterInv /\ UNCHANGED readerVars
  BY DEF IInv, ReaderInv, WriterStep
<1>2. rd' = rd /\ passed' = passed /\ yielded' = yielded /\ Outcome' = Outcome
  BY <1>1 DEF readerVars, Outcome
<1>3. PICK ideal, L, term : Delivery(ideal, L, term)
  BY DEF Delivered
<1>4. ASSUME NEW v \in Values, Write(v) PROVE Channel!Next
  <2>1. ~sealed /\ sealed' = sealed /\ v \in Items /\ offered' = Append(offered, v)
    <3>1. ~sealed /\ sealed' = sealed /\ v \in Items
      BY <1>1, <1>3, <1>4, WriteStarts
    <3> QED
      BY <1>4, <3>1 DEF Write
  <2>2. Channel!Send(v)
    BY <1>2, <2>1 DEF Channel!Send, Outcome
  <2> QED
    BY <2>1, <2>2 DEF Channel!Next
<1>5. ASSUME werr = "none", ~closed, Finish, offered' = offered PROVE Channel!Next \/ Idle
  <2>1. ~sealed
    BY <1>3, <1>5 DEF Delivery, Kept
  <2>2. CASE sealed'
    <3>1. Channel!FinishArray
      BY <1>2, <1>5, <2>1, <2>2 DEF Channel!FinishArray, Outcome
    <3> QED
      BY <3>1 DEF Channel!Next
  <2>3. CASE ~sealed'
    BY <1>2, <1>5, <2>1, <2>3 DEF Idle, Producer
  <2> QED
    BY <2>2, <2>3
<1>6. ASSUME UNCHANGED <<offered, sealed>> PROVE Idle
  BY <1>2, <1>6 DEF Idle, Producer
<1>7. CASE Close
  BY <1>5, <1>7 DEF Close, Failed
<1>8. CASE WriteArrayCloses
  <2>1. CASE Failed \/ closed
    BY <1>6, <1>8, <2>1 DEF WriteArrayCloses
  <2>2. CASE ~(Failed \/ closed)
    BY <1>5, <1>8, <2>2 DEF WriteArrayCloses, Failed
  <2> QED
    BY <2>1, <2>2
<1>9. CASE WriteArrayGivesUp \/ WriteClosed
  BY <1>6, <1>9 DEF WriteArrayGivesUp, WriteClosed
<1> QED
  BY <1>4, <1>7, <1>8, <1>9 DEF WriterStep, WriterNext

\* A call that gives an item, or skips some, leaves a reader that goes on.
LEMMA DecodedGoesOn ==
  ASSUME NEW r, Standing(Positioned(r)), DecodeNext(r).ok
  PROVE  DecodeNext(r).rd.err = "none" /\ ~DecodeNext(r).rd.done
<1> DEFINE p == Positioned(r)
           item == Unmarshal(p.off)
           after == [p EXCEPT !.off = item.off, !.remaining = @ - 1]
<1>1. \A q : NoItem(q).ok = FALSE
  BY DEF NoItem
<1>2. InBlock(p) /\ DecodeNext(r) = [rd |-> after, ok |-> TRUE, val |-> item.val, skipped |-> 0]
  BY <1>1 DEF DecodeNext
<1>3. p \in Readers
  BY DEF Standing
<1> HIDE DEF p, item
<1>4. after.err = p.err /\ after.done = p.done
  BY <1>3 DEF Readers
<1> HIDE DEF after
<1> QED
  BY <1>2, <1>4 DEF InBlock

LEMMA DiscardedGoesOn ==
  ASSUME NEW r, Standing(Positioned(r)), DiscardBlock(r).skipped # 0
  PROVE  DiscardBlock(r).rd.err = "none" /\ ~DiscardBlock(r).rd.done
<1> DEFINE p == Positioned(r)
           rest == Discard(wire, end, p.off, Unread(p))
           q == Skipped(p, rest.off)
<1>1. \A x : NoItem(x).skipped = 0
  BY DEF NoItem
<1>2. InBlock(p) /\ DiscardBlock(r) = [NoItem(q) EXCEPT !.skipped = p.remaining]
  BY <1>1 DEF DiscardBlock
<1>3. p \in Readers
  BY DEF Standing
<1> HIDE DEF p, rest
<1>4. q.err = p.err /\ q.done = p.done
  BY <1>3 DEF Skipped, Readers
<1> HIDE DEF q
<1>5. DiscardBlock(r).rd = q
  BY <1>2 DEF NoItem
<1> QED
  BY <1>2, <1>4, <1>5 DEF InBlock

LEMMA ReaderOnChannel ==
  ASSUME IInv, Delivered, ReaderStep, DoneTold'
  PROVE  Channel!Next \/ Idle
<1>1. /\ StreamTypeOK /\ Standing(rd) /\ rd.err = "none" /\ ~rd.done
      /\ UNCHANGED streamVars /\ UNCHANGED writerVars
      /\ passed \in Nat /\ offered \in Seq(Items)
  BY DEF IInv, ReaderInv, WriterInv, WriterTypeOK, ReaderTypeOK, ReaderStep, ReaderNext, ReadItem, SkipBlock, Answered
<1>2. PICK ideal, L, term : Delivery(ideal, L, term)
  BY DEF Delivered
<1>3. /\ Under(ideal, L, term) /\ Reading(rd, L, passed, sized, term)
      /\ Len(L) \in Nat /\ Len(offered) \in Nat /\ Len(L) <= Len(offered)
  <2>1. /\ Under(ideal, L, term) /\ Reading(rd, L, passed, sized, term)
    BY <1>2 DEF Delivery
  <2>2. Layout(ideal, L, offered, nulls, sized)
    BY <2>1 DEF Under
  <2>3. L \in Seq(Places) /\ Len(L) <= Len(offered)
    BY <2>2 DEF Layout
  <2> QED
    BY <1>1, <2>1, <2>3
<1>4. /\ offered' = offered /\ accepted' = accepted /\ sealed' = sealed
      /\ Producer' = Producer /\ Outcome = "pending"
  BY <1>1 DEF writerVars, Producer, Outcome
<1>5. Standing(Positioned(rd))
  BY <1>1, PositionedStands
<1>6. ASSUME passed' = passed, yielded' = yielded PROVE Channel!Next \/ Idle
  <2>1. CASE rd'.done
    <3>1. sealed /\ passed = Len(offered)
      BY <1>4, <1>6, <2>1 DEF DoneTold
    <3>2. Channel!LearnComplete
      BY <1>1, <1>4, <1>6, <2>1, <3>1 DEF Channel!LearnComplete, Producer
    <3> QED
      BY <3>2 DEF Channel!Next
  <2>2. CASE ~rd'.done /\ rd'.err # "none"
    <3>1. Channel!LearnBroken
      BY <1>1, <1>4, <1>6, <2>2 DEF Channel!LearnBroken, Producer
    <3> QED
      BY <3>1 DEF Channel!Next
  <2>3. CASE ~rd'.done /\ rd'.err = "none"
    BY <1>4, <1>6, <2>3 DEF Idle, Outcome
  <2> QED
    BY <2>1, <2>2, <2>3
<1>7. CASE ReadItem
  <2> DEFINE res == DecodeNext(rd)
  <2>1. res.ok => /\ passed < Len(L) /\ res.val = offered[passed + 1]
                  /\ res.rd.err = "none" /\ ~res.rd.done
    <3>1. res.ok => passed < Len(L) /\ res.val = offered[passed + 1]
      BY <1>1, <1>3, DecodeNextAt
    <3>2. res.ok => res.rd.err = "none" /\ ~res.rd.done
      BY <1>5, DecodedGoesOn
    <3> QED
      BY <3>1, <3>2
  <2>2. /\ rd' = res.rd
        /\ passed' = IF res.ok THEN passed + 1 ELSE passed
        /\ yielded' = IF res.ok THEN Append(yielded, <<passed + 1, res.val>>) ELSE yielded
    BY <1>7 DEF ReadItem
  <2> HIDE DEF res
  <2>3. CASE ~res.ok
    BY <1>6, <2>2, <2>3
  <2>4. CASE res.ok
    <3>1. /\ passed' = passed + 1 /\ yielded' = Append(yielded, <<passed', offered[passed']>>)
          /\ passed < Len(offered) /\ rd'.err = "none" /\ ~rd'.done
      BY <1>1, <1>3, <2>1, <2>2, <2>4
    <3>2. Channel!Receive
      BY <1>1, <1>4, <3>1 DEF Channel!Receive, Producer
    <3> QED
      BY <3>2 DEF Channel!Next
  <2> QED
    BY <2>3, <2>4
<1>8. CASE SkipBlock
  <2> DEFINE res == DiscardBlock(rd)
  <2>1. /\ Reading(res.rd, L, passed + res.skipped, sized, term)
        /\ res.skipped \in Nat
        /\ res.skipped # 0 => res.rd.err = "none" /\ ~res.rd.done
    <3>1. Reading(res.rd, L, passed + res.skipped, sized, term)
      BY <1>1, <1>3, DiscardBlockAt
    <3>2. res.skipped \in Nat
      BY <1>1, DiscardBlockStands
    <3>3. res.skipped # 0 => res.rd.err = "none" /\ ~res.rd.done
      BY <1>5, DiscardedGoesOn
    <3> QED
      BY <3>1, <3>2, <3>3
  <2>2. rd' = res.rd /\ passed' = passed + res.skipped /\ yielded' = yielded
    BY <1>8 DEF SkipBlock
  <2> HIDE DEF res
  <2>3. CASE res.skipped = 0
    BY <1>1, <1>6, <2>2, <2>3
  <2>4. CASE res.skipped # 0
    <3>1. passed + res.skipped \in 0 .. Len(L)
      BY <2>1 DEF Reading
    <3> DEFINE n == res.skipped
    <3>2. n \in 1 .. Len(offered) /\ passed + n <= Len(offered) /\ passed' = passed + n
      BY <1>1, <1>3, <2>1, <2>2, <2>4, <3>1
    <3>3. rd'.err = "none" /\ ~rd'.done
      BY <2>1, <2>2, <2>4
    <3> HIDE DEF n
    <3>4. Channel!PassOver(n)
      BY <1>1, <1>4, <2>2, <3>2, <3>3 DEF Channel!PassOver, Producer
    <3> QED
      BY <3>2, <3>4 DEF Channel!Next
  <2> QED
    BY <2>3, <2>4
<1> QED
  BY <1>7, <1>8 DEF ReaderStep, ReaderNext

LEMMA StepOnChannel ==
  ASSUME IInv, Delivered, [Next]_vars, DoneTold'
  PROVE  [Channel!Next]_(Channel!vars)
<1>1. ASSUME UNCHANGED <<offered, sealed>>, UNCHANGED readerVars PROVE Idle
  BY <1>1 DEF Idle, Producer, Outcome, readerVars
<1>2. CASE WriterStep
  BY <1>2, WriterOnChannel, ChannelIdles
<1>3. CASE WriteFollowing
  BY <1>1, <1>3, ChannelIdles DEF WriteFollowing
<1>4. CASE ReaderStep
  BY <1>4, ReaderOnChannel, ChannelIdles
<1>5. CASE Leave
  BY <1>1, <1>5, ChannelIdles DEF Leave, writerVars
<1>6. CASE Lose
  BY <1>1, <1>6, ChannelIdles DEF Lose, writerVars
<1>7. CASE UNCHANGED vars
  BY <1>1, <1>7, ChannelIdles DEF vars, writerVars
<1> QED
  BY <1>2, <1>3, <1>4, <1>5, <1>6, <1>7 DEF Next

(***************************************************************************)
(* Writer, stream and reader together implement ArrayChannel: initial      *)
(* states map to initial states, and every step, a torn write or a lost    *)
(* byte included, maps to a step of the channel or to none.                *)
(***************************************************************************)
THEOREM PipeImplementsChannel == Spec => ImplementsChannel
<1>1. Init => Channel!Init
  BY DEF Init, WriterInit, ReaderInit, NewReader, Channel!Init
<1>2. Init => IInv /\ Delivered
  BY InitIInv, InitDelivers
<1>3. IInv /\ Delivered /\ [Next]_vars => IInv' /\ Delivered'
  BY NextIInv, NextDelivers
<1>4. IInv /\ Delivered => DoneTold
  BY DoneIsTrue
<1>5. IInv /\ Delivered /\ [Next]_vars /\ DoneTold' => [Channel!Next]_(Channel!vars)
  BY StepOnChannel
<1> QED
  BY <1>1, <1>2, <1>3, <1>4, <1>5, PTL DEF Spec, ImplementsChannel, Channel!Spec
=============================================================================

------------------------ MODULE ArbitraryBytesProofs ------------------------
(***************************************************************************)
(* The ArrayReader over any bytes at all: how it tells where they were cut *)
(* off, and that skipping blocks is only a faster way through them.        *)
(*                                                                         *)
(* A caller who decodes every item leaves a path of readers, one for each  *)
(* call of Next.  A caller who skips is always somewhere on that path, or  *)
(* behind a block's header there.                                          *)
(*                                                                         *)
(* Then the generic codec over the same bytes: a Decoder reads back what   *)
(* an Encoder wrote, takes no part of it for a value, and makes of any     *)
(* bytes only values that are encoded again.  A plan calls those under it, *)
(* so each is shown for one kind of plan from the level below, and for all *)
(* plans level by level.                                                   *)
(***************************************************************************)
EXTENDS GenericBytes, StreamProofs, FiniteSetTheorems

-----------------------------------------------------------------------------
(***************************************************************************)
(* Which errors the reads may end in.                                      *)
(***************************************************************************)

\* An error that a source gave out says how the source ended.
SaysEnd(e) == e \in EndOfInput => (e = "source" <=> end = "fault")

\* Reading a long runs out of bytes only at the end of them.
LEMMA ReadLongErrors ==
  ASSUME StreamTypeOK, NEW off \in 0 .. Len(wire)
  PROVE  LET r == ReadLong(wire, end, off)
         IN  /\ r.err \in {"none", "overflow", "eof", "source"}
             /\ SaysEnd(r.err)
             /\ r.err \in EndOfInput => r.off = Len(wire)
             /\ off = Len(wire) => r.err \in EndOfInput
<1> DEFINE ends == LastGroups(wire, off)
           n == Min(ends)
           r == ReadLong(wire, end, off)
<1>1. Len(wire) \in Nat /\ off \in Nat /\ MaxLen \in Nat \ {0}
  BY VarintAssumption DEF StreamTypeOK
<1>2. CASE ends # {}
  <2>1. r = Result(off + n, "none", VarintValue(SubSeq(wire, off + 1, off + n)))
    BY <1>2 DEF ReadLong
  <2>2. r.err = "none"
    BY <2>1 DEF Result
  <2>3. off # Len(wire)
    BY <1>1, <1>2 DEF LastGroups
  <2> HIDE DEF r
  <2> QED
    BY <2>2, <2>3 DEF SaysEnd, EndOfInput, r
<1>3. CASE ends = {} /\ off + MaxLen <= Len(wire)
  <2>1. r = Result(off + MaxLen, "overflow", 0)
    BY <1>3 DEF ReadLong
  <2>2. r.err = "overflow" /\ off # Len(wire)
    BY <1>1, <1>3, <2>1 DEF Result
  <2> HIDE DEF r
  <2> QED
    BY <2>2 DEF SaysEnd, EndOfInput, r
<1>4. CASE ends = {} /\ ~(off + MaxLen <= Len(wire))
  <2>1. r = Result(Len(wire), ReadFullError(end, 0), 0)
    BY <1>4 DEF ReadLong
  <2>2. r.err = (IF end = "fault" THEN "source" ELSE "eof") /\ r.off = Len(wire)
    BY <2>1 DEF Result, ReadFullError
  <2> HIDE DEF r
  <2> QED
    BY <2>2 DEF SaysEnd, EndOfInput, r
<1> QED
  BY <1>2, <1>3, <1>4

\* An item that is cut off is not taken for an array that is.
LEMMA UnmarshalErrors ==
  ASSUME StreamTypeOK, NEW off \in 0 .. Len(wire)
  PROVE  Unmarshal(off).err # "truncatedArray" /\ SaysEnd(Unmarshal(off).err)
<1> DEFINE l == ReadLong(wire, end, off)
           b == ReadFixed(wire, end, l.off, l.val)
           u == Unmarshal(off)
<1>1. l.err \in {"none", "overflow", "eof", "source"} /\ SaysEnd(l.err)
  BY ReadLongErrors
<1>2. CASE nulls
  <2>1. u.err = "none"
    BY <1>2 DEF Unmarshal, Result
  <2> HIDE DEF u
  <2> QED
    BY <2>1 DEF SaysEnd, EndOfInput, u
<1>3. CASE ~nulls
  <2>1. u = ReadBytes(wire, end, off)
    BY <1>3 DEF Unmarshal
  <2>2. u.err \in {l.err, "negativeLength", "overflow", b.err}
    BY <2>1 DEF ReadBytes, Result
  <2>3. b.err = "none" \/ b.err = ReadFullError(end, Len(wire) - l.off)
    BY DEF ReadFixed, Result
  <2> HIDE DEF u, b, l
  <2>4. b.err # "truncatedArray" /\ SaysEnd(b.err)
    BY <2>3 DEF ReadFullError, SaysEnd, EndOfInput
  <2> QED
    BY <1>1, <2>2, <2>4 DEF SaysEnd, EndOfInput, u
<1> QED
  BY <1>2, <1>3

\* Nor is the header of a block: that takes a count that is not there at all.
LEMMA PositionedErrors ==
  ASSUME StreamTypeOK, NEW r, Standing(r), r.err = "none", ~r.done
  PROVE  LET p == Positioned(r)
         IN  /\ SaysEnd(p.err) /\ p.err # "eof"
             /\ p.err = "truncatedArray" <=>
                  end # "fault" /\ r.remaining = 0 /\ r.off = Len(wire)
             /\ p.done => p.err = "none"
<1> DEFINE c == ReadLong(wire, end, r.off)
           p == Positioned(r)
           size == ReadLong(wire, end, c.off)
           sized == [r EXCEPT !.sized = TRUE]
           placed == [sized EXCEPT !.blockEnd = BlockEnd(size)]
<1>1. r \in Readers /\ r.off \in 0 .. Len(wire)
  BY DEF Standing
<1>2. /\ c.err \in {"none", "overflow", "eof", "source"} /\ SaysEnd(c.err)
      /\ c.err \in EndOfInput => c.off = Len(wire)
      /\ r.off = Len(wire) => c.err \in EndOfInput
      /\ c.off \in r.off .. Len(wire)
  BY <1>1, ReadLongErrors, ReadLongResult DEF Consumed
<1>3. Len(wire) \in Nat
  BY DEF StreamTypeOK
<1>4. /\ size.err \in {"none", "overflow", "eof", "source"} /\ SaysEnd(size.err)
  <2>1. c.off \in 0 .. Len(wire)
    BY <1>1, <1>2, <1>3
  <2> HIDE DEF c
  <2> QED
    BY <2>1, ReadLongErrors
<1>5. /\ sized.err = "none" /\ ~sized.done /\ sized \in Readers
      /\ placed.err = "none" /\ ~placed.done
  BY <1>1 DEF Readers
<1> HIDE DEF size, sized, placed, c
<1>6. CASE r.remaining # 0
  <2>1. p = r
    BY <1>6 DEF Positioned
  <2> HIDE DEF p
  <2> QED
    BY <1>6, <2>1 DEF SaysEnd, EndOfInput, p
<1>7. CASE r.remaining = 0 /\ c.err # "none"
  <2>1. p = Fail(r, c.off, CountError(r.off, c))
    BY <1>7 DEF Positioned, NextBlock, c
  <2>2. p.err = CountError(r.off, c) /\ p.done = r.done
    BY <1>1, <2>1 DEF Fail, Readers
  <2> HIDE DEF p
  <2>3. CASE c.off = r.off /\ c.err = "eof"
    <3>1. p.err = "truncatedArray" /\ r.off = Len(wire) /\ end # "fault"
      BY <1>2, <2>2, <2>3 DEF CountError, SaysEnd, EndOfInput
    <3> QED
      BY <1>7, <2>2, <3>1 DEF SaysEnd, EndOfInput, p
  <2>4. CASE ~(c.off = r.off /\ c.err = "eof")
    <3>1. p.err = UnexpectedEOF(c.err)
      BY <2>2, <2>4 DEF CountError
    <3>2. p.err \in {"overflow", "unexpectedEOF", "source"} /\ SaysEnd(p.err)
      BY <1>2, <1>7, <3>1 DEF UnexpectedEOF, SaysEnd, EndOfInput
    <3>3. ~(end # "fault" /\ r.off = Len(wire))
      BY <1>2, <2>4 DEF SaysEnd, EndOfInput
    <3> QED
      BY <2>2, <3>2, <3>3 DEF p
  <2> QED
    BY <2>3, <2>4
<1>8. CASE r.remaining = 0 /\ c.err = "none"
  <2>1. r.off # Len(wire)
    BY <1>2, <1>8 DEF EndOfInput
  <2>2. \/ p.err = "none"
        \/ p.err \in {"overflow", "negativeLength"} /\ ~p.done
        \/ p.err = UnexpectedEOF(size.err) /\ size.err # "none" /\ ~p.done
    <3>1. CASE c.val = 0
      <4>1. p = [r EXCEPT !.off = c.off, !.done = TRUE]
        BY <1>8, <3>1 DEF Positioned, NextBlock, c
      <4>2. p.err = r.err
        BY <1>1, <4>1 DEF Readers
      <4> QED
        BY <4>2
    <3>2. CASE c.val # 0 /\ ~(c.val < 0)
      <4>1. p = [r EXCEPT !.off = c.off, !.sized = FALSE, !.remaining = c.val]
        BY <1>8, <3>2 DEF Positioned, NextBlock, c
      <4>2. p.err = r.err
        BY <1>1, <4>1 DEF Readers
      <4> QED
        BY <4>2
    <3>3. CASE c.val # 0 /\ c.val < 0
      <4>1. p = SizedHeader(r, c.off, c.val)
        BY <1>8, <3>3 DEF Positioned, NextBlock, c
      <4>2. \A off, e : /\ Fail(sized, off, e).err = e /\ ~Fail(sized, off, e).done
                        /\ Fail(placed, off, e).err = e /\ ~Fail(placed, off, e).done
        BY <1>5 DEF Fail, placed, Readers
      <4>3. [placed EXCEPT !.off = size.off, !.remaining = Wrap(-c.val)].err = "none"
        BY <1>5
      <4> HIDE DEF p
      <4>4. \/ p = Fail(sized, c.off, "overflow")
            \/ p = Fail(sized, size.off, UnexpectedEOF(size.err)) /\ size.err # "none"
            \/ p = Fail(sized, size.off, "negativeLength")
            \/ p = Fail(placed, size.off, "overflow")
            \/ p = [placed EXCEPT !.off = size.off, !.remaining = Wrap(-c.val)]
        BY <4>1 DEF SizedHeader, size, sized, placed
      <4>5. CASE p = Fail(sized, c.off, "overflow")
        BY <4>2, <4>5
      <4>6. CASE p = Fail(sized, size.off, UnexpectedEOF(size.err)) /\ size.err # "none"
        BY <4>2, <4>6
      <4>7. CASE p = Fail(sized, size.off, "negativeLength")
        BY <4>2, <4>7
      <4>8. CASE p = Fail(placed, size.off, "overflow")
        BY <4>2, <4>8
      <4> QED
        BY <4>3, <4>4, <4>5, <4>6, <4>7, <4>8
    <3> HIDE DEF p
    <3> QED
      BY <3>1, <3>2, <3>3
  <2> HIDE DEF p
  <2>3. p.err \notin {"eof", "truncatedArray"} /\ SaysEnd(p.err)
    BY <1>4, <2>2 DEF UnexpectedEOF, SaysEnd, EndOfInput
  <2> QED
    BY <2>1, <2>2, <2>3 DEF p
<1> QED
  BY <1>6, <1>7, <1>8

(***************************************************************************)
(* What an error that a call of Next or SkipBlock leaves in q says of the  *)
(* stream r stood on.                                                      *)
(***************************************************************************)
Told(r, q) ==
  q.err \in EndOfInput =>
    /\ q.err = "truncatedArray" <=> end # "fault" /\ r.remaining = 0 /\ r.off = Len(wire)
    /\ q.err = "eof" => q.remaining > 0
    /\ q.err = "source" <=> end = "fault"

\* A reader that failed keeps its place in the array.
LEMMA FailFields ==
  ASSUME NEW r \in Readers, NEW off, NEW e
  PROVE  Fail(r, off, e).err = e /\ Fail(r, off, e).remaining = r.remaining
BY DEF Fail, Readers

\* The reader as it was positioned is told the truth, and found more than
\* the end if it is in a block.
LEMMA PositionedTold ==
  ASSUME StreamTypeOK, NEW r, Standing(r), r.err = "none", ~r.done
  PROVE  LET p == Positioned(r)
         IN  /\ Standing(p) /\ p \in Readers /\ p.off \in 0 .. Len(wire)
             /\ Told(r, p)
             /\ InBlock(p) => p.remaining > 0 /\ ~(end # "fault" /\ r.remaining = 0 /\ r.off = Len(wire))
<1> DEFINE p == Positioned(r)
<1>1. Standing(p) /\ (InBlock(p) => p.remaining > 0)
  BY PositionedStands
<1>2. /\ SaysEnd(p.err) /\ p.err # "eof"
      /\ p.err = "truncatedArray" <=> end # "fault" /\ r.remaining = 0 /\ r.off = Len(wire)
  BY PositionedErrors
<1> HIDE DEF p
<1>3. Told(r, p)
  BY <1>2 DEF Told, SaysEnd
<1> QED
  BY <1>1, <1>2, <1>3 DEF Standing, InBlock, p

LEMMA DecodeNextTold ==
  ASSUME StreamTypeOK, NEW r, Standing(r), r.err = "none", ~r.done
  PROVE  Told(r, DecodeNext(r).rd)
<1> DEFINE p == Positioned(r)
           item == Unmarshal(p.off)
           after == [p EXCEPT !.off = item.off, !.remaining = @ - 1]
           q == DecodeNext(r).rd
<1>1. /\ Standing(p) /\ p \in Readers /\ p.off \in 0 .. Len(wire)
      /\ Told(r, p)
      /\ InBlock(p) => p.remaining > 0 /\ ~(end # "fault" /\ r.remaining = 0 /\ r.off = Len(wire))
  BY PositionedTold
<1>2. item.err # "truncatedArray" /\ SaysEnd(item.err)
  BY <1>1, UnmarshalErrors
<1> HIDE DEF p, item
<1>3. CASE ~InBlock(p)
  <2>1. q = p
    BY <1>3 DEF DecodeNext, NoItem, p
  <2> QED
    BY <1>1, <2>1
<1>4. CASE InBlock(p) /\ item.err # "none"
  <2>1. q = Fail(p, item.off, item.err)
    BY <1>4 DEF DecodeNext, NoItem, p, item
  <2>2. q.err = item.err /\ q.remaining = p.remaining
    BY <1>1, <2>1, FailFields
  <2> HIDE DEF q
  <2>3. Told(r, q)
    BY <1>1, <1>2, <1>4, <2>2 DEF Told, SaysEnd
  <2> QED
    BY <2>3 DEF q
<1>5. CASE InBlock(p) /\ item.err = "none" /\ SizeWrong(after)
  <2>1. q = Fail(after, after.off, "blockSizeMismatch")
    BY <1>5 DEF DecodeNext, NoItem, p, item
  <2>2. q.err = "blockSizeMismatch"
    BY <1>1, <2>1 DEF Fail, Readers
  <2> HIDE DEF q
  <2>3. Told(r, q)
    BY <2>2 DEF Told, EndOfInput
  <2> QED
    BY <2>3 DEF q
<1>6. CASE InBlock(p) /\ item.err = "none" /\ ~SizeWrong(after)
  <2>1. q = after
    BY <1>6 DEF DecodeNext, p, item
  <2>2. q.err = "none"
    BY <1>1, <1>6, <2>1 DEF InBlock, Readers
  <2> HIDE DEF q
  <2>3. Told(r, q)
    BY <2>2 DEF Told, EndOfInput
  <2> QED
    BY <2>3 DEF q
<1> QED
  BY <1>3, <1>4, <1>5, <1>6

LEMMA DiscardBlockTold ==
  ASSUME StreamTypeOK, NEW r, Standing(r), r.err = "none", ~r.done
  PROVE  Told(r, DiscardBlock(r).rd)
<1> DEFINE p == Positioned(r)
           n == Unread(p)
           rest == Discard(wire, end, p.off, n)
           q == DiscardBlock(r).rd
<1>1. /\ Standing(p) /\ p \in Readers /\ p.off \in 0 .. Len(wire)
      /\ Told(r, p)
      /\ InBlock(p) => p.remaining > 0 /\ ~(end # "fault" /\ r.remaining = 0 /\ r.off = Len(wire))
  BY PositionedTold
<1>2. rest.err = "none" \/ rest.err = IF end = "fault" THEN "source" ELSE "unexpectedEOF"
  BY DEF Discard, Result
<1> HIDE DEF p, n, rest
<1>3. CASE ~InBlock(p) \/ ~p.sized
  <2>1. q = p
    BY <1>3 DEF DiscardBlock, NoItem, p
  <2> QED
    BY <1>1, <2>1
<1>4. CASE ~(~InBlock(p) \/ ~p.sized) /\ n < 0
  <2>1. q = Fail(p, p.off, "blockSizeMismatch")
    BY <1>4 DEF DiscardBlock, NoItem, p, n
  <2>2. q.err = "blockSizeMismatch"
    BY <1>1, <2>1, FailFields
  <2> HIDE DEF q
  <2>3. Told(r, q)
    BY <2>2 DEF Told, EndOfInput
  <2> QED
    BY <2>3 DEF q
<1>5. CASE ~(~InBlock(p) \/ ~p.sized) /\ ~(n < 0) /\ rest.err # "none"
  <2>1. q = Fail(p, rest.off, rest.err)
    BY <1>5 DEF DiscardBlock, NoItem, p, n, rest
  <2>2. q.err = rest.err
    BY <1>1, <2>1, FailFields
  <2> HIDE DEF q
  <2>3. Told(r, q)
    BY <1>1, <1>2, <1>5, <2>2 DEF Told, EndOfInput
  <2> QED
    BY <2>3 DEF q
<1>6. CASE ~(~InBlock(p) \/ ~p.sized) /\ ~(n < 0) /\ rest.err = "none"
  <2>1. q = Skipped(p, rest.off)
    BY <1>6 DEF DiscardBlock, NoItem, p, n, rest
  <2>2. q.err = "none"
    BY <1>1, <1>6, <2>1 DEF Skipped, InBlock, Readers
  <2> HIDE DEF q
  <2>3. Told(r, q)
    BY <2>2 DEF Told, EndOfInput
  <2> QED
    BY <2>3 DEF q
<1> QED
  BY <1>3, <1>4, <1>5, <1>6

-----------------------------------------------------------------------------
(***************************************************************************)
(* The second caller's reader keeps its type; the first one's too.         *)
(***************************************************************************)
CallersInv == ReaderInv /\ Standing(drain)

LEMMA InitCallers == Init => CallersInv
<1> SUFFICES ASSUME Init PROVE CallersInv
  OBVIOUS
<1>1. StreamTypeOK
  BY BytesAssumption, BoundedSeqType DEF Init, StreamTypeOK
<1>2. 0 \in Long /\ Len(wire) \in Nat
  BY <1>1, HalfIsPositive DEF Long, StreamTypeOK
<1>3. rd = NewReader(0) /\ drain = NewReader(0) /\ passed = 0 /\ yielded = << >>
  BY DEF Init, ReaderInit
<1>4. Standing(rd) /\ Standing(drain) /\ Aligned(rd)
  BY <1>2, <1>3 DEF NewReader, Standing, Readers, ReaderErrors, Aligned
<1> QED
  BY <1>1, <1>3, <1>4 DEF CallersInv, ReaderInv, ReaderTypeOK, Standing

LEMMA NextCallers == CallersInv /\ [Next]_vars => CallersInv'
<1> SUFFICES ASSUME CallersInv, [Next]_vars PROVE CallersInv'
  OBVIOUS
<1>1. ReaderInv /\ Standing(drain) /\ StreamTypeOK
  BY DEF CallersInv, ReaderInv
<1>2. UNCHANGED streamVars
  BY DEF Next, Drain, ReadAgain, vars
<1>3. CASE Drain
  <2>1. Standing(DecodeNext(drain).rd)
    BY <1>1, <1>3, DecodeNextStands DEF Drain, Answered
  <2>2. Standing(drain)'
    BY <1>2, <1>3, <2>1 DEF Drain, Standing, streamVars
  <2>3. ReaderInv'
    BY <1>1, <1>3 DEF Drain, streamVars, readerVars, ReaderInv, StreamTypeOK, ReaderTypeOK,
                      Standing, Aligned, InBlock
  <2> QED
    BY <2>2, <2>3 DEF CallersInv
<1>4. CASE ReadAgain
  <2>1. ReaderInv'
    BY <1>1, <1>2, <1>4, ReadItemKeeps, SkipBlockKeeps DEF ReadAgain, ReaderNext
  <2> QED
    BY <1>1, <1>2, <1>4, <2>1 DEF ReadAgain, CallersInv, Standing, streamVars
<1>5. CASE UNCHANGED vars
  BY <1>1, <1>5 DEF vars, streamVars, readerVars, CallersInv, ReaderInv, StreamTypeOK,
                    ReaderTypeOK, Standing, Aligned, InBlock
<1> QED
  BY <1>3, <1>4, <1>5 DEF Next

LEMMA StepIsTold ==
  ASSUME CallersInv, Next, RunsOut
  PROVE  /\ rd'.err = "truncatedArray" <=>
              (end = "eof" /\ rd.remaining = 0 /\ rd.off = Len(wire))
         /\ rd'.err = "eof" => rd'.remaining > 0
         /\ rd'.err = "source" <=> end = "fault"
<1>1. StreamTypeOK /\ Standing(rd) /\ rd.err = "none" /\ rd'.err \in EndOfInput
  BY DEF CallersInv, ReaderInv, RunsOut
<1>2. rd' # rd /\ ReadAgain
  <2>1. rd' # rd
    BY <1>1 DEF EndOfInput
  <2> QED
    BY <2>1 DEF Next, Drain, readerVars
<1>3. ~rd.done
  BY <1>2 DEF ReadAgain, ReaderNext, ReadItem, SkipBlock, Answered
<1>4. Told(rd, rd') /\ end # "open"
  <2>1. CASE ReadItem
    BY <1>1, <1>3, <2>1, DecodeNextTold DEF ReadItem, Waiting
  <2>2. CASE SkipBlock
    BY <1>1, <1>3, <2>2, DiscardBlockTold DEF SkipBlock, Waiting
  <2> QED
    BY <1>2, <2>1, <2>2 DEF ReadAgain, ReaderNext
<1>5. end \in {"eof", "fault"}
  BY <1>1, <1>4 DEF StreamTypeOK, Ends
<1> QED
  BY <1>1, <1>4, <1>5 DEF Told

(***************************************************************************)
(* Whatever the bytes, and whatever calls came before, an ArrayReader that *)
(* runs out of them tells a missing end of the array from a cut inside the *)
(* framing (array.go:197), a cut inside an item, and a failing source.     *)
(***************************************************************************)
THEOREM CutsAreToldApart == Spec => CutsAreTold
<1>1. CallersInv /\ [Next]_vars
        => [RunsOut =>
             /\ rd'.err = "truncatedArray" <=>
                  (end = "eof" /\ rd.remaining = 0 /\ rd.off = Len(wire))
             /\ rd'.err = "eof" => rd'.remaining > 0
             /\ rd'.err = "source" <=> end = "fault"]_vars
  BY StepIsTold
<1> QED
  BY <1>1, InitCallers, NextCallers, PTL DEF Spec, CutsAreTold

-----------------------------------------------------------------------------
(***************************************************************************)
(* The way of the first caller.  While the stream stays as it is, so do    *)
(* the calls on it.                                                        *)
(***************************************************************************)
LEMMA SameCalls ==
  ASSUME UNCHANGED streamVars, NEW r
  PROVE  Positioned(r)' = Positioned(r) /\ DecodeNext(r)' = DecodeNext(r)
<1>1. wire' = wire /\ end' = end /\ nulls' = nulls
  BY DEF streamVars
<1>2. \A x, off, count : SizedHeader(x, off, count)' = SizedHeader(x, off, count)
  BY <1>1 DEF SizedHeader
<1>3. \A x : NextBlock(x)' = NextBlock(x)
  BY <1>1, <1>2 DEF NextBlock
<1>4. \A x : Positioned(x)' = Positioned(x)
  BY <1>3 DEF Positioned
<1>5. \A off : Unmarshal(off)' = Unmarshal(off)
  BY <1>1 DEF Unmarshal
<1> DEFINE After(p, item) == [p EXCEPT !.off = item.off, !.remaining = @ - 1]
           Decoded(p, item) ==
             IF ~InBlock(p) THEN NoItem(p)
             ELSE IF item.err # "none" THEN NoItem(Fail(p, item.off, item.err))
             ELSE IF SizeWrong(After(p, item))
                  THEN NoItem(Fail(After(p, item), After(p, item).off, "blockSizeMismatch"))
             ELSE [rd |-> After(p, item), ok |-> TRUE, val |-> item.val, skipped |-> 0]
<1>6. \A x : DecodeNext(x) = Decoded(Positioned(x), Unmarshal(Positioned(x).off))
  BY DEF DecodeNext
<1>7. \A x : DecodeNext(x)' = Decoded(Positioned(x), Unmarshal(Positioned(x).off))'
  BY DEF DecodeNext
<1> HIDE DEF Decoded
<1>8. DecodeNext(r)' = DecodeNext(r)
  BY <1>4, <1>5, <1>6, <1>7
<1> QED
  BY <1>4, <1>8

\* Next, on a reader in a block: it takes an item and comes nearer to the
\* end of the block, where a sized block has to be used up, or it fails.
LEMMA DecodeInBlock ==
  ASSUME StreamTypeOK, NEW r, Standing(r), InBlock(Positioned(r)), r.err = "none"
  PROVE  LET p == Positioned(r)
             q == DecodeNext(r).rd
         IN  \/ q.err # "none" /\ ~q.done
             \/ /\ q = [p EXCEPT !.off = q.off, !.remaining = p.remaining - 1]
                /\ q.off \in p.off .. Len(wire)
                /\ (p.sized /\ p.remaining = 1) => q.off = p.blockEnd
<1> DEFINE p == Positioned(r)
           item == Unmarshal(p.off)
           after == [p EXCEPT !.off = item.off, !.remaining = @ - 1]
           q == DecodeNext(r).rd
<1>1. Standing(p) /\ p.remaining > 0 /\ InBlock(p)
  BY PositionedStands
<1>2. p \in Readers /\ p.off \in 0 .. Len(wire) /\ p.err = "none" /\ ~p.done
  BY <1>1 DEF Standing, InBlock
<1>3. item.off \in p.off .. Len(wire)
  BY <1>2, UnmarshalResult DEF Consumed
<1>4. Len(wire) \in Nat /\ p.off \in Nat /\ p.remaining \in Nat
  BY <1>2 DEF StreamTypeOK, Readers
<1>5. item.off \in Nat /\ p.remaining - 1 \in Nat
  BY <1>1, <1>3, <1>4
<1> HIDE DEF p, item
<1>6. CASE item.err # "none"
  <2>1. q = Fail(p, item.off, item.err)
    BY <1>1, <1>6 DEF DecodeNext, NoItem, p, item
  <2>2. q.err = item.err /\ q.done = p.done
    BY <1>2, <2>1 DEF Fail, Readers
  <2> HIDE DEF q
  <2> QED
    BY <1>2, <1>6, <2>2 DEF q
<1>7. CASE item.err = "none" /\ SizeWrong(after)
  <2>1. q = Fail(after, after.off, "blockSizeMismatch")
    BY <1>1, <1>7 DEF DecodeNext, NoItem, p, item
  <2>2. q.err = "blockSizeMismatch" /\ q.done = p.done
    BY <1>2, <2>1 DEF Fail, Readers
  <2> HIDE DEF q
  <2>3. q.err # "none" /\ ~q.done
    BY <1>2, <2>2
  <2> QED
    BY <2>3 DEF q
<1>8. CASE item.err = "none" /\ ~SizeWrong(after)
  <2>1. q = after
    BY <1>1, <1>8 DEF DecodeNext, p, item
  <2>2. after.off = item.off /\ after.remaining = p.remaining - 1
        /\ after.sized = p.sized /\ after.blockEnd = p.blockEnd
    BY <1>2 DEF Readers
  <2>3. after = [p EXCEPT !.off = item.off, !.remaining = p.remaining - 1]
    OBVIOUS
  <2> HIDE DEF q, after
  <2>4. (p.sized /\ p.remaining = 1) => q.off = p.blockEnd
    BY <1>4, <1>8, <2>1, <2>2 DEF SizeWrong
  <2>5. q = [p EXCEPT !.off = q.off, !.remaining = p.remaining - 1] /\ q.off \in p.off .. Len(wire)
    BY <1>3, <2>1, <2>2, <2>3
  <2> QED
    BY <2>4, <2>5 DEF q, p
<1> QED
  BY <1>6, <1>7, <1>8

\* A reader that is in a block is there already: a call begins right there.
LEMMA PositionedAgain ==
  ASSUME StreamTypeOK, NEW r, Standing(r), r.err = "none", InBlock(Positioned(r))
  PROVE  LET p == Positioned(r)
         IN  /\ Standing(p) /\ p.err = "none" /\ p.remaining > 0
             /\ Positioned(p) = p /\ DecodeNext(p) = DecodeNext(r)
             /\ DiscardBlock(p) = DiscardBlock(r)
<1> DEFINE p == Positioned(r)
<1>1. Standing(p) /\ p.remaining > 0 /\ p.err = "none"
  BY PositionedStands DEF InBlock
<1>2. p.remaining # 0
  BY <1>1 DEF Standing, Readers
<1>3. Positioned(p) = p
  BY <1>2 DEF Positioned
<1> HIDE DEF p
<1>4. DecodeNext(p) = DecodeNext(r)
  BY <1>3 DEF DecodeNext, p
<1>5. DiscardBlock(p) = DiscardBlock(r)
  BY <1>3 DEF DiscardBlock, p
<1> QED
  BY <1>1, <1>3, <1>4, <1>5 DEF p

(***************************************************************************)
(* The readers of a caller who decodes every item, from the first on.      *)
(***************************************************************************)
Path(f) ==
  /\ f \in Seq(Readers) /\ Len(f) > 0
  /\ f[1] = NewReader(0)
  /\ \A i \in 1 .. Len(f) : Standing(f[i]) /\ (f[i].done => f[i].err = "none")
  /\ \A i \in 1 .. Len(f) - 1 : ~Answered(f[i]) /\ f[i + 1] = DecodeNext(f[i]).rd

\* A reader that is there, or has only read the header of the next block.
On(f, r) ==
  \/ \E i \in 1 .. Len(f) : r = f[i]
  \/ \E i \in 1 .. Len(f) - 1 : r = Positioned(f[i])

\* A reader that ends the array does not fail.
LEMMA DecodedIsDone ==
  ASSUME StreamTypeOK, NEW r, Standing(r), ~Answered(r)
  PROVE  DecodeNext(r).rd.done => DecodeNext(r).rd.err = "none"
<1> DEFINE p == Positioned(r)
           q == DecodeNext(r).rd
<1>1. r.err = "none" /\ ~r.done
  BY DEF Answered
<1>2. CASE InBlock(p)
  <2>1. Standing(p)
    BY <1>1, PositionedStands
  <2>2. p \in Readers /\ ~p.done /\ p.err = "none"
    BY <1>2, <2>1 DEF Standing, InBlock
  <2>3. \/ q.err # "none" /\ ~q.done
        \/ q = [p EXCEPT !.off = q.off, !.remaining = p.remaining - 1]
    BY <1>1, <1>2, DecodeInBlock
  <2> HIDE DEF p
  <2> QED
    BY <2>2, <2>3 DEF Readers
<1>3. CASE ~InBlock(p)
  <2>1. q = p
    BY <1>3 DEF DecodeNext, NoItem
  <2> QED
    BY <1>1, <2>1, PositionedErrors
<1> QED
  BY <1>2, <1>3

\* The first caller goes one call further.
LEMMA PathGoesOn ==
  ASSUME StreamTypeOK, NEW f, Path(f), ~Answered(f[Len(f)])
  PROVE  Path(Append(f, DecodeNext(f[Len(f)]).rd))
<1> DEFINE n == Len(f)
           q == DecodeNext(f[n]).rd
           g == Append(f, q)
<1>1. f \in Seq(Readers) /\ n \in Nat /\ n > 0 /\ n \in 1 .. n
  BY DEF Path
<1>2. Standing(f[n]) /\ f[n].err = "none"
  BY <1>1 DEF Path, Answered
<1>3. Standing(q) /\ (q.done => q.err = "none")
  BY <1>2, DecodeNextStands, DecodedIsDone
<1>4. q \in Readers
  BY <1>3 DEF Standing
<1> HIDE DEF q, n
<1>5. /\ g \in Seq(Readers) /\ Len(g) = n + 1
      /\ \A i \in 1 .. n : g[i] = f[i]
      /\ g[n + 1] = q
  BY <1>1, <1>4 DEF n
<1> HIDE DEF g
<1>6. g[1] = NewReader(0)
  BY <1>1, <1>5 DEF Path
<1>7. ASSUME NEW i \in 1 .. Len(g)
      PROVE  Standing(g[i]) /\ (g[i].done => g[i].err = "none")
  <2>1. CASE i \in 1 .. n
    BY <1>5, <2>1 DEF Path, n
  <2>2. CASE i = n + 1
    BY <1>3, <1>5, <2>2
  <2> QED
    BY <1>1, <1>5, <2>1, <2>2
<1>8. ASSUME NEW i \in 1 .. Len(g) - 1
      PROVE  ~Answered(g[i]) /\ g[i + 1] = DecodeNext(g[i]).rd
  <2>1. CASE i \in 1 .. n - 1
    <3>1. g[i] = f[i] /\ g[i + 1] = f[i + 1]
      BY <1>1, <1>5, <2>1
    <3> QED
      BY <2>1, <3>1 DEF Path, n
  <2>2. CASE i = n
    BY <1>1, <1>5, <2>2 DEF q, n
  <2> QED
    BY <1>1, <1>5, <2>1, <2>2
<1>9. Len(g) > 0
  BY <1>1, <1>5
<1>10. Path(g)
  BY <1>5, <1>6, <1>7, <1>8, <1>9 DEF Path
<1> QED
  BY <1>10 DEF g, q, n

(***************************************************************************)
(* Of a sized block the first caller decodes item by item, and is then     *)
(* where the block should end.                                             *)
(***************************************************************************)
LEMMA BlockIsOnPath ==
  ASSUME StreamTypeOK, NEW f, Path(f), f[Len(f)].done,
         NEW i \in 1 .. Len(f) - 1, InBlock(Positioned(f[i])), Positioned(f[i]).sized
  PROVE  LET p == Positioned(f[i])
         IN  /\ i + p.remaining \in 1 .. Len(f)
             /\ f[i + p.remaining] = Skipped(p, p.blockEnd)
             /\ p.blockEnd \in p.off .. Len(wire)
<1> DEFINE p == Positioned(f[i])
           m == p.remaining
           Good(k) == /\ i + k \in 1 .. Len(f)
                      /\ f[i + k] = [p EXCEPT !.off = f[i + k].off, !.remaining = m - k]
                      /\ f[i + k].off \in p.off .. Len(wire)
                      /\ k = m => f[i + k].off = p.blockEnd
<1>1. f \in Seq(Readers) /\ Len(f) \in Nat /\ Len(wire) \in Nat /\ i \in Nat /\ i + 1 \in 1 .. Len(f)
  BY DEF Path, StreamTypeOK
<1>2. /\ Standing(f[i]) /\ f[i].err = "none"
      /\ i \in 1 .. Len(f)
  BY <1>1 DEF Path, Answered
<1>3. Standing(p) /\ m > 0 /\ InBlock(p) /\ p.sized
  BY <1>2, PositionedStands
<1>4. p \in Readers /\ m \in Nat /\ p.off \in Nat /\ p.err = "none" /\ ~p.done
  BY <1>3 DEF Standing, InBlock, Readers
\* What DecodeInBlock says of a call in the block, which does not fail.
<1>5. ASSUME NEW j \in 1 .. Len(f) - 1, InBlock(Positioned(f[j]))
      PROVE  LET x == Positioned(f[j])
             IN  /\ f[j + 1] = [x EXCEPT !.off = f[j + 1].off, !.remaining = x.remaining - 1]
                 /\ f[j + 1].off \in x.off .. Len(wire)
                 /\ (x.sized /\ x.remaining = 1) => f[j + 1].off = x.blockEnd
  <2> DEFINE x == Positioned(f[j])
  <2>1. /\ Standing(f[j]) /\ f[j].err = "none" /\ f[j + 1] = DecodeNext(f[j]).rd
        /\ j + 1 \in 1 .. Len(f) /\ j \in 1 .. Len(f)
    BY <1>1, <1>5 DEF Path, Answered
  <2>2. ~(f[j + 1].err # "none" /\ ~f[j + 1].done)
    <3>1. CASE j + 1 = Len(f)
      BY <3>1
    <3>2. CASE j + 1 # Len(f)
      <4>1. j + 1 \in 1 .. Len(f) - 1
        BY <1>1, <2>1, <3>2
      <4> QED
        BY <4>1 DEF Path, Answered
    <3> QED
      BY <3>1, <3>2
  <2>3. \/ f[j + 1].err # "none" /\ ~f[j + 1].done
        \/ /\ f[j + 1] = [x EXCEPT !.off = f[j + 1].off, !.remaining = x.remaining - 1]
           /\ f[j + 1].off \in x.off .. Len(wire)
           /\ (x.sized /\ x.remaining = 1) => f[j + 1].off = x.blockEnd
    BY <1>5, <2>1, DecodeInBlock
  <2> QED
    BY <2>2, <2>3
<1> HIDE DEF p
<1>6. \A k \in 1 .. m : Good(k)
  <2> DEFINE T == {k \in 1 .. m : ~Good(k)}
  <2> SUFFICES ASSUME T # {} PROVE FALSE
    OBVIOUS
  <2>1. T \in SUBSET Nat
    <3> HIDE DEF Good
    <3> QED
      BY <1>4
  <2>2. PICK k \in T : \A j \in T : k <= j
    BY <2>1, MinOfNats
  <2>3. k \in 1 .. m /\ ~Good(k)
    OBVIOUS
  <2> HIDE DEF T
  <2>4. CASE k = 1
    <3>1. /\ f[i + 1] = [p EXCEPT !.off = f[i + 1].off, !.remaining = m - 1]
          /\ f[i + 1].off \in p.off .. Len(wire)
          /\ (p.sized /\ m = 1) => f[i + 1].off = p.blockEnd
      BY <1>5, <1>3 DEF p
    <3> QED
      BY <1>1, <1>3, <2>3, <2>4, <3>1
  <2>5. CASE k # 1
    <3> DEFINE h == k - 1
               x == f[i + h]
    <3>1. h \in 1 .. m /\ k = h + 1 /\ ~(k <= h) /\ h \in Nat /\ h < m
      BY <1>4, <2>3, <2>5, SMTT(30)
    <3>2. Good(h)
      <4> HIDE DEF Good
      <4> QED
        BY <2>2, <3>1 DEF T
    <3> HIDE DEF h
    <3>3. i + h \in 1 .. Len(f) /\ x.off \in p.off .. Len(wire)
          /\ x = [p EXCEPT !.off = x.off, !.remaining = m - h]
      BY <3>2
    <3> HIDE DEF x
    <3>4. /\ x.remaining = m - h /\ x.err = "none" /\ ~x.done
          /\ x.sized = p.sized /\ x.blockEnd = p.blockEnd
      BY <1>4, <3>3 DEF Readers
    <3>5. x.remaining # 0 /\ x.remaining - 1 = m - k
      BY <1>4, <3>1, <3>4
    <3>6. Positioned(x) = x /\ InBlock(x)
      BY <3>4, <3>5 DEF Positioned, InBlock
    <3>7. i + h \in 1 .. Len(f) - 1 /\ (i + h) + 1 = i + k
      <4>1. i + h # Len(f)
        BY <3>4 DEF x
      <4> QED
        BY <1>1, <3>1, <3>3, <4>1
    <3> DEFINE y == f[i + k]
    <3>8. /\ y = [x EXCEPT !.off = y.off, !.remaining = x.remaining - 1]
          /\ y.off \in x.off .. Len(wire)
          /\ (x.sized /\ x.remaining = 1) => y.off = x.blockEnd
      BY <1>5, <3>6, <3>7 DEF x
    <3>9. i + k \in 1 .. Len(f)
      BY <1>1, <3>7
    <3> HIDE DEF y
    <3>10. y = [p EXCEPT !.off = y.off, !.remaining = m - k]
      <4>1. [[p EXCEPT !.off = x.off, !.remaining = m - h] EXCEPT !.off = y.off, !.remaining = m - k]
              = [p EXCEPT !.off = y.off, !.remaining = m - k]
        BY <1>4 DEF Readers
      <4> QED
        BY <3>3, <3>5, <3>8, <4>1
    <3>11. y.off \in p.off .. Len(wire)
      BY <1>1, <1>4, <3>3, <3>8
    <3>12. k = m => y.off = p.blockEnd
      BY <1>3, <1>4, <3>1, <3>4, <3>8
    <3> QED
      BY <2>3, <3>9, <3>10, <3>11, <3>12 DEF y
  <2> QED
    BY <2>4, <2>5
<1>7. m \in 1 .. m
  BY <1>3, <1>4
<1>8. Good(m)
  BY <1>6, <1>7
<1>9. m - m = 0
  BY <1>4
<1>10. f[i + m] = Skipped(p, p.blockEnd)
  BY <1>8, <1>9 DEF Skipped
<1> QED
  BY <1>8, <1>10 DEF p

(***************************************************************************)
(* So a caller who skips stays on the way of the first one.                *)
(***************************************************************************)
LEMMA CallsStayOnPath ==
  ASSUME StreamTypeOK, NEW f, Path(f), f[Len(f)].done, NEW r, On(f, r), ~Answered(r)
  PROVE  On(f, DecodeNext(r).rd) /\ On(f, DiscardBlock(r).rd)
<1>1. f \in Seq(Readers) /\ Len(f) \in Nat /\ Len(wire) \in Nat
  BY DEF Path, StreamTypeOK
\* Somewhere before the last of the readers.
<1>2. PICK i \in 1 .. Len(f) - 1 : r = f[i] \/ r = Positioned(f[i])
  <2>1. CASE \E j \in 1 .. Len(f) : r = f[j]
    <3>1. PICK j \in 1 .. Len(f) : r = f[j]
      BY <2>1
    <3>2. j # Len(f)
      BY <3>1 DEF Answered
    <3>3. j \in 1 .. Len(f) - 1
      BY <1>1, <3>2
    <3> QED
      BY <3>1, <3>3
  <2> QED
    BY <2>1 DEF On
<1> DEFINE p == Positioned(f[i])
<1>3. i + 1 \in 1 .. Len(f) /\ i \in 1 .. Len(f)
  BY <1>1
<1>4. /\ Standing(f[i]) /\ ~Answered(f[i]) /\ f[i].err = "none"
      /\ f[i + 1] = DecodeNext(f[i]).rd
  BY <1>3 DEF Path, Answered
<1>5. On(f, p) /\ On(f, f[i + 1])
  BY <1>3 DEF On
<1>6. CASE ~InBlock(p)
  <2>1. r = f[i]
    BY <1>2, <1>6 DEF InBlock, Answered
  <2>2. DecodeNext(r).rd = p /\ DiscardBlock(r).rd = p
    BY <1>6, <2>1 DEF DecodeNext, DiscardBlock, NoItem
  <2> QED
    BY <1>5, <2>2
<1>7. CASE InBlock(p)
  <2>1. /\ Standing(p) /\ p.remaining > 0
        /\ DecodeNext(r) = DecodeNext(f[i]) /\ DiscardBlock(r) = DiscardBlock(f[i])
    BY <1>2, <1>4, <1>7, PositionedAgain
  <2>2. On(f, DecodeNext(r).rd)
    BY <1>4, <1>5, <2>1
  <2>3. CASE ~p.sized
    <3>1. DiscardBlock(f[i]).rd = p
      BY <2>3 DEF DiscardBlock, NoItem
    <3> QED
      BY <1>5, <2>1, <2>2, <3>1
  <2>4. CASE p.sized
    <3> DEFINE n == Unread(p)
               rest == Discard(wire, end, p.off, n)
    <3>1. /\ i + p.remaining \in 1 .. Len(f)
          /\ f[i + p.remaining] = Skipped(p, p.blockEnd)
          /\ p.blockEnd \in p.off .. Len(wire)
      BY <1>7, <2>4, BlockIsOnPath
    <3> HIDE DEF p
    <3>2. p.off \in Nat
      BY <2>1 DEF Standing, Readers
    <3>3. n \in Nat /\ p.off + n = p.blockEnd /\ p.off + n <= Len(wire)
      BY <1>1, <3>1, <3>2 DEF Unread
    <3> HIDE DEF n
    <3>4. rest = Result(p.blockEnd, "none", << >>)
      BY <3>3 DEF Discard
    <3>5. rest.err = "none" /\ rest.off = p.blockEnd
      BY <3>4 DEF Result
    <3> HIDE DEF rest
    <3>6. DiscardBlock(f[i]) = [NoItem(Skipped(p, rest.off)) EXCEPT !.skipped = p.remaining]
      BY <1>7, <2>4, <3>3, <3>5 DEF DiscardBlock, p, n, rest
    <3>7. DiscardBlock(f[i]).rd = Skipped(p, p.blockEnd)
      BY <3>5, <3>6 DEF NoItem
    <3>8. On(f, Skipped(p, p.blockEnd))
      BY <3>1 DEF On
    <3> QED
      BY <2>1, <2>2, <3>7, <3>8
  <2> QED
    BY <2>3, <2>4
<1> QED
  BY <1>6, <1>7

(***************************************************************************)
(* The invariant: drain is how far the first caller has come, the second   *)
(* one waits, and then stays on the way if that led to the array's end.    *)
(***************************************************************************)
FollowsPath(f) ==
  /\ Path(f) /\ drain = f[Len(f)]
  /\ ~Answered(drain) => rd = NewReader(0)
  /\ drain.done => On(f, rd)

SkipInv == CallersInv /\ \E f : FollowsPath(f)

LEMMA InitSkips == Init => SkipInv
<1> SUFFICES ASSUME Init PROVE SkipInv
  OBVIOUS
<1>1. CallersInv
  BY InitCallers
<1>2. drain = NewReader(0) /\ rd = NewReader(0)
  BY DEF Init, ReaderInit
<1>3. Standing(drain) /\ drain \in Readers
  BY <1>1 DEF CallersInv, Standing
<1> DEFINE f == <<drain>>
<1>4. f \in Seq(Readers) /\ Len(f) = 1 /\ f[1] = drain
  BY <1>3
<1>5. ~drain.done
  BY <1>2 DEF NewReader
<1> HIDE DEF f
<1>6. Path(f)
  BY <1>2, <1>3, <1>4, <1>5 DEF Path
<1>7. FollowsPath(f)
  BY <1>2, <1>4, <1>5, <1>6 DEF FollowsPath
<1> QED
  BY <1>1, <1>7 DEF SkipInv

LEMMA NextSkips == SkipInv /\ [Next]_vars => SkipInv'
<1> SUFFICES ASSUME SkipInv, [Next]_vars PROVE SkipInv'
  OBVIOUS
<1>1. CallersInv /\ CallersInv' /\ StreamTypeOK
  BY NextCallers DEF SkipInv, CallersInv, ReaderInv
<1>2. UNCHANGED streamVars
  BY DEF Next, Drain, ReadAgain, vars
<1>3. \A r : Positioned(r)' = Positioned(r) /\ DecodeNext(r)' = DecodeNext(r)
  BY <1>2, SameCalls
<1>4. \A r : Standing(r)' <=> Standing(r)
  BY <1>2 DEF Standing, streamVars
<1>5. \A f : Path(f)' <=> Path(f)
  BY <1>3, <1>4 DEF Path
<1>6. \A f, r : On(f, r)' <=> On(f, r)
  BY <1>3 DEF On
<1>7. PICK f : FollowsPath(f)
  BY DEF SkipInv
<1>8. f \in Seq(Readers) /\ Len(f) \in 1 .. Len(f) /\ f[1] = NewReader(0)
  BY <1>7 DEF FollowsPath, Path
<1>9. CASE Drain
  <2>0. PICK q, g : q = DecodeNext(f[Len(f)]).rd /\ g = Append(f, q)
    OBVIOUS
  <2>1. Path(g) /\ drain' = q /\ rd' = rd /\ rd = NewReader(0)
    BY <1>1, <1>7, <1>9, <2>0, PathGoesOn DEF FollowsPath, Drain, readerVars
  <2>2. g[Len(g)] = q /\ g[1] = f[1] /\ Len(g) > 0
    <3>1. g \in Seq(Readers) /\ Len(f) \in Nat /\ Len(f) > 0
      BY <1>8, <2>1 DEF Path
    <3>2. Len(Append(f, q)) = Len(f) + 1 /\ Append(f, q)[Len(f) + 1] = q /\ Append(f, q)[1] = f[1]
      BY <1>8, <3>1
    <3> QED
      BY <2>0, <3>1, <3>2
  <2>3. 1 \in 1 .. Len(g)
    BY <2>1 DEF Path
  <2>4. On(g, rd)
    BY <1>8, <2>1, <2>2, <2>3 DEF On
  <2>5. On(g, rd') /\ drain' = g[Len(g)] /\ rd' = NewReader(0)
    BY <2>1, <2>2, <2>4
  <2>6. FollowsPath(g)'
    BY <1>5, <1>6, <2>1, <2>5 DEF FollowsPath
  <2> QED
    BY <1>1, <2>6 DEF SkipInv
<1>10. CASE ReadAgain
  <2>1. drain' = drain /\ Answered(drain)
    BY <1>10 DEF ReadAgain
  <2>2. drain.done => On(f, rd')
    <3>1. ASSUME drain.done PROVE On(f, rd')
      <4>1. ~Answered(rd) /\ (rd' = DecodeNext(rd).rd \/ rd' = DiscardBlock(rd).rd)
        BY <1>10 DEF ReadAgain, ReaderNext, ReadItem, SkipBlock
      <4>2. f[Len(f)].done /\ On(f, rd) /\ Path(f)
        BY <1>7, <3>1 DEF FollowsPath
      <4> QED
        BY <1>1, <4>1, <4>2, CallsStayOnPath
    <3> QED
      BY <3>1
  <2>3. FollowsPath(f)'
    BY <1>5, <1>6, <1>7, <2>1, <2>2 DEF FollowsPath
  <2> QED
    BY <1>1, <2>3 DEF SkipInv
<1>11. CASE UNCHANGED vars
  <2>1. FollowsPath(f)'
    BY <1>5, <1>6, <1>7, <1>11 DEF FollowsPath, vars, readerVars
  <2> QED
    BY <1>1, <2>1 DEF SkipInv
<1> QED
  BY <1>9, <1>10, <1>11 DEF Next

LEMMA SkippingAgrees == SkipInv => SkippingAgreesWithDraining
<1> SUFFICES ASSUME SkipInv, drain.done
             PROVE  rd.err = "none" /\ (rd.done => rd.off = drain.off)
  BY DEF SkippingAgreesWithDraining
<1>1. PICK f : FollowsPath(f)
  BY DEF SkipInv
<1>2. StreamTypeOK /\ Path(f) /\ On(f, rd) /\ drain = f[Len(f)]
  BY <1>1 DEF SkipInv, CallersInv, ReaderInv, FollowsPath
<1>3. Len(f) \in Nat /\ \A i \in 1 .. Len(f) : i # Len(f) => i \in 1 .. Len(f) - 1
  BY <1>2 DEF Path
<1>4. \A i \in 1 .. Len(f) : f[i].err = "none" /\ (f[i].done => i = Len(f))
  BY <1>2, <1>3 DEF Path, Answered
<1>5. CASE \E i \in 1 .. Len(f) : rd = f[i]
  BY <1>2, <1>4, <1>5
<1>6. CASE \E i \in 1 .. Len(f) - 1 : rd = Positioned(f[i])
  <2>1. PICK i \in 1 .. Len(f) - 1 : rd = Positioned(f[i])
    BY <1>6
  <2>2. CASE InBlock(rd)
    BY <2>2 DEF InBlock
  <2>3. CASE ~InBlock(rd)
    <3>1. DecodeNext(f[i]).rd = rd
      BY <2>1, <2>3 DEF DecodeNext, NoItem
    <3>2. f[i + 1] = DecodeNext(f[i]).rd /\ i + 1 \in 1 .. Len(f)
      BY <1>2, <1>3, <2>1 DEF Path
    <3> QED
      BY <1>2, <1>4, <3>1, <3>2
  <2> QED
    BY <2>2, <2>3
<1> QED
  BY <1>2, <1>5, <1>6 DEF On

(***************************************************************************)
(* Where decoding every item ends the array without error, every mix of    *)
(* Next and SkipBlock does, and at the same byte (array.go:131): a size    *)
(* that decoding accepts is right for skipping, on whatever bytes.         *)
(***************************************************************************)
THEOREM SkippingIsFasterDraining == Spec => []SkippingAgreesWithDraining
BY InitSkips, NextSkips, SkippingAgrees, PTL DEF Spec

-----------------------------------------------------------------------------
(***************************************************************************)
(* Recursive functions, unfolded.                                          *)
(***************************************************************************)
\* What holds at 0, and at the successor of where it holds, holds at all n levels.
LEMMA UpTo ==
  ASSUME NEW n \in Nat, NEW S, 0 \in S, \A i \in 1 .. n : i - 1 \in S => i \in S
  PROVE  \A i \in 0 .. n : i \in S
<1> DEFINE T == {i \in 0 .. n : i \notin S}
<1> SUFFICES ASSUME T # {} PROVE FALSE
  OBVIOUS
<1>1. T \in SUBSET Nat
  OBVIOUS
<1> HIDE DEF T
<1>2. PICK m : m = Min(T)
  OBVIOUS
<1>3. m \in T /\ \A i \in T : m <= i
  BY <1>1, <1>2, MinOfNats
<1>4. m \in 0 .. n /\ m \notin S
  BY <1>3 DEF T
<1>5. m # 0
  BY <1>4
<1>6. m \in 1 .. n /\ m - 1 \in 0 .. n /\ ~(m <= m - 1)
  BY <1>4, <1>5
<1>7. m - 1 \notin T
  BY <1>3, <1>6
<1>8. m - 1 \in S
  BY <1>6, <1>7 DEF T
<1> QED BY <1>4, <1>6, <1>8

LEMMA LevelUnfolds ==
  \A n \in 0 .. MaxNesting :
    Level[n] = IF n = 0 THEN Leaves(ShortStrings)
               ELSE Leaves(ShortStrings) \cup Compound(ShortStrings, Level[n - 1])
<1> DEFINE L == MaxNesting
           body(n, x) == IF n = 0 THEN Leaves(ShortStrings)
                         ELSE Leaves(ShortStrings) \cup Compound(ShortStrings, x)
           Loop(f, m) == f = [n \in 0 .. m |-> body(n, f[n - 1])]
           path == CHOOSE f : Loop(f, L)
<1>1. L \in Nat
  BY LayoutsAssumption
<1>2. Level = path
  BY DEF Level
<1>3. \A x, y : body(0, x) = body(0, y)
  OBVIOUS
<1> HIDE DEF L, body
<1> DEFINE S == {m \in 0 .. L : \E f : Loop(f, m)}
<1>4. 0 \in S
  <2> DEFINE f0 == [n \in 0 .. 0 |-> body(0, 0)]
  <2>1. f0 = [n \in 0 .. 0 |-> body(n, f0[n - 1])]
    <3>1. \A n \in 0 .. 0 : n = 0
      OBVIOUS
    <3>2. \A n \in 0 .. 0 : body(0, 0) = body(n, f0[n - 1])
      <4> HIDE DEF f0
      <4> QED BY <1>3, <3>1
    <3> HIDE DEF body
    <3> QED BY <3>2
  <2> HIDE DEF f0
  <2>2. 0 \in 0 .. L
    BY <1>1
  <2> QED BY <2>1, <2>2
<1>5. \A m \in 1 .. L : m - 1 \in S => m \in S
  <2> SUFFICES ASSUME NEW m \in 1 .. L, m - 1 \in S PROVE m \in S
    OBVIOUS
  <2>1. PICK f : Loop(f, m - 1)
    OBVIOUS
  <2> DEFINE g == [n \in 0 .. m |-> body(n, f[n - 1])]
  <2>2. \A n \in 0 .. m - 1 : g[n] = f[n]
    BY <2>1, <1>1
  <2>3. \A n \in 0 .. m : n # 0 => n - 1 \in 0 .. m - 1
    BY <1>1
  <2>4. g = [n \in 0 .. m |-> body(n, f[n - 1])]
    OBVIOUS
  <2> HIDE DEF g
  <2>5. \A n \in 0 .. m : body(n, f[n - 1]) = body(n, g[n - 1])
    <3> TAKE n \in 0 .. m
    <3>1. CASE n = 0
      BY <1>3, <3>1
    <3>2. CASE n # 0
      BY <2>2, <2>3, <3>2
    <3> QED BY <3>1, <3>2
  <2>6. Loop(g, m)
    BY <2>4, <2>5
  <2> HIDE DEF Loop
  <2>7. m \in 0 .. L
    BY <1>1
  <2> QED BY <2>6, <2>7
<1> HIDE DEF S
<1>6. L \in S
  <2>1. \A m \in 0 .. L : m \in S
    BY <1>1, <1>4, <1>5, UpTo
  <2> QED BY <1>1, <2>1
<1>7. Loop(path, L)
  <2> HIDE DEF Loop
  <2>1. \E f : Loop(f, L)
    BY <1>6 DEF S
  <2> QED BY <2>1
<1>8. \A n \in 0 .. L : path[n] = body(n, path[n - 1])
  <2> HIDE DEF path
  <2> QED BY <1>7
<1> HIDE DEF path
<1> QED BY <1>2, <1>8 DEF body, L

LEMMA EncodableUnfolds ==
  \A n \in 0 .. MaxNesting :
    Encodable[n] = IF n = 0 THEN Leaves(Strings)
               ELSE Leaves(Strings) \cup Compound(Strings, Encodable[n - 1])
<1> DEFINE L == MaxNesting
           body(n, x) == IF n = 0 THEN Leaves(Strings)
                         ELSE Leaves(Strings) \cup Compound(Strings, x)
           Loop(f, m) == f = [n \in 0 .. m |-> body(n, f[n - 1])]
           path == CHOOSE f : Loop(f, L)
<1>1. L \in Nat
  BY LayoutsAssumption
<1>2. Encodable = path
  BY DEF Encodable
<1>3. \A x, y : body(0, x) = body(0, y)
  OBVIOUS
<1> HIDE DEF L, body
<1> DEFINE S == {m \in 0 .. L : \E f : Loop(f, m)}
<1>4. 0 \in S
  <2> DEFINE f0 == [n \in 0 .. 0 |-> body(0, 0)]
  <2>1. f0 = [n \in 0 .. 0 |-> body(n, f0[n - 1])]
    <3>1. \A n \in 0 .. 0 : n = 0
      OBVIOUS
    <3>2. \A n \in 0 .. 0 : body(0, 0) = body(n, f0[n - 1])
      <4> HIDE DEF f0
      <4> QED BY <1>3, <3>1
    <3> HIDE DEF body
    <3> QED BY <3>2
  <2> HIDE DEF f0
  <2>2. 0 \in 0 .. L
    BY <1>1
  <2> QED BY <2>1, <2>2
<1>5. \A m \in 1 .. L : m - 1 \in S => m \in S
  <2> SUFFICES ASSUME NEW m \in 1 .. L, m - 1 \in S PROVE m \in S
    OBVIOUS
  <2>1. PICK f : Loop(f, m - 1)
    OBVIOUS
  <2> DEFINE g == [n \in 0 .. m |-> body(n, f[n - 1])]
  <2>2. \A n \in 0 .. m - 1 : g[n] = f[n]
    BY <2>1, <1>1
  <2>3. \A n \in 0 .. m : n # 0 => n - 1 \in 0 .. m - 1
    BY <1>1
  <2>4. g = [n \in 0 .. m |-> body(n, f[n - 1])]
    OBVIOUS
  <2> HIDE DEF g
  <2>5. \A n \in 0 .. m : body(n, f[n - 1]) = body(n, g[n - 1])
    <3> TAKE n \in 0 .. m
    <3>1. CASE n = 0
      BY <1>3, <3>1
    <3>2. CASE n # 0
      BY <2>2, <2>3, <3>2
    <3> QED BY <3>1, <3>2
  <2>6. Loop(g, m)
    BY <2>4, <2>5
  <2> HIDE DEF Loop
  <2>7. m \in 0 .. L
    BY <1>1
  <2> QED BY <2>6, <2>7
<1> HIDE DEF S
<1>6. L \in S
  <2>1. \A m \in 0 .. L : m \in S
    BY <1>1, <1>4, <1>5, UpTo
  <2> QED BY <1>1, <2>1
<1>7. Loop(path, L)
  <2> HIDE DEF Loop
  <2>1. \E f : Loop(f, L)
    BY <1>6 DEF S
  <2> QED BY <2>1
<1>8. \A n \in 0 .. L : path[n] = body(n, path[n - 1])
  <2> HIDE DEF path
  <2> QED BY <1>7
<1> HIDE DEF path
<1> QED BY <1>2, <1>8 DEF body, L

LEMMA ReadsMoreUnfolds ==
  \A n \in 0 .. MaxNesting :
    ReadsMore[n] =
      [plan \in Layouts |->
         IF n = 0 THEN plan.kind # "null" ELSE MustRead(ReadsMore[n - 1], plan)]
<1> DEFINE L == MaxNesting
           body(n, x) == [plan \in Layouts |->
                            IF n = 0 THEN plan.kind # "null" ELSE MustRead(x, plan)]
           Loop(f, m) == f = [n \in 0 .. m |-> body(n, f[n - 1])]
           path == CHOOSE f : Loop(f, L)
<1>1. L \in Nat
  BY LayoutsAssumption
<1>2. ReadsMore = path
  BY DEF ReadsMore
<1>3. \A x, y : body(0, x) = body(0, y)
  OBVIOUS
<1> HIDE DEF L, body
<1> DEFINE S == {m \in 0 .. L : \E f : Loop(f, m)}
<1>4. 0 \in S
  <2> DEFINE f0 == [n \in 0 .. 0 |-> body(0, 0)]
  <2>1. f0 = [n \in 0 .. 0 |-> body(n, f0[n - 1])]
    <3>1. \A n \in 0 .. 0 : n = 0
      OBVIOUS
    <3>2. \A n \in 0 .. 0 : body(0, 0) = body(n, f0[n - 1])
      <4> HIDE DEF f0
      <4> QED BY <1>3, <3>1
    <3> HIDE DEF body
    <3> QED BY <3>2
  <2> HIDE DEF f0
  <2>2. 0 \in 0 .. L
    BY <1>1
  <2> QED BY <2>1, <2>2
<1>5. \A m \in 1 .. L : m - 1 \in S => m \in S
  <2> SUFFICES ASSUME NEW m \in 1 .. L, m - 1 \in S PROVE m \in S
    OBVIOUS
  <2>1. PICK f : Loop(f, m - 1)
    OBVIOUS
  <2> DEFINE g == [n \in 0 .. m |-> body(n, f[n - 1])]
  <2>2. \A n \in 0 .. m - 1 : g[n] = f[n]
    BY <2>1, <1>1
  <2>3. \A n \in 0 .. m : n # 0 => n - 1 \in 0 .. m - 1
    BY <1>1
  <2>4. g = [n \in 0 .. m |-> body(n, f[n - 1])]
    OBVIOUS
  <2> HIDE DEF g
  <2>5. \A n \in 0 .. m : body(n, f[n - 1]) = body(n, g[n - 1])
    <3> TAKE n \in 0 .. m
    <3>1. CASE n = 0
      BY <1>3, <3>1
    <3>2. CASE n # 0
      BY <2>2, <2>3, <3>2
    <3> QED BY <3>1, <3>2
  <2>6. Loop(g, m)
    BY <2>4, <2>5
  <2> HIDE DEF Loop
  <2>7. m \in 0 .. L
    BY <1>1
  <2> QED BY <2>6, <2>7
<1> HIDE DEF S
<1>6. L \in S
  <2>1. \A m \in 0 .. L : m \in S
    BY <1>1, <1>4, <1>5, UpTo
  <2> QED BY <1>1, <2>1
<1>7. Loop(path, L)
  <2> HIDE DEF Loop
  <2>1. \E f : Loop(f, L)
    BY <1>6 DEF S
  <2> QED BY <2>1
<1>8. \A n \in 0 .. L : path[n] = body(n, path[n - 1])
  <2> HIDE DEF path
  <2> QED BY <1>7
<1> HIDE DEF path
<1> QED BY <1>2, <1>8 DEF body, L

LEMMA EncodersUnfold ==
  \A n \in 0 .. MaxNesting :
    Encoders[n] =
      [plan \in Layouts |->
         [v \in Encodable[n] |->
            IF v[1] # plan.tag THEN {Refused}
            ELSE IF plan.kind \in SimpleKinds THEN {EncodeSimple(plan, v)}
            ELSE EncodeCompound(IF n = 0 THEN << >> ELSE Encoders[n - 1], plan, v)]]
<1> DEFINE L == MaxNesting
           body(n, x) == [plan \in Layouts |->
              [v \in Encodable[n] |->
                 IF v[1] # plan.tag THEN {Refused}
                 ELSE IF plan.kind \in SimpleKinds THEN {EncodeSimple(plan, v)}
                 ELSE EncodeCompound(IF n = 0 THEN << >> ELSE x, plan, v)]]
           Loop(f, m) == f = [n \in 0 .. m |-> body(n, f[n - 1])]
           path == CHOOSE f : Loop(f, L)
<1>1. L \in Nat
  BY LayoutsAssumption
<1>2. Encoders = path
  BY DEF Encoders
<1>3. \A x, y : body(0, x) = body(0, y)
  OBVIOUS
<1> HIDE DEF L, body
<1> DEFINE S == {m \in 0 .. L : \E f : Loop(f, m)}
<1>4. 0 \in S
  <2> DEFINE f0 == [n \in 0 .. 0 |-> body(0, 0)]
  <2>1. f0 = [n \in 0 .. 0 |-> body(n, f0[n - 1])]
    <3>1. \A n \in 0 .. 0 : n = 0
      OBVIOUS
    <3>2. \A n \in 0 .. 0 : body(0, 0) = body(n, f0[n - 1])
      <4> HIDE DEF f0
      <4> QED BY <1>3, <3>1
    <3> HIDE DEF body
    <3> QED BY <3>2
  <2> HIDE DEF f0
  <2>2. 0 \in 0 .. L
    BY <1>1
  <2> QED BY <2>1, <2>2
<1>5. \A m \in 1 .. L : m - 1 \in S => m \in S
  <2> SUFFICES ASSUME NEW m \in 1 .. L, m - 1 \in S PROVE m \in S
    OBVIOUS
  <2>1. PICK f : Loop(f, m - 1)
    OBVIOUS
  <2> DEFINE g == [n \in 0 .. m |-> body(n, f[n - 1])]
  <2>2. \A n \in 0 .. m - 1 : g[n] = f[n]
    BY <2>1, <1>1
  <2>3. \A n \in 0 .. m : n # 0 => n - 1 \in 0 .. m - 1
    BY <1>1
  <2>4. g = [n \in 0 .. m |-> body(n, f[n - 1])]
    OBVIOUS
  <2> HIDE DEF g
  <2>5. \A n \in 0 .. m : body(n, f[n - 1]) = body(n, g[n - 1])
    <3> TAKE n \in 0 .. m
    <3>1. CASE n = 0
      BY <1>3, <3>1
    <3>2. CASE n # 0
      BY <2>2, <2>3, <3>2
    <3> QED BY <3>1, <3>2
  <2>6. Loop(g, m)
    BY <2>4, <2>5
  <2> HIDE DEF Loop
  <2>7. m \in 0 .. L
    BY <1>1
  <2> QED BY <2>6, <2>7
<1> HIDE DEF S
<1>6. L \in S
  <2>1. \A m \in 0 .. L : m \in S
    BY <1>1, <1>4, <1>5, UpTo
  <2> QED BY <1>1, <2>1
<1>7. Loop(path, L)
  <2> HIDE DEF Loop
  <2>1. \E f : Loop(f, L)
    BY <1>6 DEF S
  <2> QED BY <2>1
<1>8. \A n \in 0 .. L : path[n] = body(n, path[n - 1])
  <2> HIDE DEF path
  <2> QED BY <1>7
<1> HIDE DEF path
<1> QED BY <1>2, <1>8 DEF body, L

\* The body of the function that Decoders defines.
DecodedBy(below, n, plan, s, source, off) ==
  IF plan.kind \in SimpleKinds THEN DecodeSimple(plan, s, source, off)
  ELSE IF n = 0 THEN Result(off, "stackOverflow", << >>)
  ELSE DecodeCompound(below, plan, s, source, off)

LEMMA DecodersUnfold ==
  ASSUME NEW s, NEW source
  PROVE  \A n \in 0 .. MaxNesting : \A plan \in Layouts, off \in 0 .. Len(s) :
           Decoders(s, source)[n][plan][off] =
             DecodedBy(Decoders(s, source)[n - 1], n, plan, s, source, off)
<1> DEFINE L == MaxNesting
           body(n, x) == [plan \in Layouts |->
              [off \in 0 .. Len(s) |-> DecodedBy(x, n, plan, s, source, off)]]
           Loop(f, m) == f = [n \in 0 .. m |-> body(n, f[n - 1])]
           path == CHOOSE f : Loop(f, L)
<1>1. L \in Nat
  BY LayoutsAssumption
<1>2. Decoders(s, source) = path
  BY DEF Decoders, DecodedBy
<1>3. \A x, y : body(0, x) = body(0, y)
  BY DEF DecodedBy
<1> HIDE DEF L, body
<1> DEFINE S == {m \in 0 .. L : \E f : Loop(f, m)}
<1>4. 0 \in S
  <2> DEFINE f0 == [n \in 0 .. 0 |-> body(0, 0)]
  <2>1. f0 = [n \in 0 .. 0 |-> body(n, f0[n - 1])]
    <3>1. \A n \in 0 .. 0 : n = 0
      OBVIOUS
    <3>2. \A n \in 0 .. 0 : body(0, 0) = body(n, f0[n - 1])
      <4> HIDE DEF f0
      <4> QED BY <1>3, <3>1
    <3> HIDE DEF body
    <3> QED BY <3>2
  <2> HIDE DEF f0
  <2>2. 0 \in 0 .. L
    BY <1>1
  <2> QED BY <2>1, <2>2
<1>5. \A m \in 1 .. L : m - 1 \in S => m \in S
  <2> SUFFICES ASSUME NEW m \in 1 .. L, m - 1 \in S PROVE m \in S
    OBVIOUS
  <2>1. PICK f : Loop(f, m - 1)
    OBVIOUS
  <2> DEFINE g == [n \in 0 .. m |-> body(n, f[n - 1])]
  <2>2. \A n \in 0 .. m - 1 : g[n] = f[n]
    BY <2>1, <1>1
  <2>3. \A n \in 0 .. m : n # 0 => n - 1 \in 0 .. m - 1
    BY <1>1
  <2>4. g = [n \in 0 .. m |-> body(n, f[n - 1])]
    OBVIOUS
  <2> HIDE DEF g
  <2>5. \A n \in 0 .. m : body(n, f[n - 1]) = body(n, g[n - 1])
    <3> TAKE n \in 0 .. m
    <3>1. CASE n = 0
      BY <1>3, <3>1
    <3>2. CASE n # 0
      BY <2>2, <2>3, <3>2
    <3> QED BY <3>1, <3>2
  <2>6. Loop(g, m)
    BY <2>4, <2>5
  <2> HIDE DEF Loop
  <2>7. m \in 0 .. L
    BY <1>1
  <2> QED BY <2>6, <2>7
<1> HIDE DEF S
<1>6. L \in S
  <2>1. \A m \in 0 .. L : m \in S
    BY <1>1, <1>4, <1>5, UpTo
  <2> QED BY <1>1, <2>1
<1>7. Loop(path, L)
  <2> HIDE DEF Loop
  <2>1. \E f : Loop(f, L)
    BY <1>6 DEF S
  <2> QED BY <2>1
<1>8. \A n \in 0 .. L : path[n] = body(n, path[n - 1])
  <2> HIDE DEF path
  <2> QED BY <1>7
<1> HIDE DEF path
<1>9. \A n, x : \A plan \in Layouts, off \in 0 .. Len(s) :
        body(n, x)[plan][off] = DecodedBy(x, n, plan, s, source, off)
  BY DEF body
<1>10. \A n \in 0 .. L : \A plan \in Layouts, off \in 0 .. Len(s) :
         path[n][plan][off] = DecodedBy(path[n - 1], n, plan, s, source, off)
  BY <1>8, <1>9
<1> QED BY <1>2, <1>10 DEF L

Nothing(z) == z = Written(<< >>)

\* An encoding of xs followed by one of ys.
Joins(z, xs, ys) == \E x \in xs, y \in ys : z = Then(x, y)

\* Encoding, decoding and the loop over blocks pass through these states.
LEMMA EncodeAllPath ==
  ASSUME NEW encoders, NEW plans, NEW vs, Len(vs) \in Nat
  PROVE  \E upTo :
           /\ EncodeAll(encoders, plans, vs) = upTo[Len(vs)]
           /\ \A z \in upTo[0] : Nothing(z)
           /\ \A n \in 1 .. Len(vs) : \A z \in upTo[n] :
                Joins(z, upTo[n - 1], encoders[plans[n]][vs[n]])
<1> DEFINE joined(xs, n) == {Then(x, y) : x \in xs, y \in encoders[plans[n]][vs[n]]}
           L == Len(vs)
           body(n, x) == IF n = 0 THEN {Written(<< >>)} ELSE joined(x, n)
           Loop(f, m) == f = [n \in 0 .. m |-> body(n, f[n - 1])]
           path == CHOOSE f : Loop(f, L)
<1>1. L \in Nat
  OBVIOUS
<1>2. EncodeAll(encoders, plans, vs) = path[L]
  BY DEF EncodeAll
<1>3. \A x, y : body(0, x) = body(0, y)
  OBVIOUS
<1> HIDE DEF L, body
<1> DEFINE S == {m \in 0 .. L : \E f : Loop(f, m)}
<1>4. 0 \in S
  <2> DEFINE f0 == [n \in 0 .. 0 |-> body(0, 0)]
  <2>1. f0 = [n \in 0 .. 0 |-> body(n, f0[n - 1])]
    <3>1. \A n \in 0 .. 0 : n = 0
      OBVIOUS
    <3>2. \A n \in 0 .. 0 : body(0, 0) = body(n, f0[n - 1])
      <4> HIDE DEF f0
      <4> QED BY <1>3, <3>1
    <3> HIDE DEF body
    <3> QED BY <3>2
  <2> HIDE DEF f0
  <2>2. 0 \in 0 .. L
    BY <1>1
  <2> QED BY <2>1, <2>2
<1>5. \A m \in 1 .. L : m - 1 \in S => m \in S
  <2> SUFFICES ASSUME NEW m \in 1 .. L, m - 1 \in S PROVE m \in S
    OBVIOUS
  <2>1. PICK f : Loop(f, m - 1)
    OBVIOUS
  <2> DEFINE g == [n \in 0 .. m |-> body(n, f[n - 1])]
  <2>2. \A n \in 0 .. m - 1 : g[n] = f[n]
    BY <2>1, <1>1
  <2>3. \A n \in 0 .. m : n # 0 => n - 1 \in 0 .. m - 1
    BY <1>1
  <2>4. g = [n \in 0 .. m |-> body(n, f[n - 1])]
    OBVIOUS
  <2> HIDE DEF g
  <2>5. \A n \in 0 .. m : body(n, f[n - 1]) = body(n, g[n - 1])
    <3> TAKE n \in 0 .. m
    <3>1. CASE n = 0
      BY <1>3, <3>1
    <3>2. CASE n # 0
      BY <2>2, <2>3, <3>2
    <3> QED BY <3>1, <3>2
  <2>6. Loop(g, m)
    BY <2>4, <2>5
  <2> HIDE DEF Loop
  <2>7. m \in 0 .. L
    BY <1>1
  <2> QED BY <2>6, <2>7
<1> HIDE DEF S
<1>6. L \in S
  <2>1. \A m \in 0 .. L : m \in S
    BY <1>1, <1>4, <1>5, UpTo
  <2> QED BY <1>1, <2>1
<1>7. Loop(path, L)
  <2> HIDE DEF Loop
  <2>1. \E f : Loop(f, L)
    BY <1>6 DEF S
  <2> QED BY <2>1
<1>8. \A n \in 0 .. L : path[n] = body(n, path[n - 1])
  <2> HIDE DEF path
  <2> QED BY <1>7
<1> HIDE DEF path
<1> HIDE DEF joined
<1>9. path[0] = {Written(<< >>)}
  BY <1>1, <1>8 DEF body
<1>10. \A n \in 1 .. L : path[n] = joined(path[n - 1], n)
  BY <1>1, <1>8 DEF body
<1>11. \A z \in path[0] : Nothing(z)
  BY <1>9 DEF Nothing
<1>12. \A n, xs : \A z \in joined(xs, n) :
         Joins(z, xs, encoders[plans[n]][vs[n]])
  BY DEF joined, Joins
<1>13. \A n \in 1 .. L : \A z \in path[n] :
         Joins(z, path[n - 1], encoders[plans[n]][vs[n]])
  BY <1>10, <1>12
<1> QED BY <1>2, <1>11, <1>13 DEF L

\* The states that decoding one value after the other passes through.
DecodeSteps(path, decoders, plans, off) ==
  /\ DecodeAll(decoders, plans, off) = path[Len(plans)]
  /\ path[0] = Result(off, "none", << >>)
  /\ \A k \in 1 .. Len(plans) : path[k] = ThenRead(path[k - 1], decoders, plans[k])

LEMMA DecodeAllPath ==
  ASSUME NEW decoders, NEW plans, Len(plans) \in Nat, NEW off
  PROVE  \E path : DecodeSteps(path, decoders, plans, off)
<1> DEFINE L == Len(plans)
           body(n, x) == IF n = 0 THEN Result(off, "none", << >>)
                         ELSE ThenRead(x, decoders, plans[n])
           Loop(f, m) == f = [n \in 0 .. m |-> body(n, f[n - 1])]
           path == CHOOSE f : Loop(f, L)
<1>1. L \in Nat
  OBVIOUS
<1>2. DecodeAll(decoders, plans, off) = path[L]
  BY DEF DecodeAll
<1>3. \A x, y : body(0, x) = body(0, y)
  OBVIOUS
<1> HIDE DEF L, body
<1> DEFINE S == {m \in 0 .. L : \E f : Loop(f, m)}
<1>4. 0 \in S
  <2> DEFINE f0 == [n \in 0 .. 0 |-> body(0, 0)]
  <2>1. f0 = [n \in 0 .. 0 |-> body(n, f0[n - 1])]
    <3>1. \A n \in 0 .. 0 : n = 0
      OBVIOUS
    <3>2. \A n \in 0 .. 0 : body(0, 0) = body(n, f0[n - 1])
      <4> HIDE DEF f0
      <4> QED BY <1>3, <3>1
    <3> HIDE DEF body
    <3> QED BY <3>2
  <2> HIDE DEF f0
  <2>2. 0 \in 0 .. L
    BY <1>1
  <2> QED BY <2>1, <2>2
<1>5. \A m \in 1 .. L : m - 1 \in S => m \in S
  <2> SUFFICES ASSUME NEW m \in 1 .. L, m - 1 \in S PROVE m \in S
    OBVIOUS
  <2>1. PICK f : Loop(f, m - 1)
    OBVIOUS
  <2> DEFINE g == [n \in 0 .. m |-> body(n, f[n - 1])]
  <2>2. \A n \in 0 .. m - 1 : g[n] = f[n]
    BY <2>1, <1>1
  <2>3. \A n \in 0 .. m : n # 0 => n - 1 \in 0 .. m - 1
    BY <1>1
  <2>4. g = [n \in 0 .. m |-> body(n, f[n - 1])]
    OBVIOUS
  <2> HIDE DEF g
  <2>5. \A n \in 0 .. m : body(n, f[n - 1]) = body(n, g[n - 1])
    <3> TAKE n \in 0 .. m
    <3>1. CASE n = 0
      BY <1>3, <3>1
    <3>2. CASE n # 0
      BY <2>2, <2>3, <3>2
    <3> QED BY <3>1, <3>2
  <2>6. Loop(g, m)
    BY <2>4, <2>5
  <2> HIDE DEF Loop
  <2>7. m \in 0 .. L
    BY <1>1
  <2> QED BY <2>6, <2>7
<1> HIDE DEF S
<1>6. L \in S
  <2>1. \A m \in 0 .. L : m \in S
    BY <1>1, <1>4, <1>5, UpTo
  <2> QED BY <1>1, <2>1
<1>7. Loop(path, L)
  <2> HIDE DEF Loop
  <2>1. \E f : Loop(f, L)
    BY <1>6 DEF S
  <2> QED BY <2>1
<1>8. \A n \in 0 .. L : path[n] = body(n, path[n - 1])
  <2> HIDE DEF path
  <2> QED BY <1>7
<1> HIDE DEF path
<1>9. path[0] = Result(off, "none", << >>)
  BY <1>1, <1>8 DEF body
<1>10. \A k \in 1 .. L : path[k] = ThenRead(path[k - 1], decoders, plans[k])
  BY <1>1, <1>8 DEF body
<1>11. DecodeSteps(path, decoders, plans, off)
  BY <1>2, <1>9, <1>10 DEF L, DecodeSteps
<1> QED BY <1>11

\* The states that the loop over blocks passes through.
BlockSteps(after, decoders, plan, s, source, off) ==
  /\ DecodeBlocks(decoders, plan, s, source, off) = after[Len(s) + 1]
  /\ after[0] = Result(off, "more", << >>)
  /\ \A k \in 1 .. Len(s) + 1 : after[k] = DecodeBlock(decoders, plan, s, source, after[k - 1])

LEMMA DecodeBlocksPath ==
  ASSUME NEW decoders, NEW plan, NEW s, Len(s) \in Nat, NEW source, NEW off
  PROVE  \E after : BlockSteps(after, decoders, plan, s, source, off)
<1> DEFINE L == Len(s) + 1
           body(n, x) == IF n = 0 THEN Result(off, "more", << >>)
                         ELSE DecodeBlock(decoders, plan, s, source, x)
           Loop(f, m) == f = [n \in 0 .. m |-> body(n, f[n - 1])]
           path == CHOOSE f : Loop(f, L)
<1>1. L \in Nat
  OBVIOUS
<1>2. DecodeBlocks(decoders, plan, s, source, off) = path[L]
  BY DEF DecodeBlocks
<1>3. \A x, y : body(0, x) = body(0, y)
  OBVIOUS
<1> HIDE DEF L, body
<1> DEFINE S == {m \in 0 .. L : \E f : Loop(f, m)}
<1>4. 0 \in S
  <2> DEFINE f0 == [n \in 0 .. 0 |-> body(0, 0)]
  <2>1. f0 = [n \in 0 .. 0 |-> body(n, f0[n - 1])]
    <3>1. \A n \in 0 .. 0 : n = 0
      OBVIOUS
    <3>2. \A n \in 0 .. 0 : body(0, 0) = body(n, f0[n - 1])
      <4> HIDE DEF f0
      <4> QED BY <1>3, <3>1
    <3> HIDE DEF body
    <3> QED BY <3>2
  <2> HIDE DEF f0
  <2>2. 0 \in 0 .. L
    BY <1>1
  <2> QED BY <2>1, <2>2
<1>5. \A m \in 1 .. L : m - 1 \in S => m \in S
  <2> SUFFICES ASSUME NEW m \in 1 .. L, m - 1 \in S PROVE m \in S
    OBVIOUS
  <2>1. PICK f : Loop(f, m - 1)
    OBVIOUS
  <2> DEFINE g == [n \in 0 .. m |-> body(n, f[n - 1])]
  <2>2. \A n \in 0 .. m - 1 : g[n] = f[n]
    BY <2>1, <1>1
  <2>3. \A n \in 0 .. m : n # 0 => n - 1 \in 0 .. m - 1
    BY <1>1
  <2>4. g = [n \in 0 .. m |-> body(n, f[n - 1])]
    OBVIOUS
  <2> HIDE DEF g
  <2>5. \A n \in 0 .. m : body(n, f[n - 1]) = body(n, g[n - 1])
    <3> TAKE n \in 0 .. m
    <3>1. CASE n = 0
      BY <1>3, <3>1
    <3>2. CASE n # 0
      BY <2>2, <2>3, <3>2
    <3> QED BY <3>1, <3>2
  <2>6. Loop(g, m)
    BY <2>4, <2>5
  <2> HIDE DEF Loop
  <2>7. m \in 0 .. L
    BY <1>1
  <2> QED BY <2>6, <2>7
<1> HIDE DEF S
<1>6. L \in S
  <2>1. \A m \in 0 .. L : m \in S
    BY <1>1, <1>4, <1>5, UpTo
  <2> QED BY <1>1, <2>1
<1>7. Loop(path, L)
  <2> HIDE DEF Loop
  <2>1. \E f : Loop(f, L)
    BY <1>6 DEF S
  <2> QED BY <2>1
<1>8. \A n \in 0 .. L : path[n] = body(n, path[n - 1])
  <2> HIDE DEF path
  <2> QED BY <1>7
<1> HIDE DEF path
<1>9. path[0] = Result(off, "more", << >>)
  BY <1>1, <1>8 DEF body
<1>10. \A k \in 1 .. L : path[k] = DecodeBlock(decoders, plan, s, source, path[k - 1])
  BY <1>1, <1>8 DEF body
<1>11. BlockSteps(path, decoders, plan, s, source, off)
  BY <1>2, <1>9, <1>10 DEF L, BlockSteps
<1> QED BY <1>11

-----------------------------------------------------------------------------
(***************************************************************************)
(* The values of each type.                                                *)
(***************************************************************************)
Ints == (-IntHalf) .. (IntHalf - 1)

\* The Go types of each kind.
LEMMA TagsAre ==
  /\ \A kind \in SimpleKinds \cup {"union", "record", "ref", "array", "map"} :
       kind \notin {"int", "long", "string", "fixed", "ref"} => Tags(kind) = {kind}
  /\ Tags("int") = {"int", "date", "time-millis"}
  /\ Tags("long") = {"long", "time-micros", "timestamp-millis", "timestamp-micros",
                     "timestamp-nanos", "local-timestamp-millis",
                     "local-timestamp-micros", "local-timestamp-nanos"}
  /\ Tags("string") = {"string", "bytes", "uuid"}
  /\ Tags("fixed") = {"fixed", "float", "double", "duration"}
  /\ Tags("ref") = {"record"}
BY DEF Tags

\* No type is the type of two kinds, but for references to records.
LEMMA TagsDiffer ==
  /\ \A kind \in SimpleKinds \ {"int"} : \A tag \in Tags("int") : tag \notin Tags(kind)
  /\ \A kind \in SimpleKinds \ {"long"} : \A tag \in Tags("long") : tag \notin Tags(kind)
  /\ \A kind \in SimpleKinds \ {"string"} : \A tag \in Tags("string") : tag \notin Tags(kind)
  /\ \A kind \in SimpleKinds \ {"fixed"} : \A tag \in Tags("fixed") : tag \notin Tags(kind)
  /\ \A kind \in SimpleKinds : Tags(kind) \cap {"union", "record", "array", "map"} = {}
  /\ \A kind \in SimpleKinds \cup {"union", "record", "ref", "array", "map"} :
       "strange" \notin Tags(kind)
<1>1. \A kind \in {"null", "boolean", "enum", "union", "record", "array", "map"} :
        Tags(kind) = {kind}
  BY TagsAre DEF SimpleKinds
<1>2. \A kind \in SimpleKinds :
        \/ kind \in {"null", "boolean", "enum"}
        \/ kind = "int" \/ kind = "long" \/ kind = "string" \/ kind = "fixed"
  BY DEF SimpleKinds
<1>3. \A tag \in Tags("int") :
        tag \notin Tags("long") /\ tag \notin Tags("string") /\ tag \notin Tags("fixed")
  BY TagsAre
<1>4. \A tag \in Tags("long") :
        tag \notin Tags("int") /\ tag \notin Tags("string") /\ tag \notin Tags("fixed")
  BY TagsAre
<1>f. \A tag \in Tags("string") : tag \notin Tags("fixed")
  BY TagsAre
<1>5. \A kind \in {"int", "long", "string", "fixed"} :
        \A tag \in Tags(kind) :
          tag \notin {"null", "boolean", "enum", "union", "record", "array", "map", "strange"}
  <2>1. \A tag \in Tags("int") :
          tag \notin {"null", "boolean", "enum", "union", "record", "array", "map", "strange"}
    BY TagsAre
  <2>2. \A tag \in Tags("long") :
          tag \notin {"null", "boolean", "enum", "union", "record", "array", "map", "strange"}
    BY TagsAre
  <2>3. \A tag \in Tags("string") :
          tag \notin {"null", "boolean", "enum", "union", "record", "array", "map", "strange"}
    BY TagsAre
  <2>4. \A tag \in Tags("fixed") :
          tag \notin {"null", "boolean", "enum", "union", "record", "array", "map", "strange"}
    BY TagsAre
  <2> QED BY <2>1, <2>2, <2>3, <2>4
<1>6. Tags("ref") = {"record"}
  BY TagsAre
<1>7. \A kind \in SimpleKinds \ {"int"} : \A tag \in Tags("int") : tag \notin Tags(kind)
  BY <1>1, <1>2, <1>3, <1>5
<1>8. \A kind \in SimpleKinds \ {"long"} : \A tag \in Tags("long") : tag \notin Tags(kind)
  BY <1>1, <1>2, <1>4, <1>5
<1>9. \A kind \in SimpleKinds \ {"string"} : \A tag \in Tags("string") : tag \notin Tags(kind)
  BY <1>1, <1>2, <1>3, <1>4, <1>5, <1>f
<1>g. \A kind \in SimpleKinds \ {"fixed"} : \A tag \in Tags("fixed") : tag \notin Tags(kind)
  BY <1>1, <1>2, <1>3, <1>4, <1>5, <1>f
<1>10. \A kind \in SimpleKinds : Tags(kind) \cap {"union", "record", "array", "map"} = {}
  BY <1>1, <1>2, <1>5
<1>11. \A kind \in SimpleKinds \cup {"union", "record", "ref", "array", "map"} :
         "strange" \notin Tags(kind)
  BY <1>1, <1>2, <1>5, <1>6
<1> QED BY <1>7, <1>8, <1>9, <1>g, <1>10, <1>11

\* A value without parts is one of these, and these are values.
LEMMA LeavesAre ==
  ASSUME NEW v \in Leaves(ShortStrings)
  PROVE  \/ v = <<"null">> \/ v = <<"strange">>
         \/ \E x \in BOOLEAN : v = <<"boolean", x>>
         \/ \E tag \in Tags("int"), x \in Ints : v = <<tag, x>>
         \/ \E tag \in Tags("long"), x \in Long : v = <<tag, x>>
         \/ \E tag \in Tags("fixed"), x \in Strings : v = <<tag, x>>
         \/ \E tag \in Tags("string"), x \in ShortStrings : v = <<tag, x>>
         \/ \E x \in Nat : v = <<"enum", x>>
<1>1. \A x : x \in {"boolean"} \X BOOLEAN => \E y \in BOOLEAN : x = <<"boolean", y>>
  OBVIOUS
<1>2. \A T, S, x : x \in T \X S => \E t \in T, y \in S : x = <<t, y>>
  OBVIOUS
<1>3. \A x : x \in {"enum"} \X Nat => \E y \in Nat : x = <<"enum", y>>
  OBVIOUS
<1>4. \/ v = <<"null">> \/ v = <<"strange">>
      \/ v \in {"boolean"} \X BOOLEAN
      \/ v \in Tags("int") \X Ints
      \/ v \in Tags("long") \X Long
      \/ v \in Tags("fixed") \X Strings
      \/ v \in Tags("string") \X ShortStrings
      \/ v \in {"enum"} \X Nat
  BY DEF Leaves, Ints
<1>5. v \in Tags("int") \X Ints => \E tag \in Tags("int"), x \in Ints : v = <<tag, x>>
  BY <1>2
<1>6. v \in Tags("long") \X Long => \E tag \in Tags("long"), x \in Long : v = <<tag, x>>
  BY <1>2
<1>7. v \in Tags("fixed") \X Strings => \E tag \in Tags("fixed"), x \in Strings : v = <<tag, x>>
  BY <1>2
<1>8. v \in Tags("string") \X ShortStrings =>
        \E tag \in Tags("string"), x \in ShortStrings : v = <<tag, x>>
  BY <1>2
<1> QED BY <1>1, <1>3, <1>4, <1>5, <1>6, <1>7, <1>8

LEMMA LeavesHold ==
  /\ <<"null">> \in Leaves(ShortStrings)
  /\ \A x \in BOOLEAN : <<"boolean", x>> \in Leaves(ShortStrings)
  /\ \A tag \in Tags("int"), x \in Ints : <<tag, x>> \in Leaves(ShortStrings)
  /\ \A tag \in Tags("long"), x \in Long : <<tag, x>> \in Leaves(ShortStrings)
  /\ \A tag \in Tags("fixed"), x \in Strings : <<tag, x>> \in Leaves(ShortStrings)
  /\ \A tag \in Tags("string"), x \in ShortStrings : <<tag, x>> \in Leaves(ShortStrings)
  /\ \A x \in Nat : <<"enum", x>> \in Leaves(ShortStrings)
BY DEF Leaves, Ints

\* A value with parts is one of these, and these are values.
LEMMA CompoundsAre ==
  ASSUME NEW some, NEW v \in Compound(ShortStrings, some)
  PROVE  \/ \E tag \in {"array", "record"}, x \in Seq(some) : v = <<tag, x>> /\ Len(x) < Half
         \/ \E x \in Maps(ShortStrings, some) : v = <<"map", x>>
         \/ \E i \in Int, x \in some : v = <<"union", i, x>>
BY DEF Compound

LEMMA CompoundsHold ==
  ASSUME NEW some
  PROVE  /\ \A tag \in {"array", "record"}, x \in Seq(some) :
              Len(x) < Half => <<tag, x>> \in Compound(ShortStrings, some)
         /\ \A x \in Maps(ShortStrings, some) : <<"map", x>> \in Compound(ShortStrings, some)
         /\ \A i \in Int, x \in some : <<"union", i, x>> \in Compound(ShortStrings, some)
BY DEF Compound

\* What a plan without parts may be asked to encode.
LEMMA SimpleValue ==
  ASSUME NEW n \in 0 .. MaxNesting, NEW plan \in Layouts, plan.kind \in SimpleKinds,
         NEW v \in Level[n], v[1] = plan.tag
  PROVE  /\ v \in Leaves(ShortStrings)
         /\ plan.kind = "null" => v = <<"null">>
         /\ plan.kind = "boolean" => v = <<plan.tag, v[2]>> /\ v[2] \in BOOLEAN
         /\ plan.kind = "int" => v = <<plan.tag, v[2]>> /\ v[2] \in Ints
         /\ plan.kind = "long" => v = <<plan.tag, v[2]>> /\ v[2] \in Long
         /\ plan.kind = "string" => v = <<plan.tag, v[2]>> /\ v[2] \in ShortStrings
         /\ plan.kind = "fixed" => v = <<plan.tag, v[2]>> /\ v[2] \in Strings
         /\ plan.kind = "enum" => v = <<plan.tag, v[2]>> /\ v[2] \in Nat
<1>1. plan.tag \in Tags(plan.kind)
  BY LayoutsAssumption
<1>2. v \in Leaves(ShortStrings)
  <2> SUFFICES ASSUME v \notin Leaves(ShortStrings) PROVE FALSE
    OBVIOUS
  <2>1. v \in Compound(ShortStrings, Level[n - 1])
    BY LevelUnfolds
  <2>2. v[1] \in {"array", "record", "map", "union"}
    BY <2>1, CompoundsAre
  <2> QED BY <1>1, <2>2, TagsDiffer
<1>3. CASE v = <<"null">>
  <2>1. v[1] = "null"
    BY <1>3
  <2>2. plan.kind = "null"
    BY <1>1, <2>1, TagsAre, TagsDiffer DEF SimpleKinds
  <2> QED BY <1>2, <1>3, <2>2
<1>4. CASE v = <<"strange">>
  <2>1. v[1] = "strange"
    BY <1>4
  <2> QED BY <1>1, <2>1, TagsDiffer
<1>5. CASE \E x \in BOOLEAN : v = <<"boolean", x>>
  <2>1. v[1] = "boolean" /\ v = <<v[1], v[2]>> /\ v[2] \in BOOLEAN
    BY <1>5
  <2>2. plan.kind = "boolean"
    BY <1>1, <2>1, TagsAre, TagsDiffer DEF SimpleKinds
  <2> QED BY <1>2, <2>1, <2>2
<1>6. CASE \E tag \in Tags("int"), x \in Ints : v = <<tag, x>>
  <2>1. v[1] \in Tags("int") /\ v = <<v[1], v[2]>> /\ v[2] \in Ints
    BY <1>6
  <2>2. plan.kind = "int"
    BY <1>1, <2>1, TagsDiffer
  <2> QED BY <1>2, <2>1, <2>2
<1>7. CASE \E tag \in Tags("long"), x \in Long : v = <<tag, x>>
  <2>1. v[1] \in Tags("long") /\ v = <<v[1], v[2]>> /\ v[2] \in Long
    BY <1>7
  <2>2. plan.kind = "long"
    BY <1>1, <2>1, TagsDiffer
  <2> QED BY <1>2, <2>1, <2>2
<1>f. CASE \E tag \in Tags("fixed"), x \in Strings : v = <<tag, x>>
  <2>1. v[1] \in Tags("fixed") /\ v = <<v[1], v[2]>> /\ v[2] \in Strings
    BY <1>f
  <2>2. plan.kind = "fixed"
    BY <1>1, <2>1, TagsDiffer
  <2> QED BY <1>2, <2>1, <2>2
<1>8. CASE \E tag \in Tags("string"), x \in ShortStrings : v = <<tag, x>>
  <2>1. v[1] \in Tags("string") /\ v = <<v[1], v[2]>> /\ v[2] \in ShortStrings
    BY <1>8
  <2>2. plan.kind = "string"
    BY <1>1, <2>1, TagsDiffer
  <2> QED BY <1>2, <2>1, <2>2
<1>9. CASE \E x \in Nat : v = <<"enum", x>>
  <2>1. v[1] = "enum" /\ v = <<v[1], v[2]>> /\ v[2] \in Nat
    BY <1>9
  <2>2. plan.kind = "enum"
    BY <1>1, <2>1, TagsAre, TagsDiffer DEF SimpleKinds
  <2> QED BY <1>2, <2>1, <2>2
<1> QED BY <1>2, <1>3, <1>4, <1>5, <1>6, <1>7, <1>f, <1>8, <1>9, LeavesAre

\* And what one with parts.
LEMMA CompoundValue ==
  ASSUME NEW n \in 0 .. MaxNesting, NEW plan \in Layouts, plan.kind \notin SimpleKinds,
         NEW v \in Level[n], v[1] = plan.tag
  PROVE  /\ n # 0 /\ n - 1 \in 0 .. MaxNesting
         /\ plan.kind = "union" =>
              v = <<"union", v[2], v[3]>> /\ v[2] \in Int /\ v[3] \in Level[n - 1]
         /\ plan.kind \in {"record", "ref", "array"} =>
              v = <<plan.tag, v[2]>> /\ v[2] \in Seq(Level[n - 1]) /\ Len(v[2]) < Half
         /\ plan.kind = "map" => v = <<"map", v[2]>> /\ v[2] \in Maps(ShortStrings, Level[n - 1])
<1>1. plan.tag \in Tags(plan.kind) /\ plan.kind \in {"union", "record", "ref", "array", "map"}
  BY LayoutsAssumption
<1>2. plan.tag = IF plan.kind = "ref" THEN "record" ELSE plan.kind
  BY <1>1, TagsAre
<1>3. v \notin Leaves(ShortStrings)
  <2> SUFFICES ASSUME v \in Leaves(ShortStrings) PROVE FALSE
    OBVIOUS
  <2>1. v[1] \in {"union", "record", "array", "map"}
    BY <1>1, <1>2
  <2>2. \/ v[1] \in {"null", "strange", "boolean", "enum"}
        \/ v[1] \in Tags("int") \/ v[1] \in Tags("long") \/ v[1] \in Tags("string")
        \/ v[1] \in Tags("fixed")
    BY LeavesAre
  <2> QED BY <2>1, <2>2, TagsDiffer DEF SimpleKinds
<1>4. n # 0 /\ v \in Compound(ShortStrings, Level[n - 1])
  BY <1>3, LevelUnfolds
<1>5. n - 1 \in 0 .. MaxNesting
  BY <1>4, LayoutsAssumption
<1>6. CASE \E tag \in {"array", "record"}, x \in Seq(Level[n - 1]) : v = <<tag, x>> /\ Len(x) < Half
  <2>1. v[1] \in {"array", "record"} /\ v = <<v[1], v[2]>>
        /\ v[2] \in Seq(Level[n - 1]) /\ Len(v[2]) < Half
    BY <1>6
  <2>2. plan.kind \notin {"map", "union"}
    BY <1>2, <2>1
  <2> QED BY <1>4, <1>5, <2>1, <2>2
<1>7. CASE \E x \in Maps(ShortStrings, Level[n - 1]) : v = <<"map", x>>
  <2>1. v[1] = "map" /\ v = <<"map", v[2]>> /\ v[2] \in Maps(ShortStrings, Level[n - 1])
    BY <1>7
  <2>2. plan.kind = "map"
    BY <1>1, <1>2, <2>1
  <2> QED BY <1>4, <1>5, <2>1, <2>2
<1>8. CASE \E i \in Int, x \in Level[n - 1] : v = <<"union", i, x>>
  <2>1. v[1] = "union" /\ v = <<"union", v[2], v[3]>> /\ v[2] \in Int /\ v[3] \in Level[n - 1]
    BY <1>8
  <2>2. plan.kind = "union"
    BY <1>1, <1>2, <2>1
  <2> QED BY <1>4, <1>5, <2>1, <2>2
<1> QED BY <1>4, <1>6, <1>7, <1>8, CompoundsAre

\* Conversely, what a decoder may return.
LEMMA LevelHolds ==
  ASSUME NEW n \in 0 .. MaxNesting
  PROVE  /\ Leaves(ShortStrings) \subseteq Level[n]
         /\ n # 0 => Compound(ShortStrings, Level[n - 1]) \subseteq Level[n]
BY LevelUnfolds

-----------------------------------------------------------------------------
(***************************************************************************)
(* What the reads make of any bytes at all.                                *)
(***************************************************************************)
LEMMA ResultIs == \A off, err, val :
  /\ Result(off, err, val).off = off
  /\ Result(off, err, val).err = err
  /\ Result(off, err, val).val = val
BY DEF Result

\* Where a read of any bytes ends, and how.
LEMMA AnyLong ==
  ASSUME NEW s \in Seq(Byte), NEW source, NEW off \in 0 .. Len(s)
  PROVE  LET r == ReadLong(s, source, off)
         IN  /\ r = Result(r.off, r.err, r.val)
             /\ r.off \in off .. Len(s) /\ r.val \in Long
             /\ r.err \in {"none", "eof", "source", "overflow"}
             /\ r.err = "none" => off < r.off
             /\ off = Len(s) => r.err \in {"eof", "source"}
<1> DEFINE ends == LastGroups(s, off)
           n == Min(ends)
<1>1. Len(s) \in Nat /\ off \in Nat
  OBVIOUS
<1>2. MaxLen \in Nat \ {0} /\ 0 \in Long
  BY VarintAssumption, HalfIsPositive DEF Long
<1>3. CASE ends # {}
  <2>1. ends \in SUBSET Nat
    BY <1>2 DEF LastGroups
  <2>2. n \in ends
    BY <1>3, <2>1, MinOfNats
  <2>3. n \in 1 .. MaxLen /\ off + n <= Len(s)
    BY <2>2 DEF LastGroups
  <2> DEFINE bytes == SubSeq(s, off + 1, off + n)
  <2>4. bytes \in Seq(Byte) /\ Len(bytes) = n
    BY <1>1, <1>2, <2>3, SubSeqProperties
  <2>5. VarintValue(bytes) \in Long
    <3> HIDE DEF bytes, n, ends
    <3>1. Len(bytes) <= MaxLen
      BY <1>2, <2>3, <2>4
    <3> QED BY <2>4, <3>1, VarintValueIsLong
  <2>6. ReadLong(s, source, off) = Result(off + n, "none", VarintValue(bytes))
    BY <1>3 DEF ReadLong
  <2> HIDE DEF bytes, n, ends
  <2>7. off + n \in off .. Len(s) /\ off < off + n /\ off # Len(s)
    BY <1>1, <1>2, <2>3
  <2> QED BY <2>5, <2>6, <2>7, ResultIs
<1>4. CASE ends = {} /\ off + MaxLen <= Len(s)
  <2>1. ReadLong(s, source, off) = Result(off + MaxLen, "overflow", 0)
    BY <1>4 DEF ReadLong
  <2>2. off + MaxLen \in off .. Len(s) /\ off # Len(s)
    BY <1>1, <1>2, <1>4
  <2> QED BY <1>2, <2>1, <2>2, ResultIs
<1>5. CASE ends = {} /\ ~(off + MaxLen <= Len(s))
  <2>1. ReadLong(s, source, off) = Result(Len(s), ReadFullError(source, 0), 0)
    BY <1>5 DEF ReadLong
  <2>2. ReadFullError(source, 0) \in {"eof", "source"}
    BY DEF ReadFullError
  <2>3. Len(s) \in off .. Len(s)
    BY <1>1
  <2> QED BY <1>2, <2>1, <2>2, <2>3, ResultIs
<1> QED BY <1>3, <1>4, <1>5

LEMMA AnyFixed ==
  ASSUME NEW s \in Seq(Byte), NEW source, NEW off \in 0 .. Len(s), NEW n \in Nat
  PROVE  LET r == ReadFixed(s, source, off, n)
         IN  /\ r.off \in off .. Len(s)
             /\ r.val \in Seq(Byte)
             /\ r.err = "none" => Len(r.val) = n
             /\ r.err \in {"none"} \cup EndOfInput
             /\ (off = Len(s) /\ n > 0) => r.err \in EndOfInput
<1>1. Len(s) \in Nat /\ off \in Nat
  OBVIOUS
<1>2. CASE off + n <= Len(s)
  <2>1. SubSeq(s, off + 1, off + n) \in Seq(Byte) /\ Len(SubSeq(s, off + 1, off + n)) = n
    BY <1>1, <1>2, SubSeqProperties
  <2>2. off + n \in off .. Len(s) /\ ~(off = Len(s) /\ n > 0)
    BY <1>1, <1>2
  <2> DEFINE b == SubSeq(s, off + 1, off + n)
  <2>3. ReadFixed(s, source, off, n) = Result(off + n, "none", b)
    BY <1>2 DEF ReadFixed
  <2>4. b \in Seq(Byte) /\ Len(b) = n
    BY <2>1
  <2> HIDE DEF b
  <2>5. PICK r : r = ReadFixed(s, source, off, n)
    OBVIOUS
  <2>6. r.off = off + n /\ r.err = "none" /\ r.val = b
    BY <2>3, <2>5, ResultIs
  <2>7. r.off \in off .. Len(s) /\ r.val \in Seq(Byte) /\ Len(r.val) = n
    BY <2>2, <2>4, <2>6
  <2>8. r.err \in {"none"} \cup EndOfInput
    BY <2>6
  <2> QED BY <2>2, <2>5, <2>7, <2>8
<1>3. CASE ~(off + n <= Len(s))
  <2>1. ReadFixed(s, source, off, n) = Result(Len(s), ReadFullError(source, Len(s) - off), << >>)
    BY <1>3 DEF ReadFixed
  <2>2. ReadFullError(source, Len(s) - off) \in EndOfInput
        /\ ReadFullError(source, Len(s) - off) # "none"
    BY DEF ReadFullError, EndOfInput
  <2>3. Len(s) \in off .. Len(s) /\ << >> \in Seq(Byte)
    BY <1>1
  <2>4. PICK r : r = ReadFixed(s, source, off, n)
    OBVIOUS
  <2>5. r.off = Len(s) /\ r.err \in EndOfInput /\ r.err # "none" /\ r.val = << >>
    BY <2>1, <2>2, <2>4, ResultIs
  <2>6. r.off \in off .. Len(s) /\ r.val \in Seq(Byte)
    BY <2>3, <2>5
  <2> QED BY <2>4, <2>5, <2>6
<1> QED BY <1>2, <1>3

LEMMA AnyInt ==
  ASSUME NEW s \in Seq(Byte), NEW source, NEW off \in 0 .. Len(s)
  PROVE  LET r == ReadInt(s, source, off)
         IN  /\ r.off \in off .. Len(s)
             /\ r.err = "none" => r.val \in Ints
             /\ r.err # "more"
             /\ off = Len(s) => r.err \in EndOfInput
<1> DEFINE l == ReadLong(s, source, off)
<1>1. /\ l.off \in off .. Len(s) /\ l.err # "more"
      /\ off = Len(s) => l.err \in {"eof", "source"}
  BY AnyLong
<1>2. ReadInt(s, source, off) =
        IF l.err = "none" /\ l.val \notin Ints THEN Result(l.off, "overflow", 0) ELSE l
  BY DEF ReadInt, Ints
<1> HIDE DEF l
<1> QED BY <1>1, <1>2, ResultIs DEF EndOfInput

LEMMA AnyBytes ==
  ASSUME NEW s \in Seq(Byte), NEW source, NEW off \in 0 .. Len(s)
  PROVE  LET r == ReadBytes(s, source, off)
         IN  /\ r.off \in off .. Len(s)
             /\ r.err = "none" => r.val \in ShortStrings
             /\ r.err # "more"
             /\ off = Len(s) => r.err \in EndOfInput
<1> DEFINE n == ReadLong(s, source, off)
           b == ReadFixed(s, source, n.off, n.val)
<1>1. /\ n.off \in off .. Len(s) /\ n.val \in Long /\ n.err # "more"
      /\ off = Len(s) => n.err \in {"eof", "source"}
  BY AnyLong
<1>2. n.off \in 0 .. Len(s) /\ n.val \in Int
  <2>1. Len(s) \in Nat
    OBVIOUS
  <2> HIDE DEF n
  <2> QED BY <1>1, <2>1, HalfIsPositive DEF Long
<1>3. ReadBytes(s, source, off) =
        IF n.err # "none" THEN Result(n.off, n.err, << >>)
        ELSE IF n.val < 0 THEN Result(n.off, "negativeLength", << >>)
        ELSE IF n.val >= IntHalf THEN Result(n.off, "overflow", << >>)
        ELSE b
  BY DEF ReadBytes
<1> HIDE DEF n
<1>4. CASE n.err # "none" \/ n.val < 0 \/ n.val >= IntHalf
  <2>1. /\ ReadBytes(s, source, off).off = n.off
        /\ ReadBytes(s, source, off).err \notin {"none", "more"}
        /\ (n.err # "none" => ReadBytes(s, source, off).err = n.err)
    BY <1>1, <1>3, <1>4, ResultIs
  <2> QED BY <1>1, <2>1 DEF EndOfInput
<1>5. CASE ~(n.err # "none" \/ n.val < 0 \/ n.val >= IntHalf)
  <2>1. n.val \in Nat /\ n.val < IntHalf
    BY <1>2, <1>5, IntHalfAssumption, HalfIsPositive
  <2>2. ReadBytes(s, source, off) = b
    BY <1>3, <1>5
  <2>3. b.off \in n.off .. Len(s) /\ b.val \in Seq(Byte) /\ (b.err = "none" => Len(b.val) = n.val)
        /\ b.err \in {"none"} \cup EndOfInput
    BY <1>2, <2>1, AnyFixed
  <2> HIDE DEF b
  <2>4. b.off \in off .. Len(s)
    BY <1>1, <2>3
  <2>5. off # Len(s)
    BY <1>1, <1>5
  <2>6. b.err # "more"
    BY <2>3 DEF EndOfInput
  <2>7. n.val < Half
    BY <1>2, <2>1, IntHalfAssumption, HalfIsPositive
  <2>8. b.err = "none" => b.val \in ShortStrings
    BY <2>1, <2>3, <2>7 DEF ShortStrings, Strings
  <2> QED BY <2>2, <2>3, <2>4, <2>5, <2>6, <2>8
<1> QED BY <1>4, <1>5

LEMMA WrittenIs == \A b :
  Written(b).out = b /\ Written(b).err = "none" /\ Refused.out = << >> /\ Refused.err = "refused"
BY DEF Written, Refused

-----------------------------------------------------------------------------
(***************************************************************************)
(* A plan without parts makes of any bytes a value that it encodes.        *)
(***************************************************************************)
LEMMA AnySimple ==
  ASSUME NEW s \in Seq(Byte), NEW source, NEW off \in 0 .. Len(s),
         NEW plan \in Layouts, plan.kind \in SimpleKinds
  PROVE  LET r == DecodeSimple(plan, s, source, off)
         IN  /\ r.off \in off .. Len(s)
             /\ r.err # "more"
             /\ r.err = "none" =>
                  /\ r.val \in Leaves(ShortStrings) /\ r.val[1] = plan.tag
                  /\ EncodeSimple(plan, r.val).err = "none"
             /\ off = Len(s) => IF plan.kind = "null" THEN r.err = "none" ELSE r.err \in EndOfInput
<1> DEFINE r == DecodeSimple(plan, s, source, off)
<1>0. /\ plan.tag \in Tags(plan.kind) /\ plan.size \in Nat
      /\ plan.kind = "fixed" => plan.size > 0 /\ plan.size < Half
      /\ plan.kind = "enum" => plan.size <= IntHalf
  BY LayoutsAssumption, IntHalfAssumption, HalfIsPositive
<1>1. \A x, v : /\ Typed(plan, x, v).off = x.off /\ Typed(plan, x, v).err = x.err
                /\ Typed(plan, x, v).val = <<plan.tag, v>>
  BY ResultIs DEF Typed
<1>2. CASE plan.kind = "null"
  <2>1. r = Result(off, "none", <<"null">>)
    BY <1>2 DEF DecodeSimple
  <2>2. plan.tag = "null" /\ off \in off .. Len(s) /\ <<"null">>[1] = "null"
    BY <1>0, <1>2, TagsAre DEF SimpleKinds
  <2>3. EncodeSimple(plan, <<"null">>).err = "none"
    BY <1>2, WrittenIs DEF EncodeSimple
  <2> QED BY <1>2, <2>1, <2>2, <2>3, ResultIs, LeavesHold
<1>3. CASE plan.kind = "boolean"
  <2> DEFINE x == ReadFixed(s, source, off, 1)
  <2>1. r = Typed(plan, x, x.val # <<0>>)
    BY <1>3 DEF DecodeSimple
  <2>2. /\ x.off \in off .. Len(s) /\ (off = Len(s) => x.err \in EndOfInput)
        /\ x.err # "more"
    BY AnyFixed DEF EndOfInput
  <2>3. plan.tag = "boolean"
    BY <1>0, <1>3, TagsAre DEF SimpleKinds
  <2>4. \A v : EncodeSimple(plan, v).err = "none"
    BY <1>3, WrittenIs DEF EncodeSimple
  <2> HIDE DEF x
  <2>5. r.val = <<"boolean", x.val # <<0>>>> /\ r.val[1] = "boolean"
    BY <1>1, <2>1, <2>3
  <2>6. (x.val # <<0>>) \in BOOLEAN
    OBVIOUS
  <2> QED BY <1>1, <1>3, <2>1, <2>2, <2>3, <2>4, <2>5, <2>6, LeavesHold
<1>4. CASE plan.kind = "int"
  <2> DEFINE x == ReadInt(s, source, off)
  <2>1. r = Typed(plan, x, x.val)
    BY <1>4 DEF DecodeSimple
  <2>2. x.off \in off .. Len(s) /\ (x.err = "none" => x.val \in Ints) /\ x.err # "more"
        /\ (off = Len(s) => x.err \in EndOfInput)
    BY AnyInt
  <2>3. \A v : EncodeSimple(plan, v).err = "none"
    BY <1>4, WrittenIs DEF EncodeSimple
  <2> HIDE DEF x
  <2>4. r.off = x.off /\ r.err = x.err /\ r.val = <<plan.tag, x.val>> /\ r.val[1] = plan.tag
    BY <1>1, <2>1
  <2> HIDE DEF r
  <2>5. r.err = "none" => r.val \in Leaves(ShortStrings)
    BY <1>0, <1>4, <2>2, <2>4, LeavesHold
  <2> QED BY <1>4, <2>2, <2>3, <2>4, <2>5 DEF r
<1>5. CASE plan.kind = "long"
  <2> DEFINE x == ReadLong(s, source, off)
  <2>1. r = Typed(plan, x, x.val)
    BY <1>5 DEF DecodeSimple
  <2>2. x.off \in off .. Len(s) /\ x.val \in Long /\ x.err # "more"
        /\ (off = Len(s) => x.err \in {"eof", "source"})
    BY AnyLong
  <2>3. \A v : EncodeSimple(plan, v).err = "none"
    BY <1>5, WrittenIs DEF EncodeSimple
  <2> HIDE DEF x
  <2>4. r.off = x.off /\ r.err = x.err /\ r.val = <<plan.tag, x.val>> /\ r.val[1] = plan.tag
    BY <1>1, <2>1
  <2> HIDE DEF r
  <2>5. r.err = "none" => r.val \in Leaves(ShortStrings)
    BY <1>0, <1>5, <2>2, <2>4, LeavesHold
  <2> QED BY <1>5, <2>2, <2>3, <2>4, <2>5 DEF r, EndOfInput
<1>6. CASE plan.kind = "string"
  <2> DEFINE x == ReadBytes(s, source, off)
  <2>1. r = Typed(plan, x, x.val)
    BY <1>6 DEF DecodeSimple
  <2>2. x.off \in off .. Len(s) /\ (x.err = "none" => x.val \in ShortStrings) /\ x.err # "more"
        /\ (off = Len(s) => x.err \in EndOfInput)
    BY AnyBytes
  <2>3. \A v : EncodeSimple(plan, v).err = "none"
    BY <1>6, WrittenIs DEF EncodeSimple
  <2> HIDE DEF x
  <2>4. r.off = x.off /\ r.err = x.err /\ r.val = <<plan.tag, x.val>> /\ r.val[1] = plan.tag
    BY <1>1, <2>1
  <2> HIDE DEF r
  <2>5. r.err = "none" => r.val \in Leaves(ShortStrings)
    BY <1>0, <1>6, <2>2, <2>4, LeavesHold
  <2> QED BY <1>6, <2>2, <2>3, <2>4, <2>5 DEF r
<1>7. CASE plan.kind = "fixed"
  <2> DEFINE x == ReadFixed(s, source, off, plan.size)
  <2>1. r = Typed(plan, x, x.val)
    BY <1>7 DEF DecodeSimple
  <2>2. x.off \in off .. Len(s) /\ x.val \in Seq(Byte) /\ (x.err = "none" => Len(x.val) = plan.size)
        /\ (off = Len(s) => x.err \in EndOfInput) /\ x.err # "more"
    BY <1>0, <1>7, AnyFixed DEF EndOfInput
  <2>3. \A v : Len(v[2]) = plan.size => EncodeSimple(plan, v).err = "none"
    BY <1>7, WrittenIs DEF EncodeSimple
  <2>4. plan.tag \in Tags("fixed")
    BY <1>0, <1>7
  <2> HIDE DEF x
  <2>5. r.off = x.off /\ r.err = x.err /\ r.val = <<plan.tag, x.val>> /\ r.val[1] = plan.tag
        /\ r.val[2] = x.val
    BY <1>1, <2>1
  <2> HIDE DEF r
  <2>6. r.err = "none" => EncodeSimple(plan, r.val).err = "none"
    BY <2>2, <2>3, <2>5
  <2>7. r.err = "none" => x.val \in Strings
    BY <1>0, <1>7, <2>2, <2>5 DEF Strings
  <2>8. r.err = "none" => r.val \in Leaves(ShortStrings)
    BY <2>4, <2>5, <2>7, LeavesHold
  <2> QED BY <1>7, <2>2, <2>5, <2>6, <2>8 DEF r
<1>8. CASE plan.kind = "enum"
  <2> DEFINE x == ReadInt(s, source, off)
  <2>1. r = IF x.err # "none" \/ IndexIn(x.val, plan.size)
            THEN Typed(plan, x, x.val) ELSE OutOfRange(x)
    BY <1>8 DEF DecodeSimple
  <2>2. /\ x.off \in off .. Len(s) /\ (off = Len(s) => x.err \in EndOfInput)
        /\ x.err # "more"
    BY AnyInt
  <2>3. \A v : v[2] < plan.size => EncodeSimple(plan, v).err = "none"
    BY <1>8, WrittenIs DEF EncodeSimple
  <2>4. plan.tag = "enum"
    BY <1>0, <1>8, TagsAre DEF SimpleKinds
  <2>5. IndexIn(x.val, plan.size) => x.val \in Nat /\ x.val < plan.size
    <3> HIDE DEF x
    <3> QED BY <1>0 DEF IndexIn
  <2> HIDE DEF x
  <2>6. CASE x.err # "none"
    BY <1>1, <1>8, <2>1, <2>2, <2>6
  <2>7. CASE x.err = "none" /\ IndexIn(x.val, plan.size)
    <3>1. r.err = "none" /\ r.off = x.off /\ r.val = <<"enum", x.val>>
      BY <1>1, <2>1, <2>4, <2>7
    <3>2. off # Len(s)
      BY <2>2, <2>7 DEF EndOfInput
    <3> HIDE DEF r
    <3>3. r.val[2] < plan.size
      BY <3>1, <2>5, <2>7
    <3> QED BY <1>8, <2>2, <2>3, <2>4, <2>5, <2>7, <3>1, <3>2, <3>3, LeavesHold DEF r
  <2>8. CASE x.err = "none" /\ ~IndexIn(x.val, plan.size)
    <3>1. r.err = "indexOutOfRange" /\ r.off = x.off
      BY <2>1, <2>8, ResultIs DEF OutOfRange
    <3>2. off # Len(s)
      BY <2>2, <2>8 DEF EndOfInput
    <3> QED BY <1>8, <2>2, <3>1, <3>2
  <2> QED BY <2>6, <2>7, <2>8
<1> QED BY <1>2, <1>3, <1>4, <1>5, <1>6, <1>7, <1>8 DEF SimpleKinds

-----------------------------------------------------------------------------
(***************************************************************************)
(* What encoding makes of a value is bytes and an error.                   *)
(***************************************************************************)
Encodings == [out : Seq(Byte), err : {"none", "refused"}]

\* What the encoders make of some values.
Encodes(encoders, some) ==
  \A plan \in Layouts, v \in some : encoders[plan][v] \subseteq Encodings

\* Encodings one after the other.
LEMMA ThenIs ==
  ASSUME NEW x \in Encodings, NEW y \in Encodings
  PROVE  /\ Then(x, y) \in Encodings
         /\ x.err # "none" => Then(x, y) = x
         /\ x.err = "none" => /\ Then(x, y).out = x.out \o y.out
                              /\ Then(x, y).err = y.err
         /\ Then(x, y).err = "none" <=> x.err = "none" /\ y.err = "none"
<1> DEFINE z == [y EXCEPT !.out = x.out \o y.out]
<1>1. x.out \o y.out \in Seq(Byte) /\ y.err \in {"none", "refused"}
  BY JoinedIsBytes DEF Encodings
<1>2. z = [out |-> x.out \o y.out, err |-> y.err]
  <2>1. \A b : [y EXCEPT !.out = b] = [out |-> b, err |-> y.err]
    BY DEF Encodings
  <2> QED BY <2>1
<1>3. z \in Encodings /\ z.out = x.out \o y.out /\ z.err = y.err
  <2> DEFINE b == x.out \o y.out
  <2>1. b \in Seq(Byte) /\ z = [out |-> b, err |-> y.err]
    BY <1>1, <1>2
  <2> HIDE DEF b, z
  <2>2. z \in Encodings /\ z.out = b /\ z.err = y.err
    BY <1>1, <2>1 DEF Encodings
  <2> QED BY <2>2 DEF b
<1>4. Then(x, y) = IF x.err = "none" THEN z ELSE x
  BY DEF Then
<1> HIDE DEF z
<1> QED BY <1>3, <1>4

LEMMA WrittenEncodes ==
  /\ \A b \in Seq(Byte) : Written(b) \in Encodings
  /\ Refused \in Encodings
BY DEF Written, Refused, Encodings

LEMMA StringLength ==
  ASSUME NEW v \in ShortStrings
  PROVE  v \in Seq(Byte) /\ Len(v) \in Long /\ Len(v) \in Nat /\ Len(v) < IntHalf
<1>1. v \in Seq(Byte) /\ Len(v) \in Nat /\ Len(v) < IntHalf
  BY DEF ShortStrings, Strings
<1>2. IntHalf \in Nat /\ IntHalf <= Half /\ Half \in Nat
  BY IntHalfAssumption, HalfIsPositive
<1> QED BY <1>1, <1>2 DEF Long

LEMMA IntsAreLong == Ints \subseteq Long
<1>1. IntHalf \in Nat /\ IntHalf <= Half /\ Half \in Nat
  BY IntHalfAssumption, HalfIsPositive
<1> QED BY <1>1 DEF Ints, Long

LEMMA SimpleEncodes ==
  ASSUME NEW n \in 0 .. MaxNesting, NEW plan \in Layouts, plan.kind \in SimpleKinds,
         NEW v \in Level[n], v[1] = plan.tag
  PROVE  EncodeSimple(plan, v) \in Encodings
<1>1. CASE plan.kind = "null"
  <2>1. EncodeSimple(plan, v) = Written(<< >>)
    BY <1>1 DEF EncodeSimple
  <2>2. << >> \in Seq(Byte)
    OBVIOUS
  <2> QED BY <2>1, <2>2, WrittenEncodes
<1>2. CASE plan.kind = "boolean"
  <2>1. EncodeSimple(plan, v) = Written(<<IF v[2] THEN 1 ELSE 0>>)
    BY <1>2 DEF EncodeSimple
  <2>2. 0 \in Byte /\ 1 \in Byte
    BY VarintAssumption DEF Byte
  <2>3. <<IF v[2] THEN 1 ELSE 0>> \in Seq(Byte)
    BY <2>2
  <2> QED BY <2>1, <2>3, WrittenEncodes
<1>3. CASE plan.kind \in {"int", "long"}
  <2>1. EncodeSimple(plan, v) = Written(PutVarint(v[2]))
    BY <1>3 DEF EncodeSimple
  <2>2. v[2] \in Long
    BY <1>3, SimpleValue, IntsAreLong
  <2> QED BY <2>1, <2>2, PutVarintIsBytes, WrittenEncodes
<1>4. CASE plan.kind = "string"
  <2>1. EncodeSimple(plan, v) = Written(PutVarint(Len(v[2])) \o v[2])
    BY <1>4 DEF EncodeSimple
  <2>2. v[2] \in ShortStrings
    BY <1>4, SimpleValue
  <2>3. PutVarint(Len(v[2])) \o v[2] \in Seq(Byte)
    BY <2>2, StringLength, PutVarintIsBytes, JoinedIsBytes
  <2> QED BY <2>1, <2>3, WrittenEncodes
<1>5. CASE plan.kind = "fixed"
  <2>1. EncodeSimple(plan, v) = IF Len(v[2]) = plan.size THEN Written(v[2]) ELSE Refused
    BY <1>5 DEF EncodeSimple
  <2>2. v[2] \in Strings
    BY <1>5, SimpleValue
  <2> QED BY <2>1, <2>2, WrittenEncodes DEF Strings
<1>6. CASE plan.kind = "enum"
  <2>1. EncodeSimple(plan, v) = IF v[2] < plan.size THEN Written(PutVarint(v[2])) ELSE Refused
    BY <1>6 DEF EncodeSimple
  <2>2. v[2] \in Nat /\ plan.size \in Nat /\ plan.size <= IntHalf
    BY <1>6, SimpleValue, LayoutsAssumption
  <2>3. v[2] < plan.size => v[2] \in Long
    BY <2>2, IntHalfAssumption, HalfIsPositive DEF Long
  <2> QED BY <2>1, <2>3, PutVarintIsBytes, WrittenEncodes
<1> QED BY <1>1, <1>2, <1>3, <1>4, <1>5, <1>6 DEF SimpleKinds

LEMMA AllEncodes ==
  ASSUME NEW some, NEW encoders, Encodes(encoders, some),
         NEW plans \in Seq(Layouts), NEW vs \in Seq(some), Len(plans) = Len(vs)
  PROVE  EncodeAll(encoders, plans, vs) \subseteq Encodings
<1>0. Len(vs) \in Nat
  OBVIOUS
<1>1. PICK upTo :
        /\ EncodeAll(encoders, plans, vs) = upTo[Len(vs)]
        /\ \A z \in upTo[0] : Nothing(z)
        /\ \A n \in 1 .. Len(vs) : \A z \in upTo[n] :
             Joins(z, upTo[n - 1], encoders[plans[n]][vs[n]])
  BY <1>0, EncodeAllPath
<1> DEFINE S == {i \in 0 .. Len(vs) : upTo[i] \subseteq Encodings}
<1>2. 0 \in S
  <2>1. << >> \in Seq(Byte)
    OBVIOUS
  <2>2. upTo[0] \subseteq Encodings
    BY <1>1, <2>1, WrittenEncodes DEF Nothing
  <2>3. 0 \in 0 .. Len(vs)
    BY <1>0
  <2> QED BY <2>2, <2>3
<1>3. ASSUME NEW i \in 1 .. Len(vs), i - 1 \in S
      PROVE  i \in S
  <2>1. plans[i] \in Layouts /\ vs[i] \in some
    OBVIOUS
  <2>2. encoders[plans[i]][vs[i]] \subseteq Encodings
    BY <2>1 DEF Encodes
  <2>3. upTo[i - 1] \subseteq Encodings
    BY <1>3
  <2>4. \A z \in upTo[i] : Joins(z, upTo[i - 1], encoders[plans[i]][vs[i]])
    BY <1>1
  <2>5. \A z \in upTo[i] : z \in Encodings
    BY <2>2, <2>3, <2>4, ThenIs DEF Joins
  <2>6. upTo[i] \subseteq Encodings
    BY <2>5
  <2> QED BY <2>6
<1> HIDE DEF S
<1>4. \A i \in 0 .. Len(vs) : i \in S
  BY <1>0, <1>2, <1>3, UpTo
<1>5. Len(vs) \in S
  BY <1>0, <1>4
<1> QED BY <1>1, <1>5 DEF S

\* The plans of the items of a block.
LEMMA BlockPlansAre ==
  ASSUME NEW plan \in Layouts, plan.kind \in {"array", "map"}, NEW n \in Nat
  PROVE  /\ plan.parts[1] \in Layouts
         /\ BlockPlans(plan, n) \in Seq(Layouts)
         /\ plan.kind = "array" => /\ Len(BlockPlans(plan, n)) = n
                                   /\ \A i \in 1 .. n : BlockPlans(plan, n)[i] = plan.parts[1]
         /\ plan.kind = "map" =>
              /\ Len(BlockPlans(plan, n)) = 2 * n
              /\ \A i \in 1 .. 2 * n : BlockPlans(plan, n)[i] =
                   IF i % 2 = 1 THEN Simple("string") ELSE plan.parts[1]
<1>1. plan.parts \in Seq(Layouts) /\ Len(plan.parts) = 1 /\ Simple("string") \in Layouts
  BY LayoutsAssumption
<1>2. plan.parts[1] \in Layouts
  BY <1>1
<1>3. CASE plan.kind = "array"
  <2>1. BlockPlans(plan, n) = [i \in 1 .. n |-> plan.parts[1]]
    BY <1>3 DEF BlockPlans
  <2> QED BY <1>2, <1>3, <2>1
<1>4. CASE plan.kind = "map"
  <2>1. BlockPlans(plan, n) =
          [i \in 1 .. 2 * n |-> IF i % 2 = 1 THEN Simple("string") ELSE plan.parts[1]]
    BY <1>4 DEF BlockPlans
  <2>2. 2 * n \in Nat
    OBVIOUS
  <2> QED BY <1>1, <1>2, <1>4, <2>1, <2>2
<1> QED BY <1>2, <1>3, <1>4

LEMMA BlockEncodes ==
  ASSUME NEW some, NEW encoders, Encodes(encoders, some), NEW n \in Nat, n < Half,
         NEW plans \in Seq(Layouts), NEW vs \in Seq(some), Len(plans) = Len(vs)
  PROVE  /\ EncodeBlock(encoders, plans, vs, n) \subseteq Encodings
         /\ BlockBegun(n) \in Encodings /\ BlockBegun(n).err = "none"
         /\ BlockBegun(n).out = IF n = 0 THEN << >> ELSE PutVarint(n)
         /\ n \in Long /\ 0 \in Long /\ Written(PutVarint(0)) \in Encodings
<1>1. n \in Long /\ 0 \in Long
  BY HalfIsPositive DEF Long
<1>2. << >> \in Seq(Byte)
  OBVIOUS
<1>3. BlockBegun(n) \in Encodings /\ Written(PutVarint(0)) \in Encodings
  BY <1>1, <1>2, PutVarintIsBytes, WrittenEncodes DEF BlockBegun
<1>4. \A x \in EncodeAll(encoders, plans, vs) : Ended(Then(BlockBegun(n), x), n) \in Encodings
  <2> TAKE x \in EncodeAll(encoders, plans, vs)
  <2>1. x \in Encodings
    BY AllEncodes
  <2> QED BY <1>3, <2>1, ThenIs DEF Ended
<1>5. BlockBegun(n).err = "none" /\ BlockBegun(n).out = IF n = 0 THEN << >> ELSE PutVarint(n)
  BY WrittenIs DEF BlockBegun
<1> QED BY <1>1, <1>3, <1>4, <1>5 DEF EncodeBlock

LEMMA FieldPlansAre ==
  ASSUME NEW plan \in Layouts, plan.kind \in {"record", "ref"}
  PROVE  FieldPlans(plan) \in Seq(Layouts) /\ Len(FieldPlans(plan)) < Half /\ plan.tag = "record"
<1>1. plan.parts \in Seq(Layouts) /\ Len(plan.parts) < Half /\ plan.tag = "record"
  BY LayoutsAssumption, TagsAre
<1>2. ASSUME plan.kind = "ref"
      PROVE  Definitions[plan.size] \in Layouts
  BY <1>2, LayoutsAssumption
<1>3. ASSUME plan.kind = "ref"
      PROVE  /\ Definitions[plan.size].parts \in Seq(Layouts)
             /\ Len(Definitions[plan.size].parts) < Half
  BY <1>2, <1>3, LayoutsAssumption
<1> QED BY <1>1, <1>3 DEF FieldPlans

\* A map is a finite set of pairs, and a walk of it a sequence of them.
LEMMA MapsAre ==
  ASSUME NEW some, NEW map \in Maps(ShortStrings, some)
  PROVE  /\ map \in SUBSET (ShortStrings \X some) /\ IsFiniteSet(map)
         /\ Cardinality(map) \in Nat /\ Cardinality(map) < Half
         /\ \A e \in map : e[1] \in ShortStrings /\ e[2] \in some /\ e = <<e[1], e[2]>>
         /\ \A e, f \in map : e[1] = f[1] => e = f
<1>1. map \in SUBSET (ShortStrings \X some) /\ IsFiniteSet(map) /\ Cardinality(map) < Half
      /\ \A e, f \in map : e[1] = f[1] => e = f
  BY DEF Maps
<1>2. Cardinality(map) \in Nat
  BY <1>1, FS_CardinalityType
<1>3. \A e \in map : e \in ShortStrings \X some
  BY <1>1
<1>4. \A e \in map : e[1] \in ShortStrings /\ e[2] \in some /\ e = <<e[1], e[2]>>
  BY <1>3
<1> QED BY <1>1, <1>2, <1>4

LEMMA FlatIs ==
  ASSUME NEW m \in 0 .. MaxNesting, NEW map \in Maps(ShortStrings, Level[m]),
         NEW walk \in Walks(map)
  PROVE  LET n == Cardinality(map)
             flat == Flat(walk)
         IN  /\ walk \in [1 .. n -> map] /\ Len(walk) = n
             /\ flat \in Seq(Level[m]) /\ Len(flat) = 2 * n
             /\ \A i \in 1 .. n : /\ flat[2 * i - 1] = <<"string", walk[i][1]>>
                                  /\ flat[2 * i] = walk[i][2]
<1> DEFINE n == Cardinality(map)
           flat == Flat(walk)
<1>1. n \in Nat /\ \A e \in map : e[1] \in ShortStrings /\ e[2] \in Level[m]
  BY MapsAre
<1> HIDE DEF n
<1>2. walk \in [1 .. n -> map]
  BY DEF Walks, n
<1>3. walk \in Seq(map) /\ Len(walk) = n
  BY <1>1, <1>2
<1>4. flat = [i \in 1 .. 2 * n |->
        IF i % 2 = 1 THEN <<"string", walk[(i + 1) \div 2][1]>> ELSE walk[i \div 2][2]]
  BY <1>3 DEF Flat
<1>5. \A e \in map : <<"string", e[1]>> \in Level[m]
  <2>1. "string" \in Tags("string")
    BY TagsAre
  <2>2. Leaves(ShortStrings) \subseteq Level[m]
    BY LevelHolds
  <2> QED BY <1>1, <2>1, <2>2, LeavesHold
<1>6. \A i \in 1 .. 2 * n : /\ i % 2 = 1 => (i + 1) \div 2 \in 1 .. n
                            /\ i % 2 # 1 => i \div 2 \in 1 .. n
  BY <1>1
<1> DEFINE cell(i) == IF i % 2 = 1 THEN <<"string", walk[(i + 1) \div 2][1]>> ELSE walk[i \div 2][2]
<1>7. \A i \in 1 .. 2 * n : cell(i) \in Level[m]
  <2> TAKE i \in 1 .. 2 * n
  <2>1. CASE i % 2 = 1
    <3>1. walk[(i + 1) \div 2] \in map
      BY <1>2, <1>6, <2>1
    <3> QED BY <1>5, <2>1, <3>1
  <2>2. CASE i % 2 # 1
    <3>1. walk[i \div 2] \in map
      BY <1>2, <1>6, <2>2
    <3> QED BY <1>1, <2>2, <3>1
  <2> QED BY <2>1, <2>2
<1>8. flat = [i \in 1 .. 2 * n |-> cell(i)]
  BY <1>4
<1> HIDE DEF cell, flat
<1>9. flat \in Seq(Level[m]) /\ Len(flat) = 2 * n
  <2>1. 2 * n \in Nat
    BY <1>1
  <2> QED BY <1>7, <1>8, <2>1
<1>10. ASSUME NEW i \in 1 .. n
       PROVE  flat[2 * i - 1] = <<"string", walk[i][1]>> /\ flat[2 * i] = walk[i][2]
  <2>1. 2 * i - 1 \in 1 .. 2 * n /\ 2 * i \in 1 .. 2 * n
        /\ (2 * i - 1) % 2 = 1 /\ (2 * i) % 2 # 1
        /\ ((2 * i - 1) + 1) \div 2 = i /\ (2 * i) \div 2 = i
    BY <1>1
  <2>2. cell(2 * i - 1) = <<"string", walk[i][1]>> /\ cell(2 * i) = walk[i][2]
    BY <2>1 DEF cell
  <2> QED BY <1>8, <2>1, <2>2
<1> QED BY <1>2, <1>3, <1>9, <1>10 DEF n, flat

LEMMA CompoundEncodes ==
  ASSUME NEW n \in 1 .. MaxNesting, NEW encoders, Encodes(encoders, Level[n - 1]),
         NEW plan \in Layouts, plan.kind \notin SimpleKinds,
         NEW v \in Level[n], v[1] = plan.tag
  PROVE  EncodeCompound(encoders, plan, v) \subseteq Encodings
<1>0. n \in 0 .. MaxNesting /\ n - 1 \in 0 .. MaxNesting
  BY LayoutsAssumption
<1>1. CASE plan.kind = "union"
  <2>1. v[2] \in Int /\ v[3] \in Level[n - 1]
    BY <1>0, <1>1, CompoundValue
  <2>2. plan.parts \in Seq(Layouts) /\ Len(plan.parts) < Half
    BY LayoutsAssumption
  <2>3. EncodeCompound(encoders, plan, v) =
          IF v[2] \in 1 .. Len(plan.parts)
          THEN {Then(Written(PutVarint(v[2] - 1)), x) : x \in encoders[plan.parts[v[2]]][v[3]]}
          ELSE {Refused}
    BY <1>1 DEF EncodeCompound
  <2>4. CASE v[2] \in 1 .. Len(plan.parts)
    <3>1. plan.parts[v[2]] \in Layouts
      BY <2>2, <2>4
    <3>2. v[2] - 1 \in Long
      BY <2>1, <2>2, <2>4, HalfIsPositive DEF Long
    <3>3. Written(PutVarint(v[2] - 1)) \in Encodings
      BY <3>2, PutVarintIsBytes, WrittenEncodes
    <3>4. encoders[plan.parts[v[2]]][v[3]] \subseteq Encodings
      BY <2>1, <3>1 DEF Encodes
    <3> DEFINE w == Written(PutVarint(v[2] - 1))
               some == encoders[plan.parts[v[2]]][v[3]]
    <3>5. \A x \in some : Then(w, x) \in Encodings
      <4> HIDE DEF w
      <4> QED BY <3>3, <3>4, ThenIs DEF w
    <3>6. EncodeCompound(encoders, plan, v) = {Then(w, x) : x \in some}
      BY <2>3, <2>4
    <3> HIDE DEF w, some
    <3> QED BY <3>5, <3>6
  <2> QED BY <2>3, <2>4, WrittenEncodes
<1>2. CASE plan.kind \in {"record", "ref"}
  <2>1. EncodeCompound(encoders, plan, v) =
          IF Len(v[2]) = Len(FieldPlans(plan)) THEN EncodeAll(encoders, FieldPlans(plan), v[2])
          ELSE {Refused}
    BY <1>2 DEF EncodeCompound
  <2>2. v[2] \in Seq(Level[n - 1])
    BY <1>0, <1>2, CompoundValue
  <2>3. FieldPlans(plan) \in Seq(Layouts)
    BY <1>2, FieldPlansAre
  <2>4. CASE Len(v[2]) = Len(FieldPlans(plan))
    BY <2>1, <2>2, <2>3, <2>4, AllEncodes
  <2>5. CASE Len(v[2]) # Len(FieldPlans(plan))
    BY <2>1, <2>5, WrittenEncodes
  <2> QED BY <2>4, <2>5
<1>3. CASE plan.kind = "array"
  <2>1. v[2] \in Seq(Level[n - 1]) /\ Len(v[2]) < Half /\ Len(v[2]) \in Nat
    BY <1>0, <1>3, CompoundValue
  <2>2. EncodeCompound(encoders, plan, v) =
          EncodeBlock(encoders, BlockPlans(plan, Len(v[2])), v[2], Len(v[2]))
    BY <1>3 DEF EncodeCompound
  <2> QED BY <1>3, <2>1, <2>2, BlockPlansAre, BlockEncodes
<1>4. CASE plan.kind = "map"
  <2> DEFINE c == Cardinality(v[2])
             block(walk) == EncodeBlock(encoders, BlockPlans(plan, c), Flat(walk), c)
  <2>1. v[2] \in Maps(ShortStrings, Level[n - 1])
    BY <1>0, <1>4, CompoundValue
  <2>2. c \in Nat /\ c < Half
    BY <2>1, MapsAre
  <2>3. EncodeCompound(encoders, plan, v) = UNION {block(walk) : walk \in Walks(v[2])}
    BY <1>4 DEF EncodeCompound
  <2>4. ASSUME NEW walk \in Walks(v[2])
        PROVE  block(walk) \subseteq Encodings
    <3>1. Flat(walk) \in Seq(Level[n - 1]) /\ Len(Flat(walk)) = 2 * c
      BY <1>0, <2>1, FlatIs
    <3> HIDE DEF c
    <3>2. BlockPlans(plan, c) \in Seq(Layouts) /\ Len(BlockPlans(plan, c)) = 2 * c
      BY <1>4, <2>2, BlockPlansAre
    <3> QED BY <2>2, <3>1, <3>2, BlockEncodes
  <2> HIDE DEF block
  <2> QED BY <2>3, <2>4
<1>5. plan.kind \in {"union", "record", "ref", "array", "map"}
  BY LayoutsAssumption
<1> QED BY <1>1, <1>2, <1>3, <1>4, <1>5

\* What is given back may be given.
LEMMA LevelIsEncodable == \A n \in 0 .. MaxNesting : Level[n] \subseteq Encodable[n]
<1>0. MaxNesting \in Nat
  BY LayoutsAssumption
<1>1. ShortStrings \subseteq Strings
  BY DEF ShortStrings
<1>2. Leaves(ShortStrings) \subseteq Leaves(Strings)
  BY <1>1 DEF Leaves
<1>3. ASSUME NEW some, NEW more, some \subseteq more
      PROVE  Compound(ShortStrings, some) \subseteq Compound(Strings, more)
  <2>1. Seq(some) \subseteq Seq(more)
    BY <1>3
  <2>2. Maps(ShortStrings, some) \subseteq Maps(Strings, more)
    <3> SUFFICES ASSUME NEW map \in Maps(ShortStrings, some) PROVE map \in Maps(Strings, more)
      OBVIOUS
    <3>1. map \in SUBSET (Strings \X more)
      BY <1>1, <1>3, MapsAre
    <3> QED BY <3>1 DEF Maps
  <2> SUFFICES ASSUME NEW v \in Compound(ShortStrings, some) PROVE v \in Compound(Strings, more)
    OBVIOUS
  <2>3. CASE \E tag \in {"array", "record"}, x \in Seq(some) : v = <<tag, x>> /\ Len(x) < Half
    BY <2>1, <2>3 DEF Compound
  <2>4. CASE \E x \in Maps(ShortStrings, some) : v = <<"map", x>>
    BY <2>2, <2>4 DEF Compound
  <2>5. CASE \E i \in Int, x \in some : v = <<"union", i, x>>
    BY <1>3, <2>5 DEF Compound
  <2> QED BY <2>3, <2>4, <2>5, CompoundsAre
<1> DEFINE S == {n \in 0 .. MaxNesting : Level[n] \subseteq Encodable[n]}
<1>4. 0 \in S
  <2>1. 0 \in 0 .. MaxNesting
    BY <1>0
  <2> QED BY <1>2, <2>1, LevelUnfolds, EncodableUnfolds
<1>5. \A n \in 1 .. MaxNesting : n - 1 \in S => n \in S
  <2> SUFFICES ASSUME NEW n \in 1 .. MaxNesting, n - 1 \in S PROVE n \in S
    OBVIOUS
  <2>1. n \in 0 .. MaxNesting /\ n # 0 /\ Level[n - 1] \subseteq Encodable[n - 1]
    BY <1>0
  <2>2. Level[n] = Leaves(ShortStrings) \cup Compound(ShortStrings, Level[n - 1])
    BY <2>1, LevelUnfolds
  <2>3. Encodable[n] = Leaves(Strings) \cup Compound(Strings, Encodable[n - 1])
    BY <2>1, EncodableUnfolds
  <2>4. Compound(ShortStrings, Level[n - 1]) \subseteq Compound(Strings, Encodable[n - 1])
    BY <1>3, <2>1
  <2> QED BY <1>2, <2>1, <2>2, <2>3, <2>4
<1> HIDE DEF S
<1>6. \A n \in 0 .. MaxNesting : n \in S
  BY <1>0, <1>4, <1>5, UpTo
<1> QED BY <1>6 DEF S

\* What a plan makes of a value at a level.
LEMMA EncoderIs ==
  ASSUME NEW n \in 0 .. MaxNesting, NEW plan \in Layouts, NEW v \in Level[n]
  PROVE  /\ v[1] # plan.tag => Encoders[n][plan][v] = {Refused}
         /\ (v[1] = plan.tag /\ plan.kind \in SimpleKinds) =>
              Encoders[n][plan][v] = {EncodeSimple(plan, v)}
         /\ (v[1] = plan.tag /\ plan.kind \notin SimpleKinds) =>
              /\ n \in 1 .. MaxNesting
              /\ Encoders[n][plan][v] = EncodeCompound(Encoders[n - 1], plan, v)
<1> DEFINE below == IF n = 0 THEN << >> ELSE Encoders[n - 1]
           made(p, w) == IF w[1] # p.tag THEN {Refused}
                         ELSE IF p.kind \in SimpleKinds THEN {EncodeSimple(p, w)}
                         ELSE EncodeCompound(below, p, w)
<1>1. Encoders[n][plan][v] =
        IF v[1] # plan.tag THEN {Refused}
        ELSE IF plan.kind \in SimpleKinds THEN {EncodeSimple(plan, v)}
        ELSE EncodeCompound(below, plan, v)
  <2>1. Encoders[n] = [p \in Layouts |-> [w \in Encodable[n] |-> made(p, w)]]
    BY EncodersUnfold
  <2>3. v \in Encodable[n]
    BY LevelIsEncodable
  <2> HIDE DEF made
  <2>2. Encoders[n][plan][v] = made(plan, v)
    BY <2>1, <2>3
  <2> HIDE DEF below
  <2> QED BY <2>2 DEF made
<1>2. (v[1] = plan.tag /\ plan.kind \notin SimpleKinds) => n # 0
  BY CompoundValue
<1>3. n # 0 => below = Encoders[n - 1] /\ n \in 1 .. MaxNesting
  BY LayoutsAssumption
<1> HIDE DEF below
<1> QED BY <1>1, <1>2, <1>3

\* At every level.
LEMMA EncodersEncode == \A n \in 0 .. MaxNesting : Encodes(Encoders[n], Level[n])
<1>0. MaxNesting \in Nat
  BY LayoutsAssumption
<1> DEFINE S == {n \in 0 .. MaxNesting : Encodes(Encoders[n], Level[n])}
<1>1. ASSUME NEW n \in 0 .. MaxNesting, n # 0 => n - 1 \in S
      PROVE  n \in S
  <2> SUFFICES ASSUME NEW plan \in Layouts, NEW v \in Level[n]
               PROVE  Encoders[n][plan][v] \subseteq Encodings
    BY DEF Encodes
  <2>1. CASE v[1] # plan.tag
    BY <2>1, EncoderIs, WrittenEncodes
  <2>2. CASE v[1] = plan.tag /\ plan.kind \in SimpleKinds
    BY <2>2, EncoderIs, SimpleEncodes
  <2>3. CASE v[1] = plan.tag /\ plan.kind \notin SimpleKinds
    <3>1. n \in 1 .. MaxNesting /\ Encoders[n][plan][v] = EncodeCompound(Encoders[n - 1], plan, v)
      BY <2>3, EncoderIs
    <3>2. Encodes(Encoders[n - 1], Level[n - 1])
      BY <1>1, <3>1
    <3> QED BY <2>3, <3>1, <3>2, CompoundEncodes
  <2> QED BY <2>1, <2>2, <2>3
<1> HIDE DEF S
<1>2. 0 \in S
  BY <1>0, <1>1
<1>3. \A n \in 1 .. MaxNesting : n - 1 \in S => n \in S
  BY <1>0, <1>1
<1>4. \A n \in 0 .. MaxNesting : n \in S
  BY <1>0, <1>2, <1>3, UpTo
<1> QED BY <1>4 DEF S

-----------------------------------------------------------------------------
(***************************************************************************)
(* What the decoders make of any bytes.                                    *)
(***************************************************************************)
\* How a decoder may end at the end of the bytes.
EndErrors == EndOfInput \cup {"stackOverflow"}

\* A value of the plan, of the level, that is encoded without error.
Accepted(n, plan, v) ==
  /\ v \in Level[n] /\ v[1] = plan.tag
  /\ \A x \in Encoders[n][plan][v] : x.err = "none"

\* Without error, the decoded value is one that the plan encodes.
Sound(n, plan, s, off, r) ==
  /\ r.off \in off .. Len(s)
  /\ r.err # "more"
  /\ r.err = "none" => Accepted(n, plan, r.val)
  /\ off = Len(s) => r.err \in {"none"} \cup EndErrors
  /\ (off = Len(s) /\ ReadsMore[n][plan]) => r.err # "none"

AllSound(n, s, decoders) ==
  \A plan \in Layouts, off \in 0 .. Len(s) : Sound(n, plan, s, off, decoders[plan][off])

\* Values one after the other: fields, or the items of a block.
LEMMA SequenceSound ==
  ASSUME NEW n \in 0 .. MaxNesting, NEW s \in Seq(Byte), NEW decoders, AllSound(n, s, decoders),
         NEW plans \in Seq(Layouts), NEW off \in 0 .. Len(s)
  PROVE  LET r == DecodeAll(decoders, plans, off)
         IN  /\ r.off \in off .. Len(s)
             /\ r.err # "more"
             /\ r.err = "none" =>
                  /\ r.val \in Seq(Level[n]) /\ Len(r.val) = Len(plans)
                  /\ \A i \in 1 .. Len(plans) : Accepted(n, plans[i], r.val[i])
             /\ off = Len(s) => r.err \in {"none"} \cup EndErrors
             /\ (off = Len(s) /\ plans # << >> /\ ReadsMore[n][Last(plans)]) => r.err # "none"
<1>0. Len(plans) \in Nat /\ Len(s) \in Nat /\ off \in Nat
  OBVIOUS
<1>a. PICK upTo : DecodeSteps(upTo, decoders, plans, off)
  BY <1>0, DecodeAllPath
<1>1. /\ DecodeAll(decoders, plans, off) = upTo[Len(plans)]
      /\ upTo[0] = Result(off, "none", << >>)
      /\ \A k \in 1 .. Len(plans) : upTo[k] = ThenRead(upTo[k - 1], decoders, plans[k])
  BY <1>a DEF DecodeSteps
<1> DEFINE Good(k, u) ==
             /\ u.off \in off .. Len(s)
             /\ u.err # "more"
             /\ u.err = "none" =>
                  /\ u.val \in Seq(Level[n]) /\ Len(u.val) = k
                  /\ \A i \in 1 .. k : Accepted(n, plans[i], u.val[i])
             /\ off = Len(s) => u.err \in {"none"} \cup EndErrors
             /\ (off = Len(s) /\ k # 0 /\ ReadsMore[n][plans[k]]) => u.err # "none"
           S == {k \in 0 .. Len(plans) : Good(k, upTo[k])}
<1>2. 0 \in S
  <2>1. upTo[0].off = off /\ upTo[0].err = "none" /\ upTo[0].val = << >>
    BY <1>1, ResultIs
  <2>2. << >> \in Seq(Level[n]) /\ Len(<< >>) = 0
    OBVIOUS
  <2>3. Good(0, upTo[0])
    BY <1>0, <2>1, <2>2
  <2> HIDE DEF Good
  <2> QED BY <1>0, <2>3
<1>3. ASSUME NEW k \in 1 .. Len(plans), k - 1 \in S
      PROVE  k \in S
  <2> DEFINE x == decoders[plans[k]][upTo[k - 1].off]
  <2>1. plans[k] \in Layouts /\ k \in Nat /\ k # 0 /\ k - 1 \in Nat
    OBVIOUS
  <2>2. PICK u : u = upTo[k - 1]
    OBVIOUS
  <2>3. PICK w : w = upTo[k]
    OBVIOUS
  <2>4. PICK y : y = decoders[plans[k]][u.off]
    OBVIOUS
  <2>5. w = IF u.err # "none" THEN u ELSE Result(y.off, y.err, Append(u.val, y.val))
    BY <1>1, <2>2, <2>3, <2>4 DEF ThenRead
  <2>6. Good(k - 1, u)
    BY <1>3, <2>2
  <2>7. u.off \in 0 .. Len(s)
    BY <1>0, <2>6
  <2>8. Sound(n, plans[k], s, u.off, y)
    BY <2>1, <2>4, <2>7 DEF AllSound
  <2>9. CASE u.err # "none"
    <3>1. w = u
      BY <2>5, <2>9
    <3> HIDE DEF S
    <3>2. Good(k, w)
      BY <2>6, <2>9, <3>1
    <3>3. k \in 0 .. Len(plans)
      BY <1>0
    <3> HIDE DEF Good
    <3> QED BY <2>3, <3>2, <3>3 DEF S
  <2>10. CASE u.err = "none"
    <3>1. w.off = y.off /\ w.err = y.err /\ w.val = Append(u.val, y.val)
      <4>1. PICK a : a = Append(u.val, y.val)
        OBVIOUS
      <4>2. w = Result(y.off, y.err, a)
        BY <2>5, <2>10, <4>1
      <4>3. w.off = y.off /\ w.err = y.err /\ w.val = a
        BY <4>2, ResultIs
      <4> QED BY <4>1, <4>3
    <3>2. u.off \in off .. Len(s) /\ y.off \in u.off .. Len(s) /\ y.err # "more"
      BY <2>6, <2>8 DEF Sound
    <3>3. w.off \in off .. Len(s)
      BY <1>0, <3>1, <3>2
    <3>4. ASSUME y.err = "none"
          PROVE  /\ w.val \in Seq(Level[n]) /\ Len(w.val) = k
                 /\ \A i \in 1 .. k : Accepted(n, plans[i], w.val[i])
      <4>1. Accepted(n, plans[k], y.val)
        BY <2>8, <3>4 DEF Sound
      <4>2. y.val \in Level[n]
        BY <4>1 DEF Accepted
      <4>3. u.val \in Seq(Level[n]) /\ Len(u.val) = k - 1
            /\ \A i \in 1 .. k - 1 : Accepted(n, plans[i], u.val[i])
        BY <2>6, <2>10
      <4>4. /\ w.val \in Seq(Level[n]) /\ Len(w.val) = k
            /\ (\A i \in 1 .. k - 1 : w.val[i] = u.val[i]) /\ w.val[k] = y.val
        <5>1. PICK a : a = u.val
          OBVIOUS
        <5>2. PICK e : e = y.val
          OBVIOUS
        <5>3. a \in Seq(Level[n]) /\ e \in Level[n] /\ Len(a) = k - 1
          BY <4>2, <4>3, <5>1, <5>2
        <5>4. /\ Append(a, e) \in Seq(Level[n]) /\ Len(Append(a, e)) = Len(a) + 1
              /\ \A i \in 1 .. Len(a) : Append(a, e)[i] = a[i]
              /\ Append(a, e)[Len(a) + 1] = e
          BY <5>3, AppendProperties
        <5>5. Len(a) + 1 = k
          BY <2>1, <5>3
        <5>6. w.val = Append(a, e)
          BY <3>1, <5>1, <5>2
        <5> QED BY <5>1, <5>2, <5>3, <5>4, <5>5, <5>6
      <4>5. \A i \in 1 .. k : i \in 1 .. k - 1 \/ i = k
        BY <2>1
      <4> QED BY <4>1, <4>3, <4>4, <4>5
    <3>5. ASSUME off = Len(s)
          PROVE  u.off = Len(s)
      BY <1>0, <3>2, <3>5
    <3>6. off = Len(s) => y.err \in {"none"} \cup EndErrors
      BY <2>8, <3>5 DEF Sound
    <3>7. (off = Len(s) /\ ReadsMore[n][plans[k]]) => y.err # "none"
      BY <2>8, <3>5 DEF Sound
    <3> HIDE DEF S
    <3>8. Good(k, w)
      BY <3>1, <3>2, <3>3, <3>4, <3>6, <3>7
    <3>9. k \in 0 .. Len(plans)
      BY <1>0
    <3> HIDE DEF Good
    <3> QED BY <2>3, <3>8, <3>9 DEF S
  <2> QED BY <2>9, <2>10
<1> HIDE DEF S
<1>4. \A k \in 0 .. Len(plans) : k \in S
  BY <1>0, <1>2, <1>3, UpTo
<1>5. Len(plans) \in S
  BY <1>0, <1>4
<1>6. PICK r : r = DecodeAll(decoders, plans, off)
  OBVIOUS
<1>7. Good(Len(plans), r)
  BY <1>1, <1>5, <1>6 DEF S
<1>8. plans # << >> => Len(plans) # 0 /\ Last(plans) = plans[Len(plans)]
  BY <1>0 DEF Last
<1> QED BY <1>6, <1>7, <1>8

-----------------------------------------------------------------------------
(***************************************************************************)
(* Blocks.                                                                 *)
(***************************************************************************)
\* The plan of the i-th item of a block: keys and values alternate in that of a map.
PlanAt(plan, i) == IF plan.kind = "map" /\ i % 2 = 1 THEN Simple("string") ELSE plan.parts[1]

\* What blocks of an array or a map may have held so far.
ItemsOf(n, plan, vs) ==
  /\ vs \in Seq(Level[n])
  /\ plan.kind = "map" => Len(vs) % 2 = 0
  /\ \A i \in 1 .. Len(vs) : Accepted(n, PlanAt(plan, i), vs[i])

LEMMA PlansAtAre ==
  ASSUME NEW plan \in Layouts, plan.kind \in {"array", "map"}, NEW c \in Nat
  PROVE  /\ BlockPlans(plan, c) \in Seq(Layouts)
         /\ Len(BlockPlans(plan, c)) = IF plan.kind = "map" THEN 2 * c ELSE c
         /\ \A i \in 1 .. Len(BlockPlans(plan, c)) : BlockPlans(plan, c)[i] = PlanAt(plan, i)
         /\ \A i : PlanAt(plan, i) \in Layouts
<1>1. Simple("string") \in Layouts
  BY LayoutsAssumption
<1>2. CASE plan.kind = "array"
  BY <1>1, <1>2, BlockPlansAre DEF PlanAt
<1>3. CASE plan.kind = "map"
  BY <1>1, <1>3, BlockPlansAre DEF PlanAt
<1> QED BY <1>2, <1>3

LEMMA ItemsJoin ==
  ASSUME NEW n, NEW plan, NEW a, NEW b, ItemsOf(n, plan, a), ItemsOf(n, plan, b)
  PROVE  ItemsOf(n, plan, a \o b)
<1>1. a \in Seq(Level[n]) /\ b \in Seq(Level[n]) /\ Len(a) \in Nat /\ Len(b) \in Nat
  BY DEF ItemsOf
<1>2. /\ a \o b \in Seq(Level[n]) /\ Len(a \o b) = Len(a) + Len(b)
      /\ \A i \in 1 .. Len(a) + Len(b) :
           (a \o b)[i] = IF i <= Len(a) THEN a[i] ELSE b[i - Len(a)]
  BY <1>1, ConcatProperties
<1>3. ASSUME NEW i \in 1 .. Len(a) + Len(b)
      PROVE  Accepted(n, PlanAt(plan, i), (a \o b)[i])
  <2>1. CASE i <= Len(a)
    <3>1. i \in 1 .. Len(a) /\ (a \o b)[i] = a[i]
      BY <1>1, <1>2, <2>1
    <3> QED BY <3>1 DEF ItemsOf
  <2>2. CASE ~(i <= Len(a))
    <3>1. i - Len(a) \in 1 .. Len(b) /\ (a \o b)[i] = b[i - Len(a)]
      BY <1>1, <1>2, <2>2
    <3>2. Accepted(n, PlanAt(plan, i - Len(a)), b[i - Len(a)])
      BY <3>1 DEF ItemsOf
    <3>3. PlanAt(plan, i - Len(a)) = PlanAt(plan, i)
      <4>1. CASE plan.kind = "map"
        <5>1. Len(a) % 2 = 0
          BY <4>1 DEF ItemsOf
        <5>2. (i - Len(a)) % 2 = i % 2
          BY <1>1, <5>1
        <5> QED BY <5>2 DEF PlanAt
      <4>2. CASE plan.kind # "map"
        BY <4>2 DEF PlanAt
      <4> QED BY <4>1, <4>2
    <3> QED BY <3>1, <3>2, <3>3
  <2> QED BY <2>1, <2>2
<1>4. plan.kind = "map" => (Len(a) + Len(b)) % 2 = 0
  <2>1. plan.kind = "map" => Len(a) % 2 = 0 /\ Len(b) % 2 = 0
    BY DEF ItemsOf
  <2> QED BY <1>1, <2>1
<1> QED BY <1>2, <1>3, <1>4 DEF ItemsOf

\* The loop over a block runs a number of times, whatever the count.
LEMMA CountIsNat ==
  ASSUME NEW c, c.val \in Long
  PROVE  BlockCount(c) \in Nat
<1> DEFINE m == IF c.val < 0 THEN Wrap(-c.val) ELSE c.val
<1>1. c.val \in Int
  BY HalfIsPositive DEF Long
<1>2. Wrap(-c.val) \in Int
  BY <1>1, WrapIsLong, HalfIsPositive DEF Long
<1>3. m \in Int
  BY <1>1, <1>2
<1>4. BlockCount(c) = IF m < 0 THEN 0 ELSE m
  BY DEF BlockCount
<1> HIDE DEF m
<1> QED BY <1>3, <1>4

\* One turn of the loop over blocks, and the loop.
LEMMA TurnSound ==
  ASSUME NEW n \in 0 .. MaxNesting, NEW s \in Seq(Byte), NEW source, NEW decoders,
         AllSound(n, s, decoders), NEW plan \in Layouts, plan.kind \in {"array", "map"},
         NEW r, r.off \in 0 .. Len(s), r.err = "more", ItemsOf(n, plan, r.val)
  PROVE  LET t == DecodeBlock(decoders, plan, s, source, r)
         IN  /\ t.off \in r.off .. Len(s)
             /\ t.err \in {"more", "none"} => ItemsOf(n, plan, t.val)
             /\ t.err = "more" => r.off < t.off
             /\ r.off = Len(s) => t.err \in EndOfInput
<1>1. Len(s) \in Nat /\ r.off \in Nat
  OBVIOUS
<1>2. PICK c : c = ReadLong(s, source, r.off)
  OBVIOUS
<1>3. /\ c.off \in r.off .. Len(s) /\ c.val \in Long
      /\ c.err \in {"none", "eof", "source", "overflow"}
      /\ c.err = "none" => r.off < c.off
      /\ r.off = Len(s) => c.err \in {"eof", "source"}
  BY <1>2, AnyLong
<1>4. PICK start : start = BlockStart(s, source, c)
  OBVIOUS
<1>5. c.off \in 0 .. Len(s)
  BY <1>1, <1>3
<1>6. start.off \in c.off .. Len(s) /\ start.err # "more"
  <2>1. CASE c.val < 0
    <3>1. start = ReadLong(s, source, c.off)
      BY <1>4, <2>1 DEF BlockStart
    <3> QED BY <1>5, <3>1, AnyLong
  <2>2. CASE ~(c.val < 0)
    <3>1. start = c
      BY <1>4, <2>2 DEF BlockStart
    <3>2. c.off \in c.off .. Len(s)
      BY <1>1, <1>3
    <3> QED BY <1>3, <3>1, <3>2
  <2> QED BY <2>1, <2>2
<1>7. start.off \in 0 .. Len(s) /\ start.off \in r.off .. Len(s)
  BY <1>1, <1>3, <1>6
<1>8. PICK plans : plans = BlockPlans(plan, BlockCount(c))
  OBVIOUS
<1>9. BlockCount(c) \in Nat
  BY <1>3, CountIsNat
<1>10. plans \in Seq(Layouts) /\ (\A i \in 1 .. Len(plans) : plans[i] = PlanAt(plan, i))
       /\ Len(plans) = (IF plan.kind = "map" THEN 2 * BlockCount(c) ELSE BlockCount(c))
  BY <1>8, <1>9, PlansAtAre
<1>11. PICK block : block = DecodeAll(decoders, plans, start.off)
  OBVIOUS
<1>12. /\ block.off \in start.off .. Len(s) /\ block.err # "more"
       /\ block.err = "none" =>
            /\ block.val \in Seq(Level[n]) /\ Len(block.val) = Len(plans)
            /\ \A i \in 1 .. Len(plans) : Accepted(n, plans[i], block.val[i])
  BY <1>7, <1>10, <1>11, SequenceSound
<1>13. block.err = "none" => ItemsOf(n, plan, block.val)
  <2>1. (2 * BlockCount(c)) % 2 = 0
    BY <1>9
  <2> QED BY <1>10, <1>12, <2>1 DEF ItemsOf
<1>14. PICK t : t = DecodeBlock(decoders, plan, s, source, r)
  OBVIOUS
<1>15. t = IF c.err # "none" THEN Result(c.off, c.err, r.val)
           ELSE IF c.val = 0 THEN Result(c.off, "none", r.val)
           ELSE IF start.err # "none" THEN Result(start.off, start.err, r.val)
           ELSE Result(block.off, IF block.err = "none" THEN "more" ELSE block.err,
                       r.val \o block.val)
  BY <1>2, <1>4, <1>8, <1>11, <1>14 DEF DecodeBlock
<1>16. CASE c.err # "none"
  <2>1. t.off = c.off /\ t.err = c.err
    BY <1>15, <1>16, ResultIs
  <2> QED BY <1>3, <1>14, <1>16, <2>1 DEF EndOfInput
<1>17. CASE c.err = "none" /\ c.val = 0
  <2>1. t.off = c.off /\ t.err = "none" /\ t.val = r.val
    BY <1>15, <1>17, ResultIs
  <2> QED BY <1>3, <1>14, <1>17, <2>1
<1>18. CASE c.err = "none" /\ c.val # 0 /\ start.err # "none"
  <2>1. t.off = start.off /\ t.err = start.err
    BY <1>15, <1>18, ResultIs
  <2>2. r.off # Len(s)
    BY <1>3, <1>18
  <2> QED BY <1>6, <1>7, <1>14, <1>18, <2>1, <2>2
<1>19. CASE c.err = "none" /\ c.val # 0 /\ start.err = "none"
  <2>1. /\ t.off = block.off /\ t.val = r.val \o block.val
        /\ t.err = IF block.err = "none" THEN "more" ELSE block.err
    <3> DEFINE e == IF block.err = "none" THEN "more" ELSE block.err
    <3>1. PICK b : b = r.val \o block.val
      OBVIOUS
    <3>2. t = Result(block.off, e, b)
      BY <1>15, <1>19, <3>1
    <3> HIDE DEF e
    <3>3. t.off = block.off /\ t.val = b /\ t.err = e
      BY <3>2, ResultIs
    <3> QED BY <3>1, <3>3 DEF e
  <2>2. r.off # Len(s)
    BY <1>3, <1>19
  <2>3. t.off \in r.off .. Len(s) /\ r.off < t.off
    BY <1>1, <1>3, <1>6, <1>12, <1>19, <2>1
  <2>4. t.err \in {"more", "none"} => block.err = "none"
    BY <1>12, <2>1
  <2>5. t.err \in {"more", "none"} => ItemsOf(n, plan, t.val)
    BY <1>13, <2>1, <2>4, ItemsJoin
  <2> QED BY <1>14, <2>2, <2>3, <2>5
<1> QED BY <1>16, <1>17, <1>18, <1>19

LEMMA BlocksSound ==
  ASSUME NEW n \in 0 .. MaxNesting, NEW s \in Seq(Byte), NEW source, NEW decoders,
         AllSound(n, s, decoders), NEW plan \in Layouts, plan.kind \in {"array", "map"},
         NEW off \in 0 .. Len(s)
  PROVE  LET r == DecodeBlocks(decoders, plan, s, source, off)
         IN  /\ r.off \in off .. Len(s)
             /\ r.err # "more"
             /\ r.err = "none" => ItemsOf(n, plan, r.val)
             /\ off = Len(s) => r.err \in EndOfInput
<1>0. Len(s) \in Nat /\ off \in Nat
  OBVIOUS
<1> DEFINE d == DecodeBlocks(decoders, plan, s, source, off)
<1>a. PICK after : BlockSteps(after, decoders, plan, s, source, off)
  BY <1>0, DecodeBlocksPath
<1>1. /\ d = after[Len(s) + 1]
      /\ after[0] = Result(off, "more", << >>)
      /\ \A k \in 1 .. Len(s) + 1 :
           after[k] = DecodeBlock(decoders, plan, s, source, after[k - 1])
  BY <1>a DEF BlockSteps
<1> DEFINE Good(k, r) ==
             /\ r.off \in off .. Len(s)
             /\ r.err \in {"more", "none"} => ItemsOf(n, plan, r.val)
             /\ r.err = "more" => off + k <= r.off
             /\ (off = Len(s) /\ k # 0) => r.err \in EndOfInput
           S == {k \in 0 .. Len(s) + 1 : Good(k, after[k])}
<1>2. 0 \in S
  <2>1. after[0].off = off /\ after[0].err = "more" /\ after[0].val = << >>
    BY <1>1, ResultIs
  <2>2. ItemsOf(n, plan, << >>)
    <3>1. << >> \in Seq(Level[n]) /\ Len(<< >>) = 0 /\ 0 % 2 = 0
      OBVIOUS
    <3> QED BY <3>1 DEF ItemsOf
  <2>3. Good(0, after[0])
    BY <1>0, <2>1, <2>2
  <2> HIDE DEF Good
  <2> QED BY <1>0, <2>3
<1>3. ASSUME NEW k \in 1 .. Len(s) + 1, k - 1 \in S
      PROVE  k \in S
  <2>1. PICK r : r = after[k - 1]
    OBVIOUS
  <2>2. PICK t : t = after[k]
    OBVIOUS
  <2>3. t = DecodeBlock(decoders, plan, s, source, r)
    BY <1>1, <2>1, <2>2
  <2>4. Good(k - 1, r)
    BY <1>3, <2>1
  <2>5. k \in Nat /\ k - 1 \in Nat /\ k # 0
    BY <1>0
  <2> HIDE DEF S
  <2>6. CASE r.err # "more"
    <3>1. t = r
      BY <2>3, <2>6 DEF DecodeBlock
    <3>2. k - 1 = 0 => r.err = "more"
      BY <1>1, <2>1, ResultIs
    <3>3. Good(k, t)
      BY <2>4, <2>6, <3>1, <3>2
    <3> QED BY <2>2, <3>3 DEF S
  <2>7. CASE r.err = "more"
    <3>1. r.off \in off .. Len(s) /\ ItemsOf(n, plan, r.val) /\ off + (k - 1) <= r.off
      BY <2>4, <2>7
    <3>2. r.off \in 0 .. Len(s)
      BY <1>0, <3>1
    <3>3. /\ t.off \in r.off .. Len(s)
          /\ t.err \in {"more", "none"} => ItemsOf(n, plan, t.val)
          /\ t.err = "more" => r.off < t.off
          /\ r.off = Len(s) => t.err \in EndOfInput
      BY <2>3, <2>7, <3>1, <3>2, TurnSound
    <3>4. t.off \in off .. Len(s) /\ (t.err = "more" => off + k <= t.off)
      BY <1>0, <2>5, <3>1, <3>3
    <3>5. off = Len(s) => r.off = Len(s)
      BY <1>0, <3>1
    <3>6. Good(k, t)
      BY <3>3, <3>4, <3>5
    <3> QED BY <2>2, <3>6 DEF S
  <2> QED BY <2>6, <2>7
<1> HIDE DEF S
<1>4. \A k \in 0 .. Len(s) + 1 : k \in S
  <2>1. Len(s) + 1 \in Nat
    BY <1>0
  <2> QED BY <1>2, <1>3, <2>1, UpTo
<1>5. PICK r : r = DecodeBlocks(decoders, plan, s, source, off)
  OBVIOUS
<1>6. Good(Len(s) + 1, r)
  <2>1. Len(s) + 1 \in S
    BY <1>0, <1>4
  <2> QED BY <1>1, <1>5, <2>1 DEF S
<1>7. r.err # "more" /\ Len(s) + 1 # 0
  BY <1>0, <1>6
<1> QED BY <1>5, <1>6, <1>7

-----------------------------------------------------------------------------
(***************************************************************************)
(* Values whose parts are accepted are accepted.                           *)
(***************************************************************************)
\* Nothing is refused in a sequence, nor in a block, of accepted values.
LEMMA SequenceAccepted ==
  ASSUME NEW n \in 0 .. MaxNesting, NEW plans \in Seq(Layouts), NEW vs \in Seq(Level[n]),
         Len(plans) = Len(vs), \A i \in 1 .. Len(vs) : Accepted(n, plans[i], vs[i])
  PROVE  \A x \in EncodeAll(Encoders[n], plans, vs) : x \in Encodings /\ x.err = "none"
<1>0. Len(vs) \in Nat
  OBVIOUS
<1>1. PICK upTo :
        /\ EncodeAll(Encoders[n], plans, vs) = upTo[Len(vs)]
        /\ \A z \in upTo[0] : Nothing(z)
        /\ \A k \in 1 .. Len(vs) : \A z \in upTo[k] :
             Joins(z, upTo[k - 1], Encoders[n][plans[k]][vs[k]])
  BY <1>0, EncodeAllPath
<1> DEFINE S == {k \in 0 .. Len(vs) : \A z \in upTo[k] : z \in Encodings /\ z.err = "none"}
<1>2. 0 \in S
  <2>1. << >> \in Seq(Byte)
    OBVIOUS
  <2>2. \A z \in upTo[0] : z \in Encodings /\ z.err = "none"
    BY <1>1, <2>1, WrittenEncodes, WrittenIs DEF Nothing
  <2>3. 0 \in 0 .. Len(vs)
    BY <1>0
  <2> QED BY <2>2, <2>3
<1>3. ASSUME NEW k \in 1 .. Len(vs), k - 1 \in S
      PROVE  k \in S
  <2>1. plans[k] \in Layouts /\ vs[k] \in Level[n] /\ Accepted(n, plans[k], vs[k])
    OBVIOUS
  <2>2. Encoders[n][plans[k]][vs[k]] \subseteq Encodings
    BY <2>1, EncodersEncode DEF Encodes
  <2>3. \A y \in Encoders[n][plans[k]][vs[k]] : y \in Encodings /\ y.err = "none"
    BY <2>1, <2>2 DEF Accepted
  <2>4. \A x \in upTo[k - 1] : x \in Encodings /\ x.err = "none"
    BY <1>3
  <2>5. \A z \in upTo[k] : Joins(z, upTo[k - 1], Encoders[n][plans[k]][vs[k]])
    BY <1>1
  <2>6. \A z \in upTo[k] : z \in Encodings /\ z.err = "none"
    <3> TAKE z \in upTo[k]
    <3>1. PICK x \in upTo[k - 1], y \in Encoders[n][plans[k]][vs[k]] : z = Then(x, y)
      BY <2>5 DEF Joins
    <3> QED BY <2>3, <2>4, <3>1, ThenIs
  <2>7. k \in 0 .. Len(vs)
    BY <1>0
  <2> QED BY <2>6, <2>7
<1> HIDE DEF S
<1>4. \A k \in 0 .. Len(vs) : k \in S
  BY <1>0, <1>2, <1>3, UpTo
<1>5. Len(vs) \in S
  BY <1>0, <1>4
<1> QED BY <1>1, <1>5 DEF S

LEMMA BlockAccepted ==
  ASSUME NEW n \in 0 .. MaxNesting, NEW plans \in Seq(Layouts), NEW vs \in Seq(Level[n]),
         Len(plans) = Len(vs), \A i \in 1 .. Len(vs) : Accepted(n, plans[i], vs[i]),
         NEW c \in Nat, c < Half
  PROVE  \A x \in EncodeBlock(Encoders[n], plans, vs, c) : x.err = "none"
<1>1. \A x \in EncodeAll(Encoders[n], plans, vs) : x \in Encodings /\ x.err = "none"
  BY SequenceAccepted
<1>2. /\ BlockBegun(c) \in Encodings /\ BlockBegun(c).err = "none"
      /\ Written(PutVarint(0)) \in Encodings
  BY EncodersEncode, BlockEncodes
<1>3. Written(PutVarint(0)).err = "none"
  BY WrittenIs
<1>4. \A x \in EncodeAll(Encoders[n], plans, vs) : Ended(Then(BlockBegun(c), x), c).err = "none"
  <2> TAKE x \in EncodeAll(Encoders[n], plans, vs)
  <2>1. Then(BlockBegun(c), x) \in Encodings /\ Then(BlockBegun(c), x).err = "none"
    BY <1>1, <1>2, ThenIs
  <2> QED BY <1>2, <1>3, <2>1, ThenIs DEF Ended
<1> QED BY <1>4 DEF EncodeBlock

\* A key is a string, and always accepted as one.
LEMMA KeyAccepted ==
  ASSUME NEW n \in 0 .. MaxNesting
  PROVE  /\ \A v : Accepted(n, Simple("string"), v) => v = <<"string", v[2]>> /\ v[2] \in ShortStrings
         /\ \A b \in ShortStrings : Accepted(n, Simple("string"), <<"string", b>>)
<1> DEFINE p == Simple("string")
<1>1. p \in Layouts /\ p.kind = "string" /\ p.tag = "string" /\ p.kind \in SimpleKinds
  BY LayoutsAssumption DEF Simple, Plan, SimpleKinds
<1> HIDE DEF p
<1>2. \A v : Accepted(n, p, v) => v = <<"string", v[2]>> /\ v[2] \in ShortStrings
  BY <1>1, SimpleValue DEF Accepted
<1>3. ASSUME NEW b \in ShortStrings
      PROVE  Accepted(n, p, <<"string", b>>)
  <2> DEFINE v == <<"string", b>>
  <2>1. "string" \in Tags("string")
    BY TagsAre
  <2>2. v \in Level[n] /\ v[1] = "string"
    BY <2>1, LeavesHold, LevelHolds
  <2> HIDE DEF v
  <2>3. Encoders[n][p][v] = {EncodeSimple(p, v)}
    BY <1>1, <2>2, EncoderIs
  <2>4. EncodeSimple(p, v).err = "none"
    BY <1>1, WrittenIs DEF EncodeSimple
  <2>5. Accepted(n, p, v)
    BY <1>1, <2>2, <2>3, <2>4 DEF Accepted
  <2> QED BY <2>5 DEF v
<1> QED BY <1>2, <1>3 DEF p

\* The map that entries leave.
LEMMA AsMapIs ==
  ASSUME NEW n \in 0 .. MaxNesting, NEW plan \in Layouts, plan.kind = "map",
         NEW flat, ItemsOf(n, plan, flat)
  PROVE  /\ IsFiniteSet(AsMap(flat))
         /\ \A e \in AsMap(flat) :
              /\ e[1] \in ShortStrings /\ e[2] \in Level[n] /\ e = <<e[1], e[2]>>
              /\ Accepted(n, plan.parts[1], e[2])
         /\ \A e, f \in AsMap(flat) : e[1] = f[1] => e = f
<1> DEFINE c == Len(flat) \div 2
           key(i) == flat[2 * i - 1][2]
           entry(i) == <<key(i), flat[2 * i]>>
           last == {j \in 1 .. c : \A k \in j + 1 .. c : key(k) # key(j)}
<1>1. flat \in Seq(Level[n]) /\ Len(flat) \in Nat /\ c \in Nat
  BY DEF ItemsOf
<1>2. AsMap(flat) = {entry(i) : i \in last}
  BY DEF AsMap
<1>3. ASSUME NEW i \in 1 .. c
      PROVE  /\ key(i) \in ShortStrings /\ flat[2 * i] \in Level[n]
             /\ Accepted(n, plan.parts[1], flat[2 * i])
  <2>1. 2 * i - 1 \in 1 .. Len(flat) /\ 2 * i \in 1 .. Len(flat)
        /\ (2 * i - 1) % 2 = 1 /\ (2 * i) % 2 # 1
    BY <1>1
  <2>2. Accepted(n, Simple("string"), flat[2 * i - 1])
    BY <2>1 DEF ItemsOf, PlanAt
  <2>3. Accepted(n, plan.parts[1], flat[2 * i])
    BY <2>1 DEF ItemsOf, PlanAt
  <2>4. flat[2 * i] \in Level[n]
    BY <2>3 DEF Accepted
  <2> QED BY <2>2, <2>3, <2>4, KeyAccepted
<1> HIDE DEF key, c
<1>4. last \subseteq 1 .. c
  OBVIOUS
<1>5. IsFiniteSet(last)
  <2>1. IsFiniteSet(1 .. c)
    BY <1>1, FS_Interval
  <2> HIDE DEF last
  <2> QED BY <1>4, <2>1, FS_Subset
<1>6. IsFiniteSet({entry(i) : i \in last})
  <2> HIDE DEF last, entry
  <2> DEFINE f == [i \in last |-> entry(i)]
             T == {entry(i) : i \in last}
  <2>1. f \in Surjection(last, T)
    BY DEF Surjection
  <2> HIDE DEF T
  <2>2. IsFiniteSet(T)
    BY <1>5, <2>1, FS_Surjection
  <2> QED BY <2>2 DEF T
<1>7. \A i, j \in last : key(i) = key(j) => i = j
  <2> SUFFICES ASSUME NEW i \in last, NEW j \in last, key(i) = key(j), i # j PROVE FALSE
    OBVIOUS
  <2>1. i \in 1 .. c /\ j \in 1 .. c
    OBVIOUS
  <2>2. i \in j + 1 .. c \/ j \in i + 1 .. c
    BY <1>1, <2>1
  <2> QED BY <2>2
<1> HIDE DEF last
<1>8. ASSUME NEW e \in AsMap(flat)
      PROVE  \E i \in last : e = entry(i)
  BY <1>2
<1>9. \A i : entry(i)[1] = key(i) /\ entry(i)[2] = flat[2 * i]
  OBVIOUS
<1>10. ASSUME NEW e \in AsMap(flat)
       PROVE  /\ e[1] \in ShortStrings /\ e[2] \in Level[n] /\ e = <<e[1], e[2]>>
              /\ Accepted(n, plan.parts[1], e[2])
  <2>1. PICK i \in last : e = entry(i)
    BY <1>8
  <2>2. e[1] = key(i) /\ e[2] = flat[2 * i]
    BY <1>9, <2>1
  <2>3. i \in 1 .. c
    BY <1>4
  <2> QED BY <1>3, <2>1, <2>2, <2>3
<1>11. ASSUME NEW e \in AsMap(flat), NEW f \in AsMap(flat), e[1] = f[1]
       PROVE  e = f
  <2>1. PICK i \in last : e = entry(i)
    BY <1>8
  <2>2. PICK j \in last : f = entry(j)
    BY <1>8
  <2>3. key(i) = key(j)
    BY <1>9, <1>11, <2>1, <2>2
  <2> QED BY <1>7, <2>1, <2>2, <2>3
<1> QED BY <1>2, <1>6, <1>10, <1>11

LEMMA MapAccepted ==
  ASSUME NEW n \in 1 .. MaxNesting, NEW plan \in Layouts, plan.kind = "map",
         NEW map \in Maps(ShortStrings, Level[n - 1]),
         \A e \in map : Accepted(n - 1, plan.parts[1], e[2])
  PROVE  Accepted(n, plan, <<"map", map>>)
<1> DEFINE v == <<"map", map>>
           c == Cardinality(map)
           block(walk) == EncodeBlock(Encoders[n - 1], BlockPlans(plan, c), Flat(walk), c)
<1>0. n \in 0 .. MaxNesting /\ n - 1 \in 0 .. MaxNesting /\ n # 0
  BY LayoutsAssumption
<1>1. plan.tag = "map" /\ plan.kind \notin SimpleKinds
  BY LayoutsAssumption, TagsAre DEF SimpleKinds
<1>2. v \in Level[n] /\ v[1] = "map" /\ v[2] = map
  BY <1>0, CompoundsHold, LevelHolds
<1>3. c \in Nat /\ c < Half /\ \A e \in map : e[1] \in ShortStrings
  BY MapsAre
<1> HIDE DEF v
<1>4. Encoders[n][plan][v] = EncodeCompound(Encoders[n - 1], plan, v)
  BY <1>0, <1>1, <1>2, EncoderIs
<1>5. EncodeCompound(Encoders[n - 1], plan, v) = UNION {block(walk) : walk \in Walks(map)}
  BY <1>2 DEF EncodeCompound
<1>6. ASSUME NEW walk \in Walks(map), NEW x \in block(walk)
      PROVE  x.err = "none"
  <2> DEFINE flat == Flat(walk)
             plans == BlockPlans(plan, c)
  <2>1. /\ walk \in [1 .. c -> map] /\ flat \in Seq(Level[n - 1]) /\ Len(flat) = 2 * c
        /\ \A i \in 1 .. c : /\ flat[2 * i - 1] = <<"string", walk[i][1]>>
                             /\ flat[2 * i] = walk[i][2]
    BY <1>0, FlatIs
  <2> HIDE DEF flat, c
  <2>2. /\ plans \in Seq(Layouts) /\ Len(plans) = 2 * c
        /\ \A i \in 1 .. 2 * c : plans[i] = PlanAt(plan, i)
    BY <1>3, PlansAtAre
  <2> HIDE DEF plans
  <2>3. ASSUME NEW i \in 1 .. Len(flat)
        PROVE  Accepted(n - 1, plans[i], flat[i])
    <3>0. i \in 1 .. 2 * c
      BY <2>1
    <3>1. CASE i % 2 = 1
      <4>1. PICK j \in 1 .. c : i = 2 * j - 1
        <5>1. i \in Nat /\ 1 <= i /\ i <= 2 * c
          BY <1>3, <3>0
        <5>2. i = 2 * ((i + 1) \div 2) - 1 /\ (i + 1) \div 2 \in Nat
          BY <3>1, <5>1
        <5>3. (i + 1) \div 2 \in 1 .. c
          BY <1>3, <5>1, <5>2
        <5> QED BY <5>2, <5>3
      <4>2. plans[i] = Simple("string")
        BY <2>2, <3>0, <3>1 DEF PlanAt
      <4>3. flat[i] = <<"string", walk[j][1]>> /\ walk[j] \in map
        BY <2>1, <4>1
      <4> QED BY <1>0, <1>3, <4>2, <4>3, KeyAccepted
    <3>2. CASE i % 2 # 1
      <4>1. PICK j \in 1 .. c : i = 2 * j
        <5>1. i \in Nat /\ 1 <= i /\ i <= 2 * c
          BY <1>3, <3>0
        <5>2. i = 2 * (i \div 2) /\ i \div 2 \in Nat
          BY <3>2, <5>1
        <5>3. i \div 2 \in 1 .. c
          BY <1>3, <5>1, <5>2
        <5> QED BY <5>2, <5>3
      <4>2. plans[i] = plan.parts[1]
        BY <2>2, <3>0, <3>2 DEF PlanAt
      <4>3. flat[i] = walk[j][2] /\ walk[j] \in map
        BY <2>1, <4>1
      <4> QED BY <4>2, <4>3
    <3> QED BY <3>1, <3>2
  <2>4. x \in EncodeBlock(Encoders[n - 1], plans, flat, c)
    BY DEF plans, flat
  <2> QED BY <1>0, <1>3, <2>1, <2>2, <2>3, <2>4, BlockAccepted
<1> HIDE DEF block
<1>7. \A x \in Encoders[n][plan][v] : x.err = "none"
  BY <1>4, <1>5, <1>6
<1>8. Accepted(n, plan, v)
  BY <1>1, <1>2, <1>7 DEF Accepted
<1> QED BY <1>8 DEF v

\* What a plan makes of the bytes at a place, with room for n levels.
LEMMA DecoderIs ==
  ASSUME NEW s \in Seq(Byte), NEW source, NEW n \in 0 .. MaxNesting, NEW plan \in Layouts,
         NEW off \in 0 .. Len(s)
  PROVE  /\ plan.kind \in SimpleKinds =>
              Decoders(s, source)[n][plan][off] = DecodeSimple(plan, s, source, off)
         /\ (plan.kind \notin SimpleKinds /\ n = 0) =>
              Decoders(s, source)[n][plan][off] = Result(off, "stackOverflow", << >>)
         /\ (plan.kind \notin SimpleKinds /\ n # 0) =>
              Decoders(s, source)[n][plan][off] =
                DecodeCompound(Decoders(s, source)[n - 1], plan, s, source, off)
<1>1. Decoders(s, source)[n][plan][off] =
        DecodedBy(Decoders(s, source)[n - 1], n, plan, s, source, off)
  BY DecodersUnfold
<1> QED BY <1>1 DEF DecodedBy

\* Whether a plan must read another byte.
LEMMA ReadsMoreIs ==
  ASSUME NEW n \in 0 .. MaxNesting, NEW plan \in Layouts
  PROVE  /\ plan.kind = "null" => ~ReadsMore[n][plan]
         /\ (n # 0 /\ plan.kind = "union" /\ ReadsMore[n][plan]) =>
              \A i \in 1 .. Len(plan.parts) : ReadsMore[n - 1][plan.parts[i]]
         /\ (n # 0 /\ plan.kind \in {"record", "ref"} /\ ReadsMore[n][plan]) =>
              /\ FieldPlans(plan) # << >>
              /\ ReadsMore[n - 1][Last(FieldPlans(plan))]
<1> DEFINE more(p) == IF n = 0 THEN p.kind # "null" ELSE MustRead(ReadsMore[n - 1], p)
<1>1. ReadsMore[n] = [p \in Layouts |-> more(p)]
  BY ReadsMoreUnfolds
<1> HIDE DEF more
<1>2. ReadsMore[n][plan] = more(plan)
  BY <1>1
<1>3. plan.kind = "null" => ~more(plan)
  BY DEF more, MustRead
<1>4. CASE plan.kind = "union"
  <2>1. plan.parts \in Seq(Layouts)
    BY LayoutsAssumption
  <2>2. n # 0 => (more(plan) <=> \A i \in DOMAIN plan.parts : ReadsMore[n - 1][plan.parts[i]])
    BY <1>4 DEF more, MustRead
  <2>3. DOMAIN plan.parts = 1 .. Len(plan.parts)
    BY <2>1
  <2> QED BY <1>2, <1>4, <2>2, <2>3
<1>5. CASE plan.kind \in {"record", "ref"}
  <2>1. n # 0 => (more(plan) <=> /\ FieldPlans(plan) # << >>
                                 /\ ReadsMore[n - 1][Last(FieldPlans(plan))])
    BY <1>5 DEF more, MustRead
  <2> QED BY <1>2, <1>5, <2>1
<1> QED BY <1>2, <1>3, <1>4, <1>5

LEMMA HeldIs == \A r, n, v :
  /\ Held(r, n, v).off = r.off /\ Held(r, n, v).val = v
  /\ Held(r, n, v).err = IF r.err = "none" /\ n >= Half THEN "outOfMemory" ELSE r.err
<1> SUFFICES ASSUME NEW r, NEW n, NEW v
             PROVE  /\ Held(r, n, v).off = r.off /\ Held(r, n, v).val = v
                    /\ Held(r, n, v).err =
                         IF r.err = "none" /\ n >= Half THEN "outOfMemory" ELSE r.err
  OBVIOUS
<1> DEFINE e == IF r.err = "none" /\ n >= Half THEN "outOfMemory" ELSE r.err
<1>1. Held(r, n, v) = Result(r.off, e, v)
  BY DEF Held
<1> HIDE DEF e
<1>2. /\ Held(r, n, v).off = r.off /\ Held(r, n, v).val = v
      /\ Held(r, n, v).err = e
  BY <1>1, ResultIs
<1> QED BY <1>2 DEF e

LEMMA TypedIs == \A plan, r, v :
  /\ Typed(plan, r, v).off = r.off /\ Typed(plan, r, v).err = r.err
  /\ Typed(plan, r, v).val = <<plan.tag, v>>
BY ResultIs DEF Typed

-----------------------------------------------------------------------------
\* Each kind of plan.
LEMMA SimpleSound ==
  ASSUME NEW n \in 0 .. MaxNesting, NEW s \in Seq(Byte), NEW source, NEW off \in 0 .. Len(s),
         NEW plan \in Layouts, plan.kind \in SimpleKinds
  PROVE  Sound(n, plan, s, off, DecodeSimple(plan, s, source, off))
<1>1. PICK r : r = DecodeSimple(plan, s, source, off)
  OBVIOUS
<1>2. /\ r.off \in off .. Len(s)
      /\ r.err # "more"
      /\ r.err = "none" => /\ r.val \in Leaves(ShortStrings) /\ r.val[1] = plan.tag
                           /\ EncodeSimple(plan, r.val).err = "none"
      /\ off = Len(s) => IF plan.kind = "null" THEN r.err = "none" ELSE r.err \in EndOfInput
  BY <1>1, AnySimple
<1>3. ASSUME r.err = "none"
      PROVE  Accepted(n, plan, r.val)
  <2>1. r.val \in Level[n]
    BY <1>2, <1>3, LevelHolds
  <2>2. Encoders[n][plan][r.val] = {EncodeSimple(plan, r.val)}
    BY <1>2, <1>3, <2>1, EncoderIs
  <2> QED BY <1>2, <1>3, <2>1, <2>2 DEF Accepted
<1>4. (off = Len(s) /\ ReadsMore[n][plan]) => r.err # "none"
  BY <1>2, ReadsMoreIs DEF EndOfInput
<1>5. off = Len(s) => r.err \in {"none"} \cup EndErrors
  BY <1>2 DEF EndErrors
<1> QED BY <1>1, <1>2, <1>3, <1>4, <1>5 DEF Sound

LEMMA UnionSound ==
  ASSUME NEW n \in 1 .. MaxNesting, NEW s \in Seq(Byte), NEW source, NEW decoders,
         AllSound(n - 1, s, decoders), NEW plan \in Layouts, plan.kind = "union",
         NEW off \in 0 .. Len(s)
  PROVE  Sound(n, plan, s, off, DecodeCompound(decoders, plan, s, source, off))
<1>0. Len(s) \in Nat /\ off \in Nat /\ n \in 0 .. MaxNesting /\ n - 1 \in 0 .. MaxNesting
  BY LayoutsAssumption
<1>1. PICK i : i = ReadLong(s, source, off)
  OBVIOUS
<1>2. /\ i.off \in off .. Len(s) /\ i.val \in Long
      /\ i.err \in {"none", "eof", "source", "overflow"}
      /\ off = Len(s) => i.err \in {"eof", "source"}
  BY <1>1, AnyLong
<1>3. PICK r : r = DecodeCompound(decoders, plan, s, source, off)
  OBVIOUS
<1>4. plan.tag = "union" /\ plan.parts \in Seq(Layouts) /\ Len(plan.parts) \in Nat
      /\ plan.kind \notin SimpleKinds
  BY LayoutsAssumption, TagsAre DEF SimpleKinds
<1>5. PICK y : y = decoders[plan.parts[i.val + 1]][i.off]
  OBVIOUS
<1>6. r = IF i.err # "none" THEN i
          ELSE IF ~IndexIn(i.val, Len(plan.parts)) THEN OutOfRange(i)
          ELSE Result(y.off, y.err, <<"union", i.val + 1, y.val>>)
  BY <1>1, <1>3, <1>5 DEF DecodeCompound
<1>7. CASE i.err # "none"
  <2>1. r = i
    BY <1>6, <1>7
  <2> QED BY <1>2, <1>3, <1>7, <2>1 DEF Sound, EndErrors, EndOfInput
<1>8. CASE i.err = "none" /\ ~IndexIn(i.val, Len(plan.parts))
  <2>1. r.off = i.off /\ r.err = "indexOutOfRange"
    BY <1>6, <1>8, ResultIs DEF OutOfRange
  <2>2. off # Len(s)
    BY <1>2, <1>8
  <2> QED BY <1>2, <1>3, <2>1, <2>2 DEF Sound
<1>9. CASE i.err = "none" /\ IndexIn(i.val, Len(plan.parts))
  <2>1. PICK v : v = <<"union", i.val + 1, y.val>>
    OBVIOUS
  <2>2. r.off = y.off /\ r.err = y.err /\ r.val = v
    <3>1. r = Result(y.off, y.err, v)
      BY <1>6, <1>9, <2>1
    <3> QED BY <3>1, ResultIs
  <2>3. i.val + 1 \in 1 .. Len(plan.parts) /\ i.val + 1 \in Int
    BY <1>4, <1>9 DEF IndexIn
  <2>4. PICK p : p = plan.parts[i.val + 1]
    OBVIOUS
  <2>5. p \in Layouts
    BY <1>4, <2>3, <2>4
  <2>6. i.off \in 0 .. Len(s)
    BY <1>0, <1>2
  <2>7. Sound(n - 1, p, s, i.off, y)
    BY <1>5, <2>4, <2>5, <2>6 DEF AllSound
  <2>8. off # Len(s)
    BY <1>2, <1>9
  <2>9. r.off \in off .. Len(s)
    <3>1. y.off \in i.off .. Len(s)
      BY <2>7 DEF Sound
    <3> QED BY <1>0, <1>2, <2>2, <3>1
  <2>10. ASSUME r.err = "none"
         PROVE  Accepted(n, plan, v)
    <3>1. Accepted(n - 1, p, y.val)
      BY <2>2, <2>7, <2>10 DEF Sound
    <3>2. y.val \in Level[n - 1]
      BY <3>1 DEF Accepted
    <3>3. v \in Level[n]
      BY <1>0, <2>1, <2>3, <3>2, CompoundsHold, LevelHolds
    <3>4. v[1] = "union" /\ v[2] = i.val + 1 /\ v[3] = y.val
      BY <2>1
    <3>5. PICK w : w = Written(PutVarint(v[2] - 1))
      OBVIOUS
    <3>6. w \in Encodings /\ w.err = "none"
      <4>1. v[2] - 1 \in Long
        <5>1. \A l \in Int : l + 1 - 1 = l
          OBVIOUS
        <5>2. i.val \in Int
          BY <1>2, HalfIsPositive DEF Long
        <5>3. v[2] - 1 = i.val
          BY <3>4, <5>1, <5>2
        <5> QED BY <1>2, <5>3
      <4> QED BY <3>5, <4>1, PutVarintIsBytes, WrittenEncodes, WrittenIs
    <3>7. PICK xs : xs = Encoders[n - 1][p][y.val]
      OBVIOUS
    <3>8. \A x \in xs : x \in Encodings /\ x.err = "none"
      <4>1. xs \subseteq Encodings
        BY <1>0, <2>5, <3>2, <3>7, EncodersEncode DEF Encodes
      <4> QED BY <3>1, <3>7, <4>1 DEF Accepted
    <3>9. Encoders[n][plan][v] = {Then(w, x) : x \in xs}
      <4>1. Encoders[n][plan][v] = EncodeCompound(Encoders[n - 1], plan, v)
        BY <1>0, <1>4, <3>3, <3>4, EncoderIs
      <4>2. EncodeCompound(Encoders[n - 1], plan, v) =
              {Then(Written(PutVarint(v[2] - 1)), x) :
                 x \in Encoders[n - 1][plan.parts[v[2]]][v[3]]}
        BY <2>3, <3>4 DEF EncodeCompound
      <4> QED BY <2>4, <3>4, <3>5, <3>7, <4>1, <4>2
    <3>10. \A x \in xs : Then(w, x).err = "none"
      BY <3>6, <3>8, ThenIs
    <3>11. \A x \in Encoders[n][plan][v] : x.err = "none"
      BY <3>9, <3>10
    <3> QED BY <1>4, <3>3, <3>4, <3>11 DEF Accepted
  <2>11. r.err # "more"
    BY <2>2, <2>7 DEF Sound
  <2> QED BY <1>3, <2>2, <2>8, <2>9, <2>10, <2>11 DEF Sound
<1> QED BY <1>7, <1>8, <1>9

LEMMA RecordSound ==
  ASSUME NEW n \in 1 .. MaxNesting, NEW s \in Seq(Byte), NEW source, NEW decoders,
         AllSound(n - 1, s, decoders), NEW plan \in Layouts, plan.kind \in {"record", "ref"},
         NEW off \in 0 .. Len(s)
  PROVE  Sound(n, plan, s, off, DecodeCompound(decoders, plan, s, source, off))
<1>0. n \in 0 .. MaxNesting /\ n - 1 \in 0 .. MaxNesting /\ n # 0
  BY LayoutsAssumption
<1>1. PICK plans : plans = FieldPlans(plan)
  OBVIOUS
<1>2. plans \in Seq(Layouts) /\ Len(plans) < Half /\ plan.tag = "record"
      /\ plan.kind \notin SimpleKinds
  BY <1>1, FieldPlansAre DEF SimpleKinds
<1>3. PICK y : y = DecodeAll(decoders, plans, off)
  OBVIOUS
<1>4. /\ y.off \in off .. Len(s)
      /\ y.err # "more"
      /\ y.err = "none" =>
           /\ y.val \in Seq(Level[n - 1]) /\ Len(y.val) = Len(plans)
           /\ \A i \in 1 .. Len(plans) : Accepted(n - 1, plans[i], y.val[i])
      /\ off = Len(s) => y.err \in {"none"} \cup EndErrors
      /\ (off = Len(s) /\ plans # << >> /\ ReadsMore[n - 1][Last(plans)]) => y.err # "none"
  BY <1>0, <1>2, <1>3, SequenceSound
<1>5. PICK r : r = DecodeCompound(decoders, plan, s, source, off)
  OBVIOUS
<1>6. r.off = y.off /\ r.err = y.err /\ r.val = <<"record", y.val>>
  <2>1. r = Typed(plan, y, y.val)
    BY <1>1, <1>3, <1>5 DEF DecodeCompound
  <2> QED BY <1>2, <2>1, TypedIs
<1>7. ASSUME y.err = "none"
      PROVE  Accepted(n, plan, r.val)
  <2>1. y.val \in Seq(Level[n - 1]) /\ Len(y.val) = Len(plans) /\ Len(y.val) < Half
    BY <1>2, <1>4, <1>7
  <2>2. r.val \in Level[n]
    <3>1. <<"record", y.val>> \in Compound(ShortStrings, Level[n - 1])
      BY <2>1, CompoundsHold
    <3> QED BY <1>0, <1>6, <3>1, LevelHolds
  <2>3. r.val[1] = "record" /\ r.val[2] = y.val
    BY <1>6
  <2>4. Encoders[n][plan][r.val] = EncodeCompound(Encoders[n - 1], plan, r.val)
    BY <1>0, <1>2, <2>2, <2>3, EncoderIs
  <2>5. EncodeCompound(Encoders[n - 1], plan, r.val) = EncodeAll(Encoders[n - 1], plans, y.val)
    BY <1>1, <2>1, <2>3 DEF EncodeCompound
  <2>6. \A x \in EncodeAll(Encoders[n - 1], plans, y.val) : x.err = "none"
    BY <1>0, <1>2, <1>4, <1>7, <2>1, SequenceAccepted
  <2> QED BY <1>2, <2>2, <2>3, <2>4, <2>5, <2>6 DEF Accepted
<1>8. ReadsMore[n][plan] => plans # << >> /\ ReadsMore[n - 1][Last(plans)]
  BY <1>0, <1>1, ReadsMoreIs
<1> QED BY <1>4, <1>5, <1>6, <1>7, <1>8 DEF Sound

LEMMA ArraySound ==
  ASSUME NEW n \in 1 .. MaxNesting, NEW s \in Seq(Byte), NEW source, NEW decoders,
         AllSound(n - 1, s, decoders), NEW plan \in Layouts, plan.kind = "array",
         NEW off \in 0 .. Len(s)
  PROVE  Sound(n, plan, s, off, DecodeCompound(decoders, plan, s, source, off))
<1>0. n \in 0 .. MaxNesting /\ n - 1 \in 0 .. MaxNesting /\ n # 0
  BY LayoutsAssumption
<1>1. plan.tag = "array" /\ plan.kind \notin SimpleKinds
  BY LayoutsAssumption, TagsAre DEF SimpleKinds
<1>2. PICK y : y = DecodeBlocks(decoders, plan, s, source, off)
  OBVIOUS
<1>3. /\ y.off \in off .. Len(s)
      /\ y.err # "more"
      /\ y.err = "none" => ItemsOf(n - 1, plan, y.val)
      /\ off = Len(s) => y.err \in EndOfInput
  BY <1>0, <1>2, BlocksSound
<1>4. PICK r : r = DecodeCompound(decoders, plan, s, source, off)
  OBVIOUS
<1>5. /\ r.off = y.off /\ r.val = <<"array", y.val>>
      /\ r.err = IF y.err = "none" /\ Len(y.val) >= Half THEN "outOfMemory" ELSE y.err
  <2>1. PICK v : v = <<"array", y.val>>
    OBVIOUS
  <2>2. r = Held(y, Len(y.val), v)
    BY <1>2, <1>4, <2>1 DEF DecodeCompound
  <2> QED BY <2>1, <2>2, HeldIs
<1>6. ASSUME r.err = "none"
      PROVE  Accepted(n, plan, r.val)
  <2>1. y.err = "none" /\ ~(Len(y.val) >= Half)
    BY <1>5, <1>6
  <2>2. PICK vs : vs = y.val
    OBVIOUS
  <2>3. ItemsOf(n - 1, plan, vs)
    BY <1>3, <2>1, <2>2
  <2>4. vs \in Seq(Level[n - 1]) /\ Len(vs) \in Nat /\ Len(vs) < Half
    BY <2>1, <2>2, <2>3, HalfIsPositive DEF ItemsOf
  <2>5. r.val \in Level[n]
    <3>1. <<"array", vs>> \in Compound(ShortStrings, Level[n - 1])
      BY <2>4, CompoundsHold
    <3> QED BY <1>0, <1>5, <2>2, <3>1, LevelHolds
  <2>6. r.val[1] = "array" /\ r.val[2] = vs
    BY <1>5, <2>2
  <2>7. PICK plans : plans = BlockPlans(plan, Len(vs))
    OBVIOUS
  <2>8. Encoders[n][plan][r.val] = EncodeBlock(Encoders[n - 1], plans, vs, Len(vs))
    <3>1. Encoders[n][plan][r.val] = EncodeCompound(Encoders[n - 1], plan, r.val)
      BY <1>0, <1>1, <2>5, <2>6, EncoderIs
    <3>2. EncodeCompound(Encoders[n - 1], plan, r.val) =
            EncodeBlock(Encoders[n - 1], plans, vs, Len(vs))
      BY <2>6, <2>7 DEF EncodeCompound
    <3> QED BY <3>1, <3>2
  <2>9. /\ plans \in Seq(Layouts) /\ Len(plans) = Len(vs)
        /\ \A i \in 1 .. Len(vs) : plans[i] = PlanAt(plan, i)
    BY <2>4, <2>7, PlansAtAre
  <2>10. \A i \in 1 .. Len(vs) : Accepted(n - 1, plans[i], vs[i])
    BY <2>3, <2>9 DEF ItemsOf
  <2>11. \A x \in EncodeBlock(Encoders[n - 1], plans, vs, Len(vs)) : x.err = "none"
    BY <1>0, <2>4, <2>9, <2>10, BlockAccepted
  <2> QED BY <1>1, <2>5, <2>6, <2>8, <2>11 DEF Accepted
<1>7. r.err # "more"
  BY <1>3, <1>5
<1>8. off = Len(s) => r.err \in EndErrors /\ r.err # "none"
  BY <1>3, <1>5 DEF EndErrors, EndOfInput
<1> QED BY <1>3, <1>4, <1>5, <1>6, <1>7, <1>8 DEF Sound

LEMMA MapSound ==
  ASSUME NEW n \in 1 .. MaxNesting, NEW s \in Seq(Byte), NEW source, NEW decoders,
         AllSound(n - 1, s, decoders), NEW plan \in Layouts, plan.kind = "map",
         NEW off \in 0 .. Len(s)
  PROVE  Sound(n, plan, s, off, DecodeCompound(decoders, plan, s, source, off))
<1>0. n \in 0 .. MaxNesting /\ n - 1 \in 0 .. MaxNesting /\ n # 0
  BY LayoutsAssumption
<1>1. PICK y : y = DecodeBlocks(decoders, plan, s, source, off)
  OBVIOUS
<1>2. /\ y.off \in off .. Len(s)
      /\ y.err # "more"
      /\ y.err = "none" => ItemsOf(n - 1, plan, y.val)
      /\ off = Len(s) => y.err \in EndOfInput
  BY <1>0, <1>1, BlocksSound
<1>3. PICK map : map = AsMap(y.val)
  OBVIOUS
<1>4. PICK r : r = DecodeCompound(decoders, plan, s, source, off)
  OBVIOUS
<1>5. /\ r.off = y.off /\ r.val = <<"map", map>>
      /\ r.err = IF y.err = "none" /\ Cardinality(map) >= Half THEN "outOfMemory" ELSE y.err
  <2>1. PICK v : v = <<"map", map>>
    OBVIOUS
  <2>2. r = Held(y, Cardinality(map), v)
    BY <1>1, <1>3, <1>4, <2>1 DEF DecodeCompound
  <2> QED BY <2>1, <2>2, HeldIs
<1>6. ASSUME r.err = "none"
      PROVE  Accepted(n, plan, r.val)
  <2>1. y.err = "none" /\ ~(Cardinality(map) >= Half)
    BY <1>5, <1>6
  <2>2. /\ IsFiniteSet(map)
        /\ \A e \in map :
             /\ e[1] \in ShortStrings /\ e[2] \in Level[n - 1] /\ e = <<e[1], e[2]>>
             /\ Accepted(n - 1, plan.parts[1], e[2])
        /\ \A e, f \in map : e[1] = f[1] => e = f
    BY <1>0, <1>2, <1>3, <2>1, AsMapIs
  <2>3. Cardinality(map) \in Nat /\ Cardinality(map) < Half
    BY <2>1, <2>2, FS_CardinalityType, HalfIsPositive
  <2>4. map \in Maps(ShortStrings, Level[n - 1])
    <3>1. \A e \in map : e \in ShortStrings \X Level[n - 1]
      BY <2>2
    <3> QED BY <2>2, <2>3, <3>1 DEF Maps
  <2> QED BY <1>5, <2>2, <2>4, MapAccepted
<1>7. r.err # "more"
  BY <1>2, <1>5
<1>8. off = Len(s) => r.err \in EndErrors /\ r.err # "none"
  BY <1>2, <1>5 DEF EndErrors, EndOfInput
<1> QED BY <1>2, <1>4, <1>5, <1>6, <1>7, <1>8 DEF Sound

\* At every level.
LEMMA DecodersSound ==
  ASSUME NEW s \in Seq(Byte), NEW source
  PROVE  \A n \in 0 .. MaxNesting : AllSound(n, s, Decoders(s, source)[n])
<1>0. MaxNesting \in Nat
  BY LayoutsAssumption
<1> DEFINE S == {n \in 0 .. MaxNesting : AllSound(n, s, Decoders(s, source)[n])}
<1>1. ASSUME NEW n \in 0 .. MaxNesting, n # 0 => n - 1 \in S
      PROVE  n \in S
  <2> SUFFICES ASSUME NEW plan \in Layouts, NEW off \in 0 .. Len(s)
               PROVE  Sound(n, plan, s, off, Decoders(s, source)[n][plan][off])
    BY DEF AllSound
  <2>1. CASE plan.kind \in SimpleKinds
    BY <2>1, DecoderIs, SimpleSound
  <2>2. CASE plan.kind \notin SimpleKinds /\ n = 0
    <3>1. PICK r : r = Decoders(s, source)[n][plan][off]
      OBVIOUS
    <3>2. r = Result(off, "stackOverflow", << >>)
      BY <2>2, <3>1, DecoderIs
    <3>3. r.off = off /\ r.err = "stackOverflow"
      BY <3>2, ResultIs
    <3>4. off \in off .. Len(s)
      OBVIOUS
    <3> QED BY <3>1, <3>3, <3>4 DEF Sound, EndErrors
  <2>3. CASE plan.kind \notin SimpleKinds /\ n # 0
    <3>1. n \in 1 .. MaxNesting
      BY <1>0, <2>3
    <3>2. PICK below : below = Decoders(s, source)[n - 1]
      OBVIOUS
    <3>3. Decoders(s, source)[n][plan][off] = DecodeCompound(below, plan, s, source, off)
      BY <2>3, <3>2, DecoderIs
    <3>4. AllSound(n - 1, s, below)
      BY <1>1, <2>3, <3>2
    <3>5. plan.kind \in {"union", "record", "ref", "array", "map"}
      BY <2>3, LayoutsAssumption
    <3> QED BY <3>1, <3>3, <3>4, <3>5, UnionSound, RecordSound, ArraySound, MapSound
  <2> QED BY <2>1, <2>2, <2>3
<1> HIDE DEF S
<1>2. 0 \in S
  BY <1>0, <1>1
<1>3. \A n \in 1 .. MaxNesting : n - 1 \in S => n \in S
  BY <1>0, <1>1
<1>4. \A n \in 0 .. MaxNesting : n \in S
  BY <1>0, <1>2, <1>3, UpTo
<1> QED BY <1>4 DEF S

-----------------------------------------------------------------------------
(***************************************************************************)
(* What the decoders make of an encoding, or of the beginning of one.      *)
(***************************************************************************)
\* What r makes of the bytes s, when x is the encoding of v in the bytes that s begins:
\* the value if all of x is there, an end of input if not.  Where a part of v was refused
\* and the bytes end, r is no value if a plan must read more.
ReadAs(more, s, off, x, v, r) ==
  LET to == off + Len(x.out)
  IN  /\ (x.err = "none" /\ to <= Len(s)) => r = Result(to, "none", v)
      /\ (x.err = "none" /\ to > Len(s)) => r.err \in EndOfInput
      /\ (x.err # "none" /\ to = Len(s)) =>
           /\ r.err \in {"none"} \cup EndErrors
           /\ r.err = "none" => r.off = Len(s)
           /\ more => r.err # "none"

\* The bytes s are a beginning of those of t.
AllRead(n, s, t, decoders) ==
  \A plan \in Layouts, v \in Level[n], off \in 0 .. Len(s) :
    \A x \in Encoders[n][plan][v] :
      Has(t, off, x.out) => ReadAs(ReadsMore[n][plan], s, off, x, v, decoders[plan][off])

LEMMA EndErrorsAre ==
  \A source, got : ReadFullError(source, got) \in EndOfInput /\ "none" \notin EndOfInput
BY DEF ReadFullError, EndOfInput

\* Where nothing was written the decoder is at the end.
LEMMA RefusedReads ==
  ASSUME NEW n \in 0 .. MaxNesting, NEW plan, NEW s \in Seq(Byte), NEW off \in 0 .. Len(s),
         NEW v, NEW r, Sound(n, plan, s, off, r)
  PROVE  ReadAs(ReadsMore[n][plan], s, off, Refused, v, r)
<1>1. Refused.out = << >> /\ Refused.err = "refused" /\ Len(<< >>) = 0
  BY WrittenIs
<1>2. off + 0 = off
  OBVIOUS
<1>3. ASSUME off = Len(s)
      PROVE  /\ r.err \in {"none"} \cup EndErrors
             /\ r.off = Len(s)
             /\ ReadsMore[n][plan] => r.err # "none"
  <2>1. r.off \in off .. Len(s)
    BY DEF Sound
  <2>2. r.off = Len(s)
    BY <1>3, <2>1
  <2> QED BY <1>3, <2>2 DEF Sound
<1> QED BY <1>1, <1>2, <1>3 DEF ReadAs

\* An int and a string, whole or cut short.
LEMMA IntReads ==
  ASSUME NEW s \in Seq(Byte), NEW t \in Seq(Byte), Begins(s, t), NEW source,
         NEW off \in 0 .. Len(s), NEW l \in Ints, Has(t, off, PutVarint(l))
  PROVE  ReadInt(s, source, off) =
           IF off + Len(PutVarint(l)) <= Len(s)
           THEN Result(off + Len(PutVarint(l)), "none", l)
           ELSE Result(Len(s), ReadFullError(source, 0), 0)
<1>1. PICK r : r = ReadLong(s, source, off)
  OBVIOUS
<1>2. l \in Long
  BY IntsAreLong
<1>3. r = IF off + Len(PutVarint(l)) <= Len(s)
          THEN Result(off + Len(PutVarint(l)), "none", l)
          ELSE Result(Len(s), ReadFullError(source, 0), 0)
  BY <1>1, <1>2, LongAt
<1>4. ReadInt(s, source, off) =
        IF r.err = "none" /\ r.val \notin Ints THEN Result(r.off, "overflow", 0) ELSE r
  BY <1>1 DEF ReadInt, Ints
<1>5. CASE off + Len(PutVarint(l)) <= Len(s)
  <2>1. r.val = l
    BY <1>3, <1>5, ResultIs
  <2> QED BY <1>3, <1>4, <1>5, <2>1
<1>6. CASE ~(off + Len(PutVarint(l)) <= Len(s))
  <2>1. r.err = ReadFullError(source, 0)
    BY <1>3, <1>6, ResultIs
  <2> QED BY <1>3, <1>4, <1>6, <2>1, EndErrorsAre
<1> QED BY <1>5, <1>6

LEMMA StringReads ==
  ASSUME NEW s \in Seq(Byte), NEW t \in Seq(Byte), Begins(s, t), NEW source,
         NEW off \in 0 .. Len(s), NEW b \in ShortStrings, Has(t, off, PutVarint(Len(b)) \o b)
  PROVE  LET to == off + Len(PutVarint(Len(b)) \o b)
             r == ReadBytes(s, source, off)
         IN  /\ to <= Len(s) => r = Result(to, "none", b)
             /\ to > Len(s) => r.err \in EndOfInput
<1> DEFINE head == PutVarint(Len(b))
           to == off + Len(head \o b)
<1>0. off \in Nat /\ Len(s) \in Nat
  OBVIOUS
<1>1. b \in Seq(Byte) /\ Len(b) \in Long /\ Len(b) \in Nat /\ Len(b) < IntHalf
  BY StringLength
<1>2. head \in Seq(Byte) /\ Len(head) \in Nat
  BY <1>1, PutVarintIsBytes
<1>3. PICK r : r = ReadBytes(s, source, off)
  OBVIOUS
<1>4. PICK c : c = ReadLong(s, source, off)
  OBVIOUS
<1>5. Has(t, off, head \o b)
  OBVIOUS
<1> HIDE DEF head
<1>6. to = (off + Len(head)) + Len(b)
  <2>1. Len(head \o b) = Len(head) + Len(b)
    BY <1>1, <1>2
  <2> QED BY <1>0, <1>1, <1>2, <2>1
<1> HIDE DEF to
<1>7. Has(t, off, head) /\ Has(t, off + Len(head), b)
  BY <1>0, <1>1, <1>2, <1>5, HasParts
<1>8. c = IF off + Len(head) <= Len(s) THEN Result(off + Len(head), "none", Len(b))
          ELSE Result(Len(s), ReadFullError(source, 0), 0)
  BY <1>1, <1>4, <1>7, LongAt DEF head
<1>9. r = IF c.err # "none" THEN Result(c.off, c.err, << >>)
          ELSE IF c.val < 0 THEN Result(c.off, "negativeLength", << >>)
          ELSE IF c.val >= IntHalf THEN Result(c.off, "overflow", << >>)
          ELSE ReadFixed(s, source, c.off, c.val)
  BY <1>3, <1>4 DEF ReadBytes
<1>10. CASE off + Len(head) <= Len(s)
  <2>1. c.off = off + Len(head) /\ c.err = "none" /\ c.val = Len(b)
    BY <1>8, <1>10, ResultIs
  <2>2. ~(c.val < 0) /\ ~(c.val >= IntHalf)
    BY <1>1, <2>1, IntHalfAssumption, HalfIsPositive
  <2>3. r = ReadFixed(s, source, off + Len(head), Len(b))
    BY <1>9, <2>1, <2>2
  <2>4. off + Len(head) \in 0 .. Len(s)
    BY <1>0, <1>2, <1>10
  <2>5. r = IF to <= Len(s) THEN Result(to, "none", b)
            ELSE Result(Len(s), ReadFullError(source, Len(s) - (off + Len(head))), << >>)
    BY <1>1, <1>6, <1>7, <2>3, <2>4, FixedAt
  <2>6. to \in Nat
    BY <1>0, <1>1, <1>2, <1>6
  <2>7. to <= Len(s) => r = Result(to, "none", b)
    BY <2>5
  <2>8. to > Len(s) => r.err \in EndOfInput
    <3>1. to > Len(s) => ~(to <= Len(s))
      BY <1>0, <2>6
    <3> QED BY <2>5, <3>1, ResultIs, EndErrorsAre
  <2> QED BY <1>3, <2>7, <2>8 DEF to, head
<1>11. CASE ~(off + Len(head) <= Len(s))
  <2>1. c.err = ReadFullError(source, 0)
    BY <1>8, <1>11, ResultIs
  <2>2. r.err \in EndOfInput
    BY <1>9, <2>1, ResultIs, EndErrorsAre
  <2>3. ~(to <= Len(s))
    BY <1>0, <1>1, <1>2, <1>6, <1>11
  <2> QED BY <1>3, <2>2, <2>3 DEF to, head
<1> QED BY <1>10, <1>11

\* What is left to show of a plan that reads what it wrote.
LEMMA WrittenReads ==
  ASSUME NEW more, NEW s \in Seq(Byte), NEW off \in 0 .. Len(s), NEW b, NEW v, NEW r,
         off + Len(b) <= Len(s) => r = Result(off + Len(b), "none", v),
         off + Len(b) > Len(s) => r.err \in EndOfInput
  PROVE  ReadAs(more, s, off, Written(b), v, r)
BY WrittenIs DEF ReadAs

LEMMA TypedReads ==
  ASSUME NEW plan, NEW w, NEW r, NEW s \in Seq(Byte), NEW to \in Nat,
         to <= Len(s) => r = Result(to, "none", w),
         to > Len(s) => r.err \in EndOfInput
  PROVE  /\ to <= Len(s) => Typed(plan, r, r.val) = Result(to, "none", <<plan.tag, w>>)
         /\ to > Len(s) => Typed(plan, r, r.val).err \in EndOfInput
<1>1. to <= Len(s) => r.off = to /\ r.err = "none" /\ r.val = w
  BY ResultIs
<1>2. to <= Len(s) => Typed(plan, r, r.val) = Result(to, "none", <<plan.tag, w>>)
  BY <1>1 DEF Typed
<1> QED BY <1>2, TypedIs

\* Each plan without parts.
LEMMA SimpleReads ==
  ASSUME NEW s \in Seq(Byte), NEW t \in Seq(Byte), Begins(s, t), NEW source,
         NEW n \in 0 .. MaxNesting, NEW plan \in Layouts, plan.kind \in SimpleKinds,
         NEW v \in Level[n], v[1] = plan.tag, NEW off \in 0 .. Len(s),
         Has(t, off, EncodeSimple(plan, v).out)
  PROVE  ReadAs(ReadsMore[n][plan], s, off, EncodeSimple(plan, v), v,
                DecodeSimple(plan, s, source, off))
<1> DEFINE more == ReadsMore[n][plan]
<1>0. off \in Nat /\ Len(s) \in Nat
  OBVIOUS
<1>1. PICK r : r = DecodeSimple(plan, s, source, off)
  OBVIOUS
<1>2. PICK x : x = EncodeSimple(plan, v)
  OBVIOUS
<1>3. Sound(n, plan, s, off, r)
  BY <1>1, SimpleSound
<1>4. x = Refused => ReadAs(more, s, off, x, v, r)
  BY <1>3, RefusedReads
<1>5. plan.size \in Nat /\ (plan.kind = "enum" => plan.size <= IntHalf)
  BY LayoutsAssumption
<1> HIDE DEF more
<1>6. CASE plan.kind = "null"
  <2>1. x = Written(<< >>) /\ r = Result(off, "none", <<"null">>) /\ v = <<"null">>
    BY <1>1, <1>2, <1>6, SimpleValue DEF EncodeSimple, DecodeSimple
  <2>2. Len(<< >>) = 0 /\ off + 0 = off
    BY <1>0
  <2>3. off + Len(<< >>) <= Len(s) => r = Result(off + Len(<< >>), "none", v)
    BY <2>1, <2>2
  <2>4. ~(off + Len(<< >>) > Len(s))
    BY <1>0, <2>2
  <2> QED BY <1>1, <1>2, <2>1, <2>3, <2>4, WrittenReads DEF more
<1>7. CASE plan.kind = "boolean"
  <2> DEFINE b == <<IF v[2] THEN 1 ELSE 0>>
             y == ReadFixed(s, source, off, 1)
  <2>1. x = Written(b) /\ r = Typed(plan, y, y.val # <<0>>)
        /\ v = <<plan.tag, v[2]>> /\ v[2] \in BOOLEAN
    BY <1>1, <1>2, <1>7, SimpleValue DEF EncodeSimple, DecodeSimple
  <2>2. b \in Seq(Byte) /\ Len(b) = 1 /\ (b # <<0>> <=> v[2])
    <3>1. 0 \in Byte /\ 1 \in Byte
      BY VarintAssumption DEF Byte
    <3>2. CASE v[2]
      BY <3>1, <3>2
    <3>3. CASE ~v[2]
      BY <3>1, <3>3
    <3> QED BY <3>2, <3>3
  <2>3. Has(t, off, b)
    BY <1>2, <2>1, WrittenIs
  <2>8. y = ReadFixed(s, source, off, Len(b))
    BY <2>2
  <2> HIDE DEF b, y
  <2>9. y = IF off + Len(b) <= Len(s) THEN Result(off + Len(b), "none", b)
            ELSE Result(Len(s), ReadFullError(source, Len(s) - off), << >>)
    <3>1. b \in Seq(Byte)
      BY <2>2
    <3>2. ReadFixed(s, source, off, Len(b)) =
            IF off + Len(b) <= Len(s) THEN Result(off + Len(b), "none", b)
            ELSE Result(Len(s), ReadFullError(source, Len(s) - off), << >>)
      BY <2>3, <3>1, FixedAt
    <3> QED BY <2>8, <3>2
  <2>4. y = IF off + 1 <= Len(s) THEN Result(off + 1, "none", b)
            ELSE Result(Len(s), ReadFullError(source, Len(s) - off), << >>)
    BY <2>2, <2>9
  <2>5. ASSUME off + 1 <= Len(s)
        PROVE  r = Result(off + 1, "none", v)
    <3>1. y.off = off + 1 /\ y.err = "none" /\ y.val = b
      BY <2>4, <2>5, ResultIs
    <3>2. r = Result(off + 1, "none", <<plan.tag, b # <<0>>>>)
      BY <2>1, <3>1 DEF Typed
    <3>3. (b # <<0>>) = v[2]
      BY <2>1, <2>2
    <3> QED BY <2>1, <3>2, <3>3
  <2>6. ASSUME off + 1 > Len(s)
        PROVE  r.err \in EndOfInput
    <3>1. ~(off + 1 <= Len(s))
      BY <1>0, <2>6
    <3>2. y.err \in EndOfInput
      BY <2>4, <3>1, ResultIs, EndErrorsAre
    <3> QED BY <2>1, <3>2, TypedIs
  <2>7. ReadAs(more, s, off, Written(b), v, r)
    BY <2>2, <2>5, <2>6, WrittenReads
  <2> QED BY <1>1, <1>2, <2>1, <2>7 DEF more
<1>8. ASSUME NEW y, NEW b \in Seq(Byte), NEW w, x = Written(b), v = <<plan.tag, w>>,
             r = Typed(plan, y, y.val),
             off + Len(b) <= Len(s) => y = Result(off + Len(b), "none", w),
             off + Len(b) > Len(s) => y.err \in EndOfInput
      PROVE  ReadAs(more, s, off, x, v, r)
  <2>1. PICK to : to = off + Len(b)
    OBVIOUS
  <2>2. to \in Nat
    BY <1>0, <2>1
  <2>3. (to <= Len(s) => y = Result(to, "none", w)) /\ (to > Len(s) => y.err \in EndOfInput)
    BY <1>8, <2>1
  <2>4. /\ to <= Len(s) => r = Result(to, "none", v)
        /\ to > Len(s) => r.err \in EndOfInput
    BY <1>8, <2>2, <2>3, TypedReads
  <2>5. ReadAs(more, s, off, Written(b), v, r)
    BY <2>1, <2>4, WrittenReads
  <2> QED BY <1>8, <2>5
<1>9. \A l \in Long : PutVarint(l) \in Seq(Byte) /\ Len(PutVarint(l)) \in Nat
  BY PutVarintIsBytes
<1>10. CASE plan.kind = "int"
  <2>1. PICK y : y = ReadInt(s, source, off)
    OBVIOUS
  <2>2. PICK w : w = v[2]
    OBVIOUS
  <2>3. x = Written(PutVarint(w)) /\ r = Typed(plan, y, y.val) /\ v = <<plan.tag, w>> /\ w \in Ints
    BY <1>1, <1>2, <1>10, <2>1, <2>2, SimpleValue DEF EncodeSimple, DecodeSimple
  <2>4. PICK b : b = PutVarint(w)
    OBVIOUS
  <2>5. b \in Seq(Byte) /\ Len(b) \in Nat /\ x = Written(b)
    BY <1>9, <2>3, <2>4, IntsAreLong
  <2>6. Has(t, off, b)
    BY <1>2, <2>5, WrittenIs
  <2>7. y = IF off + Len(b) <= Len(s) THEN Result(off + Len(b), "none", w)
            ELSE Result(Len(s), ReadFullError(source, 0), 0)
    BY <2>1, <2>3, <2>4, <2>6, IntReads
  <2>8. off + Len(b) > Len(s) => ~(off + Len(b) <= Len(s))
    BY <1>0, <2>5
  <2>9. off + Len(b) > Len(s) => y.err \in EndOfInput
    BY <2>7, <2>8, ResultIs, EndErrorsAre
  <2> QED BY <1>1, <1>2, <1>8, <2>3, <2>5, <2>7, <2>9 DEF more
<1>11. CASE plan.kind = "long"
  <2>1. PICK y : y = ReadLong(s, source, off)
    OBVIOUS
  <2>2. PICK w : w = v[2]
    OBVIOUS
  <2>3. x = Written(PutVarint(w)) /\ r = Typed(plan, y, y.val) /\ v = <<plan.tag, w>> /\ w \in Long
    BY <1>1, <1>2, <1>11, <2>1, <2>2, SimpleValue DEF EncodeSimple, DecodeSimple
  <2>4. PICK b : b = PutVarint(w)
    OBVIOUS
  <2>5. b \in Seq(Byte) /\ Len(b) \in Nat /\ x = Written(b)
    BY <1>9, <2>3, <2>4
  <2>6. Has(t, off, b)
    BY <1>2, <2>5, WrittenIs
  <2>7. y = IF off + Len(b) <= Len(s) THEN Result(off + Len(b), "none", w)
            ELSE Result(Len(s), ReadFullError(source, 0), 0)
    BY <2>1, <2>3, <2>4, <2>6, LongAt
  <2>8. off + Len(b) > Len(s) => ~(off + Len(b) <= Len(s))
    BY <1>0, <2>5
  <2>9. off + Len(b) > Len(s) => y.err \in EndOfInput
    BY <2>7, <2>8, ResultIs, EndErrorsAre
  <2> QED BY <1>1, <1>2, <1>8, <2>3, <2>5, <2>7, <2>9 DEF more
<1>12. CASE plan.kind = "string"
  <2>1. PICK y : y = ReadBytes(s, source, off)
    OBVIOUS
  <2>2. PICK w : w = v[2]
    OBVIOUS
  <2>3. PICK b : b = PutVarint(Len(w)) \o w
    OBVIOUS
  <2>4. x = Written(b) /\ r = Typed(plan, y, y.val) /\ v = <<plan.tag, w>> /\ w \in ShortStrings
    BY <1>1, <1>2, <1>12, <2>1, <2>2, <2>3, SimpleValue DEF EncodeSimple, DecodeSimple
  <2>5. b \in Seq(Byte)
    BY <2>3, <2>4, StringLength, PutVarintIsBytes, JoinedIsBytes
  <2>6. Has(t, off, b)
    BY <1>2, <2>4, WrittenIs
  <2>7. /\ off + Len(b) <= Len(s) => y = Result(off + Len(b), "none", w)
        /\ off + Len(b) > Len(s) => y.err \in EndOfInput
    BY <2>1, <2>3, <2>4, <2>6, StringReads
  <2> QED BY <1>1, <1>2, <1>8, <2>4, <2>5, <2>7 DEF more
<1>13. CASE plan.kind = "fixed"
  <2>1. PICK y : y = ReadFixed(s, source, off, plan.size)
    OBVIOUS
  <2>2. PICK w : w = v[2]
    OBVIOUS
  <2>3. /\ x = IF Len(w) = plan.size THEN Written(w) ELSE Refused
        /\ r = Typed(plan, y, y.val) /\ v = <<plan.tag, w>> /\ w \in Strings
    BY <1>1, <1>2, <1>13, <2>1, <2>2, SimpleValue DEF EncodeSimple, DecodeSimple
  <2>4. w \in Seq(Byte) /\ Len(w) \in Nat
    BY <2>3 DEF Strings
  <2>5. CASE Len(w) = plan.size
    <3>1. x = Written(w)
      BY <2>3, <2>5
    <3>2. Has(t, off, w)
      BY <1>2, <3>1, WrittenIs
    <3>6. y = ReadFixed(s, source, off, Len(w))
      BY <2>1, <2>5
    <3>3. y = IF off + Len(w) <= Len(s) THEN Result(off + Len(w), "none", w)
              ELSE Result(Len(s), ReadFullError(source, Len(s) - off), << >>)
      BY <2>4, <3>2, <3>6, FixedAt
    <3>4. off + Len(w) > Len(s) => ~(off + Len(w) <= Len(s))
      BY <1>0, <2>4
    <3>5. off + Len(w) > Len(s) => y.err \in EndOfInput
      BY <3>3, <3>4, ResultIs, EndErrorsAre
    <3> QED BY <1>1, <1>2, <1>8, <2>3, <2>4, <3>1, <3>3, <3>5 DEF more
  <2>6. CASE Len(w) # plan.size
    BY <1>1, <1>2, <1>4, <2>3, <2>6 DEF more
  <2> QED BY <2>5, <2>6
<1>14. CASE plan.kind = "enum"
  <2>1. PICK y : y = ReadInt(s, source, off)
    OBVIOUS
  <2>2. PICK w : w = v[2]
    OBVIOUS
  <2>3. /\ x = IF w < plan.size THEN Written(PutVarint(w)) ELSE Refused
        /\ r = IF y.err # "none" \/ IndexIn(y.val, plan.size) THEN Typed(plan, y, y.val)
               ELSE OutOfRange(y)
        /\ v = <<plan.tag, w>> /\ w \in Nat
    BY <1>1, <1>2, <1>14, <2>1, <2>2, SimpleValue DEF EncodeSimple, DecodeSimple
  <2>4. CASE w < plan.size
    <3>1. w \in Ints /\ IndexIn(w, plan.size)
      BY <1>5, <1>14, <2>3, <2>4, IntHalfAssumption, HalfIsPositive DEF Ints, IndexIn
    <3>2. PICK b : b = PutVarint(w)
      OBVIOUS
    <3>3. b \in Seq(Byte) /\ Len(b) \in Nat /\ x = Written(b)
      BY <1>9, <2>3, <2>4, <3>1, <3>2, IntsAreLong
    <3>4. Has(t, off, b)
      BY <1>2, <3>3, WrittenIs
    <3>5. y = IF off + Len(b) <= Len(s) THEN Result(off + Len(b), "none", w)
              ELSE Result(Len(s), ReadFullError(source, 0), 0)
      BY <2>1, <3>1, <3>2, <3>4, IntReads
    <3>6. off + Len(b) > Len(s) => ~(off + Len(b) <= Len(s))
      BY <1>0, <3>3
    <3>7. off + Len(b) > Len(s) => y.err \in EndOfInput
      BY <3>5, <3>6, ResultIs, EndErrorsAre
    <3>8. r = Typed(plan, y, y.val)
      <4>1. CASE off + Len(b) <= Len(s)
        <5>1. y.val = w
          BY <3>5, <4>1, ResultIs
        <5> QED BY <2>3, <3>1, <5>1
      <4>2. CASE ~(off + Len(b) <= Len(s))
        <5>1. y.err # "none"
          BY <3>5, <4>2, ResultIs, EndErrorsAre
        <5> QED BY <2>3, <5>1
      <4> QED BY <4>1, <4>2
    <3> QED BY <1>1, <1>2, <1>8, <2>3, <3>3, <3>5, <3>7, <3>8 DEF more
  <2>5. CASE ~(w < plan.size)
    BY <1>1, <1>2, <1>4, <2>3, <2>5 DEF more
  <2> QED BY <2>4, <2>5
<1> QED BY <1>6, <1>7, <1>10, <1>11, <1>12, <1>13, <1>14 DEF SimpleKinds

-----------------------------------------------------------------------------
\* The first k of a sequence.
LEMMA Prefix ==
  ASSUME NEW S, NEW vs \in Seq(S), NEW k \in 0 .. Len(vs)
  PROVE  /\ SubSeq(vs, 1, k) \in Seq(S) /\ Len(SubSeq(vs, 1, k)) = k
         /\ \A i \in 1 .. k : SubSeq(vs, 1, k)[i] = vs[i]
<1>1. k \in Nat /\ \A i \in 1 .. k : vs[i] \in S
  OBVIOUS
<1>2. SubSeq(vs, 1, k) \in Seq(S) /\ Len(SubSeq(vs, 1, k)) = k
  BY <1>1, SubSeqProperties
<1>3. \A i \in 1 .. k : SubSeq(vs, 1, k)[i] = vs[i]
  BY <1>1, SubSeqProperties
<1> QED BY <1>2, <1>3

LEMMA PrefixGrows ==
  ASSUME NEW S, NEW vs \in Seq(S), NEW k \in 1 .. Len(vs)
  PROVE  Append(SubSeq(vs, 1, k - 1), vs[k]) = SubSeq(vs, 1, k)
<1>1. PICK p : p = SubSeq(vs, 1, k - 1)
  OBVIOUS
<1>2. k \in Nat /\ k - 1 \in 0 .. Len(vs) /\ k \in 0 .. Len(vs) /\ vs[k] \in S /\ (k - 1) + 1 = k
      /\ \A i \in 1 .. k : i \in 1 .. k - 1 \/ i = k
  OBVIOUS
<1>3. p \in Seq(S) /\ Len(p) = k - 1 /\ \A i \in 1 .. k - 1 : p[i] = vs[i]
  BY <1>1, <1>2, Prefix
<1>4. PICK a : a = Append(p, vs[k])
  OBVIOUS
<1>5. PICK b : b = SubSeq(vs, 1, k)
  OBVIOUS
<1>6. b \in Seq(S) /\ Len(b) = k /\ \A i \in 1 .. k : b[i] = vs[i]
  BY <1>2, <1>5, Prefix
<1>7. a \in Seq(S) /\ Len(a) = k /\ a[k] = vs[k] /\ \A i \in 1 .. k - 1 : a[i] = p[i]
  <2>1. a \in Seq(S) /\ Len(a) = Len(p) + 1 /\ a[Len(p) + 1] = vs[k]
        /\ \A i \in 1 .. Len(p) : a[i] = p[i]
    BY <1>2, <1>3, <1>4, AppendProperties
  <2> QED BY <1>2, <1>3, <2>1
<1>8. \A i \in 1 .. k : a[i] = b[i]
  BY <1>2, <1>3, <1>6, <1>7
<1>9. a = b
  BY <1>6, <1>7, <1>8, SeqEqual
<1> QED BY <1>1, <1>4, <1>5, <1>9

\* Values one after the other are read as they were written.
LEMMA SequenceReads ==
  ASSUME NEW s \in Seq(Byte), NEW t \in Seq(Byte), Begins(s, t),
         NEW n \in 0 .. MaxNesting, NEW decoders, AllSound(n, s, decoders),
         AllRead(n, s, t, decoders),
         NEW plans \in Seq(Layouts), NEW vs \in Seq(Level[n]), Len(plans) = Len(vs),
         NEW x \in EncodeAll(Encoders[n], plans, vs), NEW off \in 0 .. Len(s), Has(t, off, x.out)
  PROVE  /\ x \in Encodings
         /\ ReadAs(plans # << >> /\ ReadsMore[n][Last(plans)], s, off, x, vs,
                   DecodeAll(decoders, plans, off))
<1>0. off \in Nat /\ Len(s) \in Nat /\ Len(vs) \in Nat /\ Len(plans) \in Nat
  OBVIOUS
<1>a. PICK path : DecodeSteps(path, decoders, plans, off)
  BY <1>0, DecodeAllPath
<1>2. /\ DecodeAll(decoders, plans, off) = path[Len(vs)]
      /\ path[0] = Result(off, "none", << >>)
      /\ \A k \in 1 .. Len(vs) : path[k] = ThenRead(path[k - 1], decoders, plans[k])
  BY <1>a DEF DecodeSteps
<1> DEFINE xs == EncodeAll(Encoders[n], plans, vs)
           r == DecodeAll(decoders, plans, off)
<1>1. PICK upTo :
        /\ xs = upTo[Len(vs)]
        /\ \A z \in upTo[0] : Nothing(z)
        /\ \A k \in 1 .. Len(vs) : \A z \in upTo[k] :
             Joins(z, upTo[k - 1], Encoders[n][plans[k]][vs[k]])
  BY <1>0, EncodeAllPath
<1> HIDE DEF xs, r
<1> DEFINE more(k) == k # 0 /\ ReadsMore[n][plans[k]]
           Good(k) == \A z \in upTo[k] :
             /\ z \in Encodings
             /\ Has(t, off, z.out) => ReadAs(more(k), s, off, z, SubSeq(vs, 1, k), path[k])
           S == {k \in 0 .. Len(vs) : Good(k)}
<1>3. 0 \in S
  <2>1. \A z \in upTo[0] : z = Written(<< >>)
    BY <1>1 DEF Nothing
  <2>2. << >> \in Seq(Byte) /\ Len(<< >>) = 0 /\ SubSeq(vs, 1, 0) = << >>
    OBVIOUS
  <2>3. Written(<< >>) \in Encodings
    BY <2>2, WrittenEncodes
  <2>4. off + Len(<< >>) <= Len(s) => path[0] = Result(off + Len(<< >>), "none", << >>)
    BY <1>0, <1>2, <2>2
  <2>5. ~(off + Len(<< >>) > Len(s))
    BY <1>0, <2>2
  <2>6. ReadAs(more(0), s, off, Written(<< >>), << >>, path[0])
    BY <2>4, <2>5, WrittenReads
  <2>7. Good(0)
    BY <2>1, <2>2, <2>3, <2>6
  <2> HIDE DEF Good
  <2> QED BY <1>0, <2>7
<1>4. ASSUME NEW k \in 1 .. Len(vs), k - 1 \in S
      PROVE  k \in S
  <2>0. plans[k] \in Layouts /\ vs[k] \in Level[n] /\ k \in Nat /\ k - 1 \in Nat /\ k # 0
        /\ k \in 1 .. Len(plans)
    OBVIOUS
  <2>1. PICK u : u = path[k - 1]
    OBVIOUS
  <2>2. PICK w : w = path[k]
    OBVIOUS
  <2>3. PICK d : d = decoders[plans[k]][u.off]
    OBVIOUS
  <2>4. w = IF u.err # "none" THEN u ELSE Result(d.off, d.err, Append(u.val, d.val))
    BY <1>2, <2>0, <2>1, <2>2, <2>3 DEF ThenRead
  <2>5. PICK before : before = SubSeq(vs, 1, k - 1)
    OBVIOUS
  <2>6. Append(before, vs[k]) = SubSeq(vs, 1, k)
    BY <2>5, PrefixGrows
  <2>7. PICK m : m = ReadsMore[n][plans[k]]
    OBVIOUS
  <2>8. ASSUME NEW z \in upTo[k]
        PROVE  /\ z \in Encodings
               /\ Has(t, off, z.out) => ReadAs(more(k), s, off, z, SubSeq(vs, 1, k), path[k])
    <3>1. PICK y \in upTo[k - 1], e \in Encoders[n][plans[k]][vs[k]] : z = Then(y, e)
      BY <1>1 DEF Joins
    <3>2. e \in Encodings
      BY <2>0, EncodersEncode DEF Encodes
    <3>3. /\ y \in Encodings
          /\ Has(t, off, y.out) => ReadAs(more(k - 1), s, off, y, before, u)
      BY <1>4, <2>1, <2>5
    <3> HIDE DEF more
    <3>4. z \in Encodings
      BY <3>1, <3>2, <3>3, ThenIs
    <3>5. ASSUME Has(t, off, z.out)
          PROVE  ReadAs(m, s, off, z, SubSeq(vs, 1, k), w)
      <4>1. CASE y.err # "none"
        <5>1. z = y
          BY <3>1, <3>2, <3>3, <4>1, ThenIs
        <5>2. ReadAs(more(k - 1), s, off, y, before, u)
          BY <3>3, <3>5, <5>1
        <5>3. ASSUME off + Len(y.out) = Len(s)
              PROVE  /\ w.err \in {"none"} \cup EndErrors
                     /\ w.err = "none" => w.off = Len(s)
                     /\ m => w.err # "none"
          <6>1. u.err \in {"none"} \cup EndErrors /\ (u.err = "none" => u.off = Len(s))
            BY <4>1, <5>2, <5>3 DEF ReadAs
          <6>2. CASE u.err # "none"
            BY <2>4, <6>1, <6>2
          <6>3. CASE u.err = "none"
            <7>1. w.off = d.off /\ w.err = d.err
              <8>1. PICK a : a = Append(u.val, d.val)
                OBVIOUS
              <8>2. w = Result(d.off, d.err, a)
                BY <2>4, <6>3, <8>1
              <8> QED BY <8>2, ResultIs
            <7>2. u.off \in 0 .. Len(s) /\ u.off = Len(s)
              BY <1>0, <6>1, <6>3
            <7>3. Sound(n, plans[k], s, Len(s), d)
              BY <2>0, <2>3, <7>2 DEF AllSound
            <7>4. d.off \in Len(s) .. Len(s)
              BY <7>3 DEF Sound
            <7>5. d.off = Len(s)
              BY <1>0, <7>4
            <7> QED BY <2>7, <7>1, <7>3, <7>5 DEF Sound
          <6> QED BY <6>2, <6>3
        <5> QED BY <4>1, <5>1, <5>3 DEF ReadAs
      <4>2. CASE y.err = "none"
        <5>1. z.out = y.out \o e.out /\ z.err = e.err
          BY <3>1, <3>2, <3>3, <4>2, ThenIs
        <5>2. y.out \in Seq(Byte) /\ e.out \in Seq(Byte)
          BY <3>2, <3>3 DEF Encodings
        <5>3. PICK o : o = off + Len(y.out)
          OBVIOUS
        <5>4. PICK l : l = Len(e.out)
          OBVIOUS
        <5>5. o \in Nat /\ l \in Nat /\ off + Len(z.out) = o + l
          <6>1. \A a, b \in Seq(Byte) : Len(a \o b) = Len(a) + Len(b)
            OBVIOUS
          <6>2. Len(z.out) = Len(y.out) + l
            BY <5>1, <5>2, <5>4, <6>1
          <6>3. Len(y.out) \in Nat /\ l \in Nat
            BY <5>2, <5>4
          <6>4. \A a, b, c \in Nat : a + (b + c) = (a + b) + c /\ a + b \in Nat
            OBVIOUS
          <6> QED BY <1>0, <5>3, <6>2, <6>3, <6>4
        <5>6. Has(t, off, y.out) /\ Has(t, o, e.out)
          BY <1>0, <3>5, <5>1, <5>2, <5>3, HasParts
        <5>7. ReadAs(more(k - 1), s, off, y, before, u)
          BY <3>3, <5>6
        <5>8. CASE o <= Len(s)
          <6>1. u = Result(o, "none", before)
            BY <4>2, <5>3, <5>7, <5>8 DEF ReadAs
          <6>2. u.off = o /\ u.err = "none" /\ u.val = before
            BY <6>1, ResultIs
          <6>3. o \in 0 .. Len(s)
            BY <1>0, <5>5, <5>8
          <6>4. ReadAs(m, s, o, e, vs[k], d)
            BY <2>0, <2>3, <2>7, <5>6, <6>2, <6>3 DEF AllRead
          <6>5. PICK a : a = Append(before, d.val)
            OBVIOUS
          <6>6. w = Result(d.off, d.err, a)
            BY <2>4, <6>2, <6>5
          <6>7. w.off = d.off /\ w.err = d.err
            BY <6>6, ResultIs
          <6>8. (e.err = "none" /\ o + l <= Len(s)) => w = Result(o + l, "none", SubSeq(vs, 1, k))
            <7> SUFFICES ASSUME e.err = "none", o + l <= Len(s)
                         PROVE  w = Result(o + l, "none", SubSeq(vs, 1, k))
              OBVIOUS
            <7>1. d = Result(o + l, "none", vs[k])
              BY <5>4, <6>4 DEF ReadAs
            <7>2. d.off = o + l /\ d.err = "none" /\ d.val = vs[k]
              BY <7>1, ResultIs
            <7>3. a = SubSeq(vs, 1, k)
              BY <2>6, <6>5, <7>2
            <7> QED BY <6>6, <7>2, <7>3
          <6> QED BY <5>1, <5>4, <5>5, <6>4, <6>7, <6>8 DEF ReadAs
        <5>9. CASE ~(o <= Len(s))
          <6>1. o > Len(s)
            BY <1>0, <5>5, <5>9
          <6>2. u.err \in EndOfInput
            BY <4>2, <5>3, <5>7, <6>1 DEF ReadAs
          <6>3. w = u
            BY <2>4, <6>2, EndErrorsAre
          <6>4. ~(o + l <= Len(s)) /\ o + l # Len(s)
            BY <1>0, <5>5, <6>1
          <6> QED BY <5>5, <6>2, <6>3, <6>4 DEF ReadAs
        <5> QED BY <5>8, <5>9
      <4> QED BY <4>1, <4>2
    <3>6. more(k) => m
      BY <2>7 DEF more
    <3>7. ReadAs(m, s, off, z, SubSeq(vs, 1, k), w)
            => ReadAs(more(k), s, off, z, SubSeq(vs, 1, k), w)
      BY <3>6 DEF ReadAs
    <3> QED BY <2>2, <3>4, <3>5, <3>7
  <2>9. Good(k)
    BY <2>8
  <2>10. k \in 0 .. Len(vs)
    BY <1>0
  <2> HIDE DEF Good
  <2> QED BY <2>9, <2>10
<1> HIDE DEF S
<1>5. \A k \in 0 .. Len(vs) : k \in S
  BY <1>0, <1>3, <1>4, UpTo
<1>6. Good(Len(vs))
  BY <1>0, <1>5 DEF S
<1>7. SubSeq(vs, 1, Len(vs)) = vs
  OBVIOUS
<1>8. PICK m : m = (plans # << >> /\ ReadsMore[n][Last(plans)])
  OBVIOUS
<1>9. m => more(Len(vs))
  <2>1. plans # << >> <=> Len(vs) # 0
    BY <1>0
  <2>2. Last(plans) = plans[Len(vs)]
    BY DEF Last
  <2> QED BY <1>8, <2>1, <2>2
<1> HIDE DEF more
<1>10. x \in xs
  BY DEF xs
<1>12. ReadAs(more(Len(vs)), s, off, x, vs, r) => ReadAs(m, s, off, x, vs, r)
  BY <1>9 DEF ReadAs
<1>11. x \in Encodings /\ ReadAs(m, s, off, x, vs, r)
  <2>1. path[Len(vs)] = r
    BY <1>2 DEF r
  <2>2. x \in upTo[Len(vs)]
    BY <1>1, <1>10
  <2>3. x \in Encodings
        /\ (Has(t, off, x.out) => ReadAs(more(Len(vs)), s, off, x, SubSeq(vs, 1, Len(vs)), r))
    BY <1>6, <2>1, <2>2
  <2> QED BY <1>7, <1>12, <2>3
<1> QED BY <1>8, <1>11 DEF r

-----------------------------------------------------------------------------
\* What a turn that reads c, up to at, makes w of u.
AtTurn(decoders, plan, s, source, u, c, at, block, v, w) ==
  /\ at = u.off + Len(PutVarint(c))
  /\ block = DecodeAll(decoders, BlockPlans(plan, c), at)
  /\ v = u.val \o block.val
  /\ w = DecodeBlock(decoders, plan, s, source, u)

\* The turn that reads the count of a block that was written.
LEMMA HeadTurn ==
  ASSUME NEW s \in Seq(Byte), NEW t \in Seq(Byte), Begins(s, t), NEW source,
         NEW decoders, NEW plan, NEW c \in Nat, c < Half,
         NEW u, u.off \in 0 .. Len(s), u.err = "more", Has(t, u.off, PutVarint(c)),
         NEW at, NEW block, NEW v, NEW w,
         AtTurn(decoders, plan, s, source, u, c, at, block, v, w)
  PROVE  /\ at > Len(s) => w.err \in EndOfInput
         /\ (at <= Len(s) /\ c = 0) => w = Result(at, "none", u.val)
         /\ (at <= Len(s) /\ c # 0 /\ block.err = "none") => w = Result(block.off, "more", v)
         /\ (at <= Len(s) /\ c # 0 /\ block.err # "none") => w = Result(block.off, block.err, v)
<1>1. PICK o : o = u.off
  OBVIOUS
<1>2. PICK b : b = PutVarint(c)
  OBVIOUS
<1>a. /\ at = o + Len(b) /\ o \in 0 .. Len(s) /\ Has(t, o, b)
      /\ block = DecodeAll(decoders, BlockPlans(plan, c), at)
      /\ v = u.val \o block.val
      /\ w = DecodeBlock(decoders, plan, s, source, u)
  BY <1>1, <1>2 DEF AtTurn
<1>3. PICK l : l = ReadLong(s, source, u.off)
  OBVIOUS
<1>4. c \in Long /\ Half \in Nat
  BY HalfIsPositive DEF Long
<1>5. b \in Seq(Byte) /\ Len(b) \in Nat
  BY <1>2, <1>4, PutVarintIsBytes
<1>6. at \in Nat /\ Len(s) \in Nat
  BY <1>5, <1>a
<1>7. l = IF at <= Len(s) THEN Result(at, "none", c)
          ELSE Result(Len(s), ReadFullError(source, 0), 0)
  <2>1. l = ReadLong(s, source, o)
    BY <1>1, <1>3
  <2> QED BY <1>2, <1>4, <1>a, <2>1, LongAt
<1>8. CASE at > Len(s)
  <2>1. ~(at <= Len(s))
    BY <1>6, <1>8
  <2>2. l.err \in EndOfInput /\ l.err # "none"
    BY <1>7, <2>1, ResultIs, EndErrorsAre
  <2>3. w = Result(l.off, l.err, u.val)
    BY <1>3, <1>a, <2>2 DEF DecodeBlock
  <2>4. w.err \in EndOfInput
    BY <2>2, <2>3, ResultIs
  <2> QED BY <2>1, <2>4
<1>9. CASE at <= Len(s)
  <2>1. ~(at > Len(s))
    BY <1>6, <1>9
  <2>2. l.off = at /\ l.err = "none" /\ l.val = c
    BY <1>7, <1>9, ResultIs
  <2>3. BlockStart(s, source, l) = l /\ BlockCount(l) = c
    BY <2>2 DEF BlockStart, BlockCount
  <2>4. CASE c = 0
    <3>1. w = Result(at, "none", u.val)
      BY <1>3, <1>a, <2>2, <2>4 DEF DecodeBlock
    <3> QED BY <2>1, <2>4, <3>1
  <2>5. CASE c # 0
    <3>1. w = Result(block.off, IF block.err = "none" THEN "more" ELSE block.err, v)
      BY <1>3, <1>a, <2>2, <2>3, <2>5 DEF DecodeBlock
    <3>2. CASE block.err = "none"
      BY <2>1, <2>5, <3>1, <3>2
    <3>3. CASE block.err # "none"
      BY <2>1, <2>5, <3>1, <3>3
    <3> QED BY <3>2, <3>3
  <2> QED BY <2>4, <2>5
<1> QED BY <1>6, <1>8, <1>9

\* The turn that reads the end of the blocks that was written.
LEMMA ZeroTurn ==
  ASSUME NEW s \in Seq(Byte), NEW t \in Seq(Byte), Begins(s, t), NEW source,
         NEW decoders, NEW plan, NEW b, b = PutVarint(0),
         NEW u, NEW o \in 0 .. Len(s), u.off = o, u.err = "more", Has(t, o, b),
         NEW at, at = o + Len(b), NEW w, w = DecodeBlock(decoders, plan, s, source, u)
  PROVE  /\ at > Len(s) => w.err \in EndOfInput
         /\ at <= Len(s) => w = Result(at, "none", u.val)
<1>1. PICK block : block = DecodeAll(decoders, BlockPlans(plan, 0), at)
  OBVIOUS
<1>2. PICK v : v = u.val \o block.val
  OBVIOUS
<1>3. PICK c : c = 0
  OBVIOUS
<1>4. c \in Nat /\ c < Half
  BY <1>3, HalfIsPositive
<1>5. AtTurn(decoders, plan, s, source, u, c, at, block, v, w) /\ Has(t, u.off, PutVarint(c))
  BY <1>1, <1>2, <1>3 DEF AtTurn
<1>6. /\ at > Len(s) => w.err \in EndOfInput
      /\ (at <= Len(s) /\ c = 0) => w = Result(at, "none", u.val)
  BY <1>4, <1>5, HeadTurn
<1> QED BY <1>3, <1>6

\* At the end of the bytes there is no other block.
LEMMA EndTurn ==
  ASSUME NEW s \in Seq(Byte), NEW source, NEW decoders, NEW plan,
         NEW u, u.off = Len(s), u.err = "more"
  PROVE  DecodeBlock(decoders, plan, s, source, u).err \in EndOfInput
<1>1. PICK l : l = ReadLong(s, source, u.off)
  OBVIOUS
<1>2. u.off \in 0 .. Len(s)
  OBVIOUS
<1>3. l.err \in {"eof", "source"}
  BY <1>1, <1>2, AnyLong
<1>4. DecodeBlock(decoders, plan, s, source, u) = Result(l.off, l.err, u.val)
  BY <1>1, <1>3 DEF DecodeBlock
<1> QED BY <1>3, <1>4, ResultIs DEF EndOfInput

\* The states that the loop over blocks passes through.
Turns(L, after, decoders, plan, s, source) ==
  \A k \in 1 .. L : after[k] = DecodeBlock(decoders, plan, s, source, after[k - 1])

\* What a turn that ended the loop left is what the loop leaves.
LEMMA TurnsEnd ==
  ASSUME NEW L \in Nat, NEW after, NEW decoders, NEW plan, NEW s, NEW source,
         Turns(L, after, decoders, plan, s, source),
         NEW i \in 0 .. L, after[i].err # "more"
  PROVE  after[L] = after[i]
<1>0. \A k \in 1 .. L : after[k] = DecodeBlock(decoders, plan, s, source, after[k - 1])
  BY DEF Turns
<1> DEFINE S == {k \in 0 .. L : k >= i => after[k] = after[i]}
<1>1. 0 \in S
  OBVIOUS
<1>2. ASSUME NEW k \in 1 .. L, k - 1 \in S
      PROVE  k \in S
  <2>1. CASE k - 1 >= i
    <3>1. after[k - 1] = after[i]
      BY <1>2, <2>1
    <3>2. after[k] = after[k - 1]
      BY <1>0, <3>1 DEF DecodeBlock
    <3> QED BY <3>1, <3>2
  <2>2. CASE k = i
    BY <2>2
  <2>3. CASE k < i
    BY <2>3
  <2> QED BY <2>1, <2>2, <2>3
<1> HIDE DEF S
<1>3. \A k \in 0 .. L : k \in S
  BY <1>1, <1>2, UpTo
<1>4. L \in S
  BY <1>3
<1> QED BY <1>4 DEF S

\* The items of the one block that an encoder writes are read as they were written.
LEMMA BlocksRead ==
  ASSUME NEW s \in Seq(Byte), NEW t \in Seq(Byte), Begins(s, t), NEW source,
         NEW n \in 0 .. MaxNesting, NEW decoders, AllSound(n, s, decoders),
         AllRead(n, s, t, decoders),
         NEW plan \in Layouts, plan.kind \in {"array", "map"}, NEW c \in Nat, c < Half,
         NEW plans, plans = BlockPlans(plan, c),
         NEW vs \in Seq(Level[n]), Len(plans) = Len(vs),
         NEW x \in EncodeBlock(Encoders[n], plans, vs, c),
         NEW off \in 0 .. Len(s), Has(t, off, x.out), NEW more
  PROVE  ReadAs(more, s, off, x, vs, DecodeBlocks(decoders, plan, s, source, off))
<1>0. off \in Nat /\ Len(s) \in Nat /\ Len(s) + 1 \in Nat
  OBVIOUS
<1>1. plans \in Seq(Layouts) /\ Len(vs) = IF plan.kind = "map" THEN 2 * c ELSE c
  BY PlansAtAre
<1> DEFINE d == DecodeBlocks(decoders, plan, s, source, off)
<1>a. PICK after : BlockSteps(after, decoders, plan, s, source, off)
  BY <1>0, DecodeBlocksPath
<1>2. /\ d = after[Len(s) + 1]
      /\ after[0] = Result(off, "more", << >>)
      /\ \A k \in 1 .. Len(s) + 1 :
           after[k] = DecodeBlock(decoders, plan, s, source, after[k - 1])
  BY <1>a DEF BlockSteps
<1>3. PICK r : r = DecodeBlocks(decoders, plan, s, source, off)
  OBVIOUS
<1>4. r = after[Len(s) + 1]
  BY <1>2, <1>3
<1> HIDE DEF d
<1>5. ASSUME NEW k \in 0 .. Len(s) + 1, after[k].err # "more"
      PROVE  r = after[k]
  <2>1. PICK L : L = Len(s) + 1
    OBVIOUS
  <2>2. /\ L \in Nat /\ k \in 0 .. L /\ r = after[L]
        /\ Turns(L, after, decoders, plan, s, source)
    BY <1>0, <1>2, <1>4, <2>1 DEF Turns
  <2>3. after[L] = after[k]
    BY <1>5, <2>2, TurnsEnd
  <2> QED BY <2>2, <2>3
<1>6. PICK first : first = after[1]
  OBVIOUS
<1>c. PICK u : u = after[0]
  OBVIOUS
<1>7. first = DecodeBlock(decoders, plan, s, source, u)
  BY <1>0, <1>2, <1>6, <1>c
<1>8. u.off = off /\ u.err = "more" /\ u.val = << >>
  BY <1>2, <1>c, ResultIs
<1>9. first.err # "more" => r = first
  BY <1>0, <1>5, <1>6
<1>10. PICK zero : zero = PutVarint(0)
  OBVIOUS
<1>11. 0 \in Long /\ c \in Long /\ 0 < Half
  BY HalfIsPositive DEF Long
<1>12. zero \in Seq(Byte) /\ Len(zero) \in Nat /\ Len(zero) >= 1
  BY <1>10, <1>11, PutVarintIsBytes, VarintAssumption
<1>13. PICK y \in EncodeAll(Encoders[n], plans, vs) :
         x = Then(Then(BlockBegun(c), y), Written(zero))
  BY <1>10 DEF EncodeBlock, Ended
<1>14. PICK begun : begun = BlockBegun(c)
  OBVIOUS
<1>15. /\ begun \in Encodings /\ begun.err = "none"
       /\ begun.out = IF c = 0 THEN << >> ELSE PutVarint(c)
  BY <1>1, <1>14, EncodersEncode, BlockEncodes
<1>16. y \in Encodings
  BY <1>1, <1>13, EncodersEncode, AllEncodes
<1>17. PICK z : z = Then(begun, y)
  OBVIOUS
<1>18. z \in Encodings /\ z.out = begun.out \o y.out /\ z.err = y.err
  BY <1>15, <1>16, <1>17, ThenIs
<1>b. PICK e : e = Written(zero)
  OBVIOUS
<1>19. e \in Encodings /\ e.out = zero /\ e.err = "none"
  BY <1>12, <1>b, WrittenEncodes, WrittenIs
<1>20. x = Then(z, e)
  BY <1>13, <1>14, <1>17, <1>b
<1>21. /\ y.err # "none" => x = z
       /\ y.err = "none" => x.err = "none" /\ x.out = z.out \o zero
  BY <1>18, <1>19, <1>20, ThenIs
<1>22. CASE c = 0
  <2>1. vs = << >>
    <3>1. Len(vs) = 0
      BY <1>1, <1>22
    <3> QED BY <3>1
  <2>2. Nothing(y)
    <3>1. Len(vs) = 0 /\ Len(vs) \in Nat
      BY <2>1
    <3>2. PICK upTo : EncodeAll(Encoders[n], plans, vs) = upTo[Len(vs)]
                      /\ \A w \in upTo[0] : Nothing(w)
      BY <3>1, EncodeAllPath
    <3> QED BY <1>13, <3>1, <3>2
  <2>3. y.out = << >> /\ y.err = "none"
    BY <2>2, WrittenIs DEF Nothing
  <2>4. z.out = << >>
    BY <1>15, <1>18, <1>22, <2>3
  <2>5. x.err = "none" /\ x.out = zero
    BY <1>12, <1>21, <2>3, <2>4
  <2>6. PICK to : to = off + Len(zero)
    OBVIOUS
  <2>7. /\ to > Len(s) => first.err \in EndOfInput
        /\ to <= Len(s) => first = Result(to, "none", u.val)
    BY <1>7, <1>8, <1>10, <2>5, <2>6, ZeroTurn
  <2>8. to > Len(s) => r.err \in EndOfInput
    <3>1. "more" \notin EndOfInput
      BY DEF EndOfInput
    <3> QED BY <1>9, <2>7, <3>1
  <2>9. to <= Len(s) => r = Result(to, "none", vs)
    BY <1>8, <1>9, <2>1, <2>7, ResultIs
  <2>10. ReadAs(more, s, off, x, vs, r)
    BY <2>5, <2>6, <2>8, <2>9 DEF ReadAs
  <2> QED BY <1>3, <2>10
<1>23. CASE c # 0
  <2>1. PICK head : head = PutVarint(c)
    OBVIOUS
  <2>2. head \in Seq(Byte) /\ Len(head) \in Nat /\ Len(head) >= 1
    BY <1>11, <2>1, PutVarintIsBytes, VarintAssumption
  <2>3. z.out = head \o y.out
    BY <1>15, <1>18, <1>23, <2>1
  <2>4. y.out \in Seq(Byte) /\ Len(y.out) \in Nat /\ z.out \in Seq(Byte)
    <3>1. \A q \in Encodings : q.out \in Seq(Byte)
      BY DEF Encodings
    <3>2. \A q \in Seq(Byte) : Len(q) \in Nat
      OBVIOUS
    <3> QED BY <1>16, <1>18, <3>1, <3>2
  <2>5. Has(t, off, z.out)
    <3>1. CASE y.err # "none"
      BY <1>21, <3>1
    <3>2. CASE y.err = "none"
      BY <1>0, <1>12, <1>21, <2>4, <3>2, HasParts
    <3> QED BY <3>1, <3>2
  <2>6. PICK at : at = off + Len(head)
    OBVIOUS
  <2>7. at \in Nat /\ at >= 1
    BY <1>0, <2>2, <2>6
  <2>8. Has(t, off, head) /\ Has(t, at, y.out)
    BY <1>0, <2>2, <2>3, <2>4, <2>5, <2>6, HasParts
  <2>9. PICK l : l = at + Len(y.out)
    OBVIOUS
  <2>10. l \in Nat /\ l >= at /\ l = off + Len(z.out)
    <3>1. Len(z.out) = Len(head) + Len(y.out)
      BY <2>2, <2>3, <2>4, Joined
    <3>2. \A a, b, f \in Nat : (a + b) + f = a + (b + f)
      OBVIOUS
    <3>3. \A a, b \in Nat : a + b \in Nat /\ a + b >= a
      OBVIOUS
    <3>4. l \in Nat /\ l >= at
      BY <2>4, <2>7, <2>9, <3>3
    <3>5. l = (off + Len(head)) + Len(y.out)
      BY <2>6, <2>9
    <3>6. l = off + Len(z.out)
      <4>1. PICK a : a = Len(head)
        OBVIOUS
      <4>2. PICK b : b = Len(y.out)
        OBVIOUS
      <4>3. a \in Nat /\ b \in Nat /\ l = (off + a) + b /\ Len(z.out) = a + b
        BY <2>2, <2>4, <3>1, <3>5, <4>1, <4>2
      <4> QED BY <1>0, <3>2, <4>3
    <3> QED BY <3>4, <3>6
  <2>11. y.err = "none" => off + Len(x.out) = l + Len(zero)
    <3> SUFFICES ASSUME y.err = "none" PROVE off + Len(x.out) = l + Len(zero)
      OBVIOUS
    <3>1. Len(x.out) = Len(z.out) + Len(zero)
      BY <1>12, <1>21, <2>4, Joined
    <3>2. Len(z.out) \in Nat
      BY <2>4
    <3>3. \A a, b, f \in Nat : (a + b) + f = a + (b + f)
      OBVIOUS
    <3> QED BY <1>0, <1>12, <2>10, <3>1, <3>2, <3>3
  <2>12. PICK block : block = DecodeAll(decoders, plans, at)
    OBVIOUS
  <2>a. PICK v : v = u.val \o block.val
    OBVIOUS
  <2>b. /\ at > Len(s) => first.err \in EndOfInput
        /\ (at <= Len(s) /\ block.err = "none") => first = Result(block.off, "more", v)
        /\ (at <= Len(s) /\ block.err # "none") => first = Result(block.off, block.err, v)
    <3>1. AtTurn(decoders, plan, s, source, u, c, at, block, v, first)
      BY <1>7, <1>8, <2>1, <2>6, <2>12, <2>a DEF AtTurn
    <3>2. u.off \in 0 .. Len(s) /\ u.err = "more" /\ Has(t, u.off, PutVarint(c))
      BY <1>8, <2>1, <2>8
    <3>3. /\ at > Len(s) => first.err \in EndOfInput
          /\ (at <= Len(s) /\ c # 0 /\ block.err = "none") => first = Result(block.off, "more", v)
          /\ (at <= Len(s) /\ c # 0 /\ block.err # "none") =>
               first = Result(block.off, block.err, v)
      BY <3>1, <3>2, HeadTurn
    <3> QED BY <1>23, <3>3
  <2>13. /\ at > Len(s) => first.err \in EndOfInput
         /\ (at <= Len(s) /\ block.err = "none") =>
              first.off = block.off /\ first.err = "more" /\ first.val = v
         /\ (at <= Len(s) /\ block.err # "none") => first.err = block.err
    BY <2>b, ResultIs
  <2>14. CASE at > Len(s)
    <3>1. r.err \in EndOfInput
      <4>1. "more" \notin EndOfInput
        BY DEF EndOfInput
      <4> QED BY <1>9, <2>13, <2>14, <4>1
    <3>2. y.err # "none" => x.err # "none" /\ off + Len(x.out) # Len(s)
      <4>1. l # Len(s)
        BY <1>0, <2>7, <2>10, <2>14
      <4>2. y.err # "none" => x.err # "none" /\ off + Len(x.out) = l
        BY <1>18, <1>21, <2>10
      <4> QED BY <4>1, <4>2
    <3>3. y.err = "none" => x.err = "none" /\ ~(off + Len(x.out) <= Len(s))
      BY <1>0, <1>12, <1>21, <2>7, <2>10, <2>11, <2>14, SMTT(30)
    <3>4. ReadAs(more, s, off, x, vs, r)
      BY <3>1, <3>2, <3>3 DEF ReadAs
    <3> QED BY <1>3, <3>4
  <2>15. CASE at <= Len(s)
    <3>1. at \in 0 .. Len(s)
      BY <1>0, <2>7, <2>15
    <3>2. PICK m : ReadAs(m, s, at, y, vs, block)
      BY <1>1, <1>13, <2>8, <2>12, <3>1, SequenceReads
    <3>3. PICK second : second = after[2]
      OBVIOUS
    <3>4. 2 \in 1 .. Len(s) + 1 /\ 2 \in 0 .. Len(s) + 1 /\ 2 - 1 = 1
      BY <1>0, <2>7, <2>15
    <3>5. second = DecodeBlock(decoders, plan, s, source, first)
      BY <1>2, <1>6, <3>3, <3>4
    <3>6. second.err # "more" => r = second
      BY <1>5, <3>3, <3>4
    <3>7. "more" \notin EndOfInput /\ "none" \notin EndErrors /\ "more" \notin EndErrors
          /\ EndOfInput \subseteq EndErrors
      BY DEF EndOfInput, EndErrors
    <3>8. CASE y.err = "none" /\ l <= Len(s)
      <4>1. block = Result(l, "none", vs)
        BY <2>9, <3>2, <3>8 DEF ReadAs
      <4>2. block.off = l /\ block.err = "none" /\ block.val = vs
        BY <4>1, ResultIs
      <4>3. first.off = l /\ first.err = "more" /\ first.val = vs
        <5>1. << >> \o vs = vs
          OBVIOUS
        <5>2. v = vs
          BY <1>8, <2>a, <4>2, <5>1
        <5> QED BY <2>13, <2>15, <4>2, <5>2
      <4>4. first.off \in 0 .. Len(s)
        BY <1>0, <2>10, <3>8, <4>3
      <4>5. Has(t, l, zero)
        <5>1. Has(t, off, z.out \o zero)
          BY <1>21, <3>8
        <5> QED BY <1>0, <1>12, <2>4, <2>10, <5>1, HasParts
      <4>6. PICK to : to = l + Len(zero)
        OBVIOUS
      <4>7. /\ to > Len(s) => second.err \in EndOfInput
            /\ to <= Len(s) => second = Result(to, "none", first.val)
        BY <1>10, <1>11, <3>5, <4>3, <4>4, <4>5, <4>6, ZeroTurn
      <4>8. to > Len(s) => r.err \in EndOfInput
        BY <3>6, <3>7, <4>7
      <4>9. to <= Len(s) => r = Result(to, "none", vs)
        BY <3>6, <4>3, <4>7, ResultIs
      <4>10. ReadAs(more, s, off, x, vs, r)
        BY <1>21, <2>11, <3>8, <4>6, <4>8, <4>9 DEF ReadAs
      <4> QED BY <1>3, <4>10
    <3>9. CASE y.err = "none" /\ ~(l <= Len(s))
      <4>1. l > Len(s)
        BY <1>0, <2>10, <3>9
      <4>2. block.err \in EndOfInput
        BY <2>9, <3>2, <3>9, <4>1 DEF ReadAs
      <4>3. first.err = block.err
        BY <2>13, <2>15, <3>7, <4>2
      <4>4. r.err \in EndOfInput
        BY <1>9, <3>7, <4>2, <4>3
      <4>5. ~(off + Len(x.out) <= Len(s))
        BY <1>0, <1>12, <2>10, <2>11, <3>9, <4>1
      <4>6. ReadAs(more, s, off, x, vs, r)
        BY <1>21, <3>9, <4>4, <4>5 DEF ReadAs
      <4> QED BY <1>3, <4>6
    <3>10. CASE y.err # "none"
      <4>1. x = z /\ x.err # "none" /\ off + Len(x.out) = l
        BY <1>18, <1>21, <2>10, <3>10
      <4>2. ASSUME l = Len(s)
            PROVE  r.err \in EndErrors
        <5>1. block.err \in {"none"} \cup EndErrors /\ (block.err = "none" => block.off = Len(s))
          BY <2>9, <3>2, <3>10, <4>2 DEF ReadAs
        <5>2. CASE block.err = "none"
          <6>1. first.off = Len(s) /\ first.err = "more"
            BY <2>13, <2>15, <5>1, <5>2
          <6>2. second.err \in EndOfInput
            BY <3>5, <6>1, EndTurn
          <6> QED BY <3>6, <3>7, <6>2
        <5>3. CASE block.err # "none"
          BY <1>9, <2>13, <2>15, <3>7, <5>1, <5>3
        <5> QED BY <5>2, <5>3
      <4>3. ReadAs(more, s, off, x, vs, r)
        BY <3>7, <4>1, <4>2 DEF ReadAs
      <4> QED BY <1>3, <4>3
    <3> QED BY <3>8, <3>9, <3>10
  <2> QED BY <1>0, <2>7, <2>14, <2>15
<1> QED BY <1>22, <1>23

-----------------------------------------------------------------------------
\* Each kind of plan with parts.
LEMMA UnionReads ==
  ASSUME NEW s \in Seq(Byte), NEW t \in Seq(Byte), Begins(s, t), NEW source,
         NEW n \in 1 .. MaxNesting, NEW decoders, AllSound(n - 1, s, decoders),
         AllRead(n - 1, s, t, decoders),
         NEW plan \in Layouts, plan.kind = "union", NEW v \in Level[n], v[1] = plan.tag,
         NEW off \in 0 .. Len(s), NEW x \in EncodeCompound(Encoders[n - 1], plan, v),
         Has(t, off, x.out)
  PROVE  ReadAs(ReadsMore[n][plan], s, off, x, v, DecodeCompound(decoders, plan, s, source, off))
<1>0. /\ off \in Nat /\ Len(s) \in Nat /\ n \in 0 .. MaxNesting /\ n - 1 \in 0 .. MaxNesting
      /\ n # 0
  BY LayoutsAssumption
<1>1. PICK r : r = DecodeCompound(decoders, plan, s, source, off)
  OBVIOUS
<1>2. Sound(n, plan, s, off, r)
  BY <1>1, UnionSound
<1>3. plan.kind \notin SimpleKinds /\ plan.parts \in Seq(Layouts) /\ Len(plan.parts) \in Nat
      /\ Len(plan.parts) < Half /\ Half \in Nat
  BY LayoutsAssumption, HalfIsPositive DEF SimpleKinds
<1>4. v = <<"union", v[2], v[3]>> /\ v[2] \in Int /\ v[3] \in Level[n - 1]
  BY <1>0, <1>3, CompoundValue
<1>5. PICK i : i = v[2]
  OBVIOUS
<1>6. CASE ~(i \in 1 .. Len(plan.parts))
  <2>1. x = Refused
    BY <1>5, <1>6 DEF EncodeCompound
  <2> QED BY <1>0, <1>1, <1>2, <2>1, RefusedReads
<1>7. CASE i \in 1 .. Len(plan.parts)
  <2>1. PICK part : part = plan.parts[i]
    OBVIOUS
  <2>2. part \in Layouts
    BY <1>3, <1>7, <2>1
  <2>3. PICK b : b = PutVarint(i - 1)
    OBVIOUS
  <2>4. i - 1 \in Long /\ i - 1 \in Nat /\ IndexIn(i - 1, Len(plan.parts)) /\ (i - 1) + 1 = i
    BY <1>3, <1>7 DEF Long, IndexIn
  <2>5. b \in Seq(Byte) /\ Len(b) \in Nat
    BY <2>3, <2>4, PutVarintIsBytes
  <2>6. PICK e \in Encoders[n - 1][part][v[3]] : x = Then(Written(b), e)
    BY <1>5, <1>7, <2>1, <2>3 DEF EncodeCompound
  <2>7. e \in Encodings
    BY <1>0, <1>4, <2>2, EncodersEncode DEF Encodes
  <2>8. PICK z : z = Written(b)
    OBVIOUS
  <2>9. z \in Encodings /\ z.out = b /\ z.err = "none"
    BY <2>5, <2>8, WrittenEncodes, WrittenIs
  <2>10. x.out = b \o e.out /\ x.err = e.err
    <3>1. x = Then(z, e)
      BY <2>6, <2>8
    <3>2. x.out = z.out \o e.out /\ x.err = e.err
      BY <2>7, <2>9, <3>1, ThenIs
    <3> QED BY <2>9, <3>2
  <2>11. e.out \in Seq(Byte) /\ Len(e.out) \in Nat
    <3>1. \A q \in Encodings : q.out \in Seq(Byte)
      BY DEF Encodings
    <3>2. \A q \in Seq(Byte) : Len(q) \in Nat
      OBVIOUS
    <3> QED BY <2>7, <3>1, <3>2
  <2>12. PICK at : at = off + Len(b)
    OBVIOUS
  <2>13. Has(t, off, b) /\ Has(t, at, e.out)
    BY <1>0, <2>5, <2>10, <2>11, <2>12, HasParts
  <2>14. PICK l : l = at + Len(e.out)
    OBVIOUS
  <2>15. at \in Nat /\ l \in Nat /\ l >= at /\ off + Len(x.out) = l
    <3>1. Len(x.out) = Len(b) + Len(e.out)
      BY <2>5, <2>10, <2>11, Joined
    <3>2. \A p, q, o \in Nat : (p + q) + o = p + (q + o)
      OBVIOUS
    <3>3. at \in Nat
      BY <1>0, <2>5, <2>12
    <3>4. l \in Nat /\ l >= at
      BY <2>11, <2>14, <3>3
    <3>5. PICK p : p = Len(b)
      OBVIOUS
    <3>6. PICK q : q = Len(e.out)
      OBVIOUS
    <3>7. p \in Nat /\ q \in Nat /\ l = (off + p) + q /\ Len(x.out) = p + q
      BY <2>5, <2>11, <2>12, <2>14, <3>1, <3>5, <3>6
    <3>8. off + Len(x.out) = l
      BY <1>0, <3>2, <3>7
    <3> QED BY <3>3, <3>4, <3>8
  <2>16. PICK c : c = ReadLong(s, source, off)
    OBVIOUS
  <2>17. c = IF at <= Len(s) THEN Result(at, "none", i - 1)
             ELSE Result(Len(s), ReadFullError(source, 0), 0)
    BY <2>3, <2>4, <2>12, <2>13, <2>16, LongAt
  <2>18. PICK d : d = decoders[plan.parts[c.val + 1]][c.off]
    OBVIOUS
  <2>19. r = IF c.err # "none" THEN c
             ELSE IF ~IndexIn(c.val, Len(plan.parts)) THEN OutOfRange(c)
             ELSE Result(d.off, d.err, <<"union", c.val + 1, d.val>>)
    BY <1>1, <2>16, <2>18 DEF DecodeCompound
  <2>20. CASE at > Len(s)
    <3>1. ~(at <= Len(s))
      BY <1>0, <2>15, <2>20
    <3>2. c.err \in EndOfInput /\ c.err # "none"
      BY <2>17, <3>1, ResultIs, EndErrorsAre
    <3>3. r.err \in EndOfInput
      BY <2>19, <3>2
    <3>4. ~(l <= Len(s)) /\ l # Len(s)
      BY <1>0, <2>15, <2>20
    <3>5. ReadAs(ReadsMore[n][plan], s, off, x, v, r)
      BY <2>15, <3>3, <3>4 DEF ReadAs
    <3> QED BY <1>1, <3>5
  <2>21. CASE at <= Len(s)
    <3>1. c.off = at /\ c.err = "none" /\ c.val = i - 1
      BY <2>17, <2>21, ResultIs
    <3>2. d = decoders[part][at]
      BY <2>1, <2>4, <2>18, <3>1
    <3>3. at \in 0 .. Len(s)
      BY <1>0, <2>15, <2>21
    <3>4. PICK m : m = ReadsMore[n - 1][part]
      OBVIOUS
    <3>5. ReadAs(m, s, at, e, v[3], d)
      BY <1>4, <2>2, <2>6, <2>13, <3>2, <3>3, <3>4 DEF AllRead
    <3>6. ReadsMore[n][plan] => m
      BY <1>0, <1>7, <2>1, <3>4, ReadsMoreIs
    <3>7. PICK w : w = <<"union", i, d.val>>
      OBVIOUS
    <3>8. r = Result(d.off, d.err, w)
      BY <2>4, <2>19, <3>1, <3>7
    <3>9. r.off = d.off /\ r.err = d.err
      BY <3>8, ResultIs
    <3>10. (e.err = "none" /\ l <= Len(s)) => r = Result(l, "none", v)
      <4> SUFFICES ASSUME e.err = "none", l <= Len(s) PROVE r = Result(l, "none", v)
        OBVIOUS
      <4>1. d = Result(l, "none", v[3])
        BY <2>14, <3>5 DEF ReadAs
      <4>2. d.off = l /\ d.err = "none" /\ d.val = v[3]
        BY <4>1, ResultIs
      <4>3. w = v
        BY <1>4, <1>5, <3>7, <4>2
      <4> QED BY <3>8, <4>2, <4>3
    <3>11. ReadAs(ReadsMore[n][plan], s, off, x, v, r)
      BY <2>10, <2>14, <2>15, <3>5, <3>6, <3>9, <3>10 DEF ReadAs
    <3> QED BY <1>1, <3>11
  <2> QED BY <1>0, <2>15, <2>20, <2>21
<1> QED BY <1>6, <1>7

LEMMA RecordReads ==
  ASSUME NEW s \in Seq(Byte), NEW t \in Seq(Byte), Begins(s, t), NEW source,
         NEW n \in 1 .. MaxNesting, NEW decoders, AllSound(n - 1, s, decoders),
         AllRead(n - 1, s, t, decoders),
         NEW plan \in Layouts, plan.kind \in {"record", "ref"},
         NEW v \in Level[n], v[1] = plan.tag,
         NEW off \in 0 .. Len(s), NEW x \in EncodeCompound(Encoders[n - 1], plan, v),
         Has(t, off, x.out)
  PROVE  ReadAs(ReadsMore[n][plan], s, off, x, v, DecodeCompound(decoders, plan, s, source, off))
<1>0. n \in 0 .. MaxNesting /\ n - 1 \in 0 .. MaxNesting /\ n # 0
  BY LayoutsAssumption
<1>1. PICK r : r = DecodeCompound(decoders, plan, s, source, off)
  OBVIOUS
<1>2. Sound(n, plan, s, off, r)
  BY <1>1, RecordSound
<1>3. plan.kind \notin SimpleKinds
  BY DEF SimpleKinds
<1>4. v = <<plan.tag, v[2]>> /\ v[2] \in Seq(Level[n - 1])
  BY <1>0, <1>3, CompoundValue
<1>5. PICK vs : vs = v[2]
  OBVIOUS
<1>6. PICK plans : plans = FieldPlans(plan)
  OBVIOUS
<1>7. plans \in Seq(Layouts)
  BY <1>6, FieldPlansAre
<1>8. CASE Len(vs) # Len(plans)
  <2>1. x = Refused
    BY <1>5, <1>6, <1>8 DEF EncodeCompound
  <2> QED BY <1>0, <1>1, <1>2, <2>1, RefusedReads
<1>9. CASE Len(vs) = Len(plans)
  <2>1. x \in EncodeAll(Encoders[n - 1], plans, vs)
    BY <1>5, <1>6, <1>9 DEF EncodeCompound
  <2>2. PICK d : d = DecodeAll(decoders, plans, off)
    OBVIOUS
  <2>3. PICK m : m = (plans # << >> /\ ReadsMore[n - 1][Last(plans)])
    OBVIOUS
  <2>4. ReadAs(m, s, off, x, vs, d)
    BY <1>0, <1>4, <1>5, <1>7, <1>9, <2>1, <2>2, <2>3, SequenceReads
  <2>5. ReadsMore[n][plan] => m
    BY <1>0, <1>6, <2>3, ReadsMoreIs
  <2>6. r = Typed(plan, d, d.val)
    BY <1>1, <1>6, <2>2 DEF DecodeCompound
  <2>7. r.off = d.off /\ r.err = d.err
    BY <2>6, TypedIs
  <2>8. PICK to : to = off + Len(x.out)
    OBVIOUS
  <2>9. (x.err = "none" /\ to <= Len(s)) => r = Result(to, "none", v)
    <3> SUFFICES ASSUME x.err = "none", to <= Len(s) PROVE r = Result(to, "none", v)
      OBVIOUS
    <3>1. d = Result(to, "none", vs)
      BY <2>4, <2>8 DEF ReadAs
    <3>2. d.off = to /\ d.err = "none" /\ d.val = vs
      BY <3>1, ResultIs
    <3> QED BY <1>4, <1>5, <2>6, <3>2 DEF Typed
  <2>10. ReadAs(ReadsMore[n][plan], s, off, x, v, r)
    BY <2>4, <2>5, <2>7, <2>8, <2>9 DEF ReadAs
  <2> QED BY <1>1, <2>10
<1> QED BY <1>8, <1>9

\* Of what a value of a few items was written as, as many are held.
LEMMA HeldReads ==
  ASSUME NEW more, NEW s \in Seq(Byte), NEW off \in 0 .. Len(s), NEW x, NEW vs, NEW d,
         NEW m, m, ReadAs(m, s, off, x, vs, d), NEW c, NEW w, NEW v,
         d.val = vs => w = v /\ c \in Nat /\ c < Half,
         NEW r, r = Held(d, c, w)
  PROVE  ReadAs(more, s, off, x, v, r)
<1>1. PICK to : to = off + Len(x.out)
  OBVIOUS
<1>2. /\ r.off = d.off
      /\ d.err # "none" => r.err = d.err
  BY HeldIs
<1>3. (x.err = "none" /\ to <= Len(s)) => r = Result(to, "none", v)
  <2> SUFFICES ASSUME x.err = "none", to <= Len(s) PROVE r = Result(to, "none", v)
    OBVIOUS
  <2>1. d = Result(to, "none", vs)
    BY <1>1 DEF ReadAs
  <2>2. d.off = to /\ d.err = "none" /\ d.val = vs
    BY <2>1, ResultIs
  <2>3. ~(c >= Half)
    BY <2>2, HalfIsPositive
  <2> QED BY <2>2, <2>3 DEF Held
<1>4. (x.err = "none" /\ to > Len(s)) => r.err \in EndOfInput
  <2> SUFFICES ASSUME x.err = "none", to > Len(s) PROVE r.err \in EndOfInput
    OBVIOUS
  <2>1. d.err \in EndOfInput
    BY <1>1 DEF ReadAs
  <2> QED BY <1>2, <2>1, EndErrorsAre
<1>5. (x.err # "none" /\ to = Len(s)) => r.err \in EndErrors /\ r.err # "none"
  <2> SUFFICES ASSUME x.err # "none", to = Len(s) PROVE r.err \in EndErrors /\ r.err # "none"
    OBVIOUS
  <2>1. d.err \in {"none"} \cup EndErrors /\ d.err # "none"
    BY <1>1 DEF ReadAs
  <2> QED BY <1>2, <2>1
<1> QED BY <1>1, <1>3, <1>4, <1>5 DEF ReadAs

LEMMA ArrayReads ==
  ASSUME NEW s \in Seq(Byte), NEW t \in Seq(Byte), Begins(s, t), NEW source,
         NEW n \in 1 .. MaxNesting, NEW decoders, AllSound(n - 1, s, decoders),
         AllRead(n - 1, s, t, decoders),
         NEW plan \in Layouts, plan.kind = "array", NEW v \in Level[n], v[1] = plan.tag,
         NEW off \in 0 .. Len(s), NEW x \in EncodeCompound(Encoders[n - 1], plan, v),
         Has(t, off, x.out), NEW more
  PROVE  ReadAs(more, s, off, x, v, DecodeCompound(decoders, plan, s, source, off))
<1>0. n \in 0 .. MaxNesting /\ n - 1 \in 0 .. MaxNesting /\ n # 0
  BY LayoutsAssumption
<1>1. PICK r : r = DecodeCompound(decoders, plan, s, source, off)
  OBVIOUS
<1>2. plan.kind \notin SimpleKinds /\ plan.tag = "array"
  BY LayoutsAssumption, TagsAre DEF SimpleKinds
<1>3. v = <<"array", v[2]>> /\ v[2] \in Seq(Level[n - 1]) /\ Len(v[2]) < Half
  <2>1. plan.kind \in {"record", "ref", "array"}
    OBVIOUS
  <2>2. v = <<plan.tag, v[2]>> /\ v[2] \in Seq(Level[n - 1]) /\ Len(v[2]) < Half
    BY <1>0, <1>2, <2>1, CompoundValue
  <2>3. plan.tag = "array"
    BY <1>2
  <2> QED BY <2>2, <2>3
<1>4. PICK vs : vs = v[2]
  OBVIOUS
<1>5. PICK c : c = Len(vs)
  OBVIOUS
<1>6. vs \in Seq(Level[n - 1]) /\ c \in Nat /\ c < Half
  BY <1>3, <1>4, <1>5
<1>7. PICK plans : plans = BlockPlans(plan, c)
  OBVIOUS
<1>8. Len(plans) = Len(vs)
  BY <1>5, <1>6, <1>7, BlockPlansAre
<1>9. x \in EncodeBlock(Encoders[n - 1], plans, vs, c)
  BY <1>4, <1>5, <1>7 DEF EncodeCompound
<1>10. PICK d : d = DecodeBlocks(decoders, plan, s, source, off)
  OBVIOUS
<1>11. PICK m : m = (1 = 1)
  OBVIOUS
<1>12. ReadAs(m, s, off, x, vs, d)
  BY <1>0, <1>6, <1>7, <1>8, <1>9, <1>10, BlocksRead
<1>13. PICK w : w = <<"array", d.val>>
  OBVIOUS
<1>14. PICK e : e = Len(d.val)
  OBVIOUS
<1>15. r = Held(d, e, w)
  BY <1>1, <1>10, <1>13, <1>14 DEF DecodeCompound
<1>16. d.val = vs => w = v /\ e \in Nat /\ e < Half
  BY <1>3, <1>4, <1>5, <1>6, <1>13, <1>14
<1>17. ReadAs(more, s, off, x, v, r)
  BY <1>11, <1>12, <1>15, <1>16, HeldReads
<1> QED BY <1>1, <1>17

\* Every order of walking a map gives back the map.
LEMMA AsMapOfFlat ==
  ASSUME NEW m \in 0 .. MaxNesting, NEW map \in Maps(ShortStrings, Level[m]), NEW walk \in Walks(map)
  PROVE  AsMap(Flat(walk)) = map
<1> DEFINE c == Cardinality(map)
<1>1. IsFiniteSet(map) /\ c \in Nat
      /\ (\A e \in map : e = <<e[1], e[2]>>)
      /\ \A e, f \in map : e[1] = f[1] => e = f
  BY MapsAre
<1> DEFINE flat == Flat(walk)
<1>3. /\ walk \in [1 .. c -> map] /\ Len(flat) = 2 * c
      /\ \A i \in 1 .. c : /\ flat[2 * i - 1] = <<"string", walk[i][1]>>
                           /\ flat[2 * i] = walk[i][2]
  BY FlatIs
<1>2. flat = Flat(walk)
  OBVIOUS
<1> HIDE DEF flat
<1>4. \A i, j \in 1 .. c : i # j => walk[i] # walk[j]
  BY <1>3 DEF Walks
<1> HIDE DEF c
<1>5. \A e \in map : \E i \in 1 .. c : walk[i] = e
  <2>1. walk \in Injection(1 .. c, map)
    BY <1>3, <1>4 DEF Injection, IsInjective
  <2>2. Cardinality(1 .. c) = c
    <3>0. 1 \in Int /\ c \in Int
      BY <1>1
    <3>1. Cardinality(1 .. c) = IF 1 > c THEN 0 ELSE c - 1 + 1
      BY <3>0, FS_Interval, Zenon
    <3>2. CASE c = 0
      BY <3>1, <3>2
    <3>3. CASE c # 0
      <4>1. ~(1 > c) /\ c - 1 + 1 = c
        BY <1>1, <3>3
      <4> QED BY <3>1, <4>1
    <3> QED BY <3>2, <3>3
  <2>3. walk \in Surjection(1 .. c, map)
    BY <1>1, <2>1, <2>2, FS_Injection DEF c
  <2> QED BY <2>3 DEF Surjection
<1>6. Len(flat) \div 2 = c
  BY <1>1, <1>3
<1> DEFINE key(i) == flat[2 * i - 1][2]
           last == {j \in 1 .. c : \A k \in j + 1 .. c : key(k) # key(j)}
           entry(i) == <<key(i), flat[2 * i]>>
<1>7. AsMap(flat) = {entry(i) : i \in last}
  BY <1>6 DEF AsMap
<1>8. \A i \in 1 .. c : key(i) = walk[i][1]
  BY <1>3
<1>9. \A i \in 1 .. c : entry(i) = walk[i]
  <2> SUFFICES ASSUME NEW i \in 1 .. c PROVE entry(i) = walk[i]
    OBVIOUS
  <2>1. walk[i] \in map
    BY <1>3
  <2>2. walk[i] = <<walk[i][1], walk[i][2]>>
    BY <1>1, <2>1
  <2>3. flat[2 * i] = walk[i][2]
    BY <1>3
  <2> HIDE DEF key
  <2> QED BY <1>8, <2>2, <2>3
<1> HIDE DEF key
<1>10. last = 1 .. c
  <2>1. ASSUME NEW j \in 1 .. c, NEW k \in j + 1 .. c
        PROVE  key(k) # key(j)
    <3>1. k \in 1 .. c /\ k # j
      BY <1>1
    <3>2. walk[k] \in map /\ walk[j] \in map /\ walk[k] # walk[j]
      BY <1>3, <1>4, <3>1
    <3>3. walk[k][1] # walk[j][1]
      BY <1>1, <3>2
    <3> QED BY <1>8, <3>1, <3>3
  <2> QED BY <2>1
<1> HIDE DEF last, entry
<1>11. ASSUME NEW e \in AsMap(flat) PROVE e \in map
  <2>1. PICK i \in last : e = entry(i)
    BY <1>7
  <2> QED BY <1>3, <1>9, <1>10, <2>1
<1>12. ASSUME NEW e \in map PROVE e \in AsMap(flat)
  <2>1. PICK i \in 1 .. c : walk[i] = e
    BY <1>5
  <2>2. i \in last /\ entry(i) = e
    BY <1>9, <1>10, <2>1
  <2> QED BY <1>7, <2>2
<1>13. AsMap(flat) = map
  BY <1>11, <1>12
<1> QED BY <1>2, <1>13

LEMMA MapReads ==
  ASSUME NEW s \in Seq(Byte), NEW t \in Seq(Byte), Begins(s, t), NEW source,
         NEW n \in 1 .. MaxNesting, NEW decoders, AllSound(n - 1, s, decoders),
         AllRead(n - 1, s, t, decoders),
         NEW plan \in Layouts, plan.kind = "map", NEW v \in Level[n], v[1] = plan.tag,
         NEW off \in 0 .. Len(s), NEW x \in EncodeCompound(Encoders[n - 1], plan, v),
         Has(t, off, x.out), NEW more
  PROVE  ReadAs(more, s, off, x, v, DecodeCompound(decoders, plan, s, source, off))
<1>0. n \in 0 .. MaxNesting /\ n - 1 \in 0 .. MaxNesting /\ n # 0
  BY LayoutsAssumption
<1>1. PICK r : r = DecodeCompound(decoders, plan, s, source, off)
  OBVIOUS
<1>2. plan.kind \notin SimpleKinds /\ plan.tag = "map"
  BY LayoutsAssumption, TagsAre DEF SimpleKinds
<1>3. v = <<"map", v[2]>> /\ v[2] \in Maps(ShortStrings, Level[n - 1])
  BY <1>0, <1>2, CompoundValue
<1>4. PICK map : map = v[2]
  OBVIOUS
<1>5. PICK c : c = Cardinality(map)
  OBVIOUS
<1>6. map \in Maps(ShortStrings, Level[n - 1]) /\ c \in Nat /\ c < Half
  BY <1>3, <1>4, <1>5, MapsAre
<1>7. PICK plans : plans = BlockPlans(plan, c)
  OBVIOUS
<1>8. PICK walk \in Walks(map) : x \in EncodeBlock(Encoders[n - 1], plans, Flat(walk), c)
  <2>1. EncodeCompound(Encoders[n - 1], plan, v)
          = UNION {EncodeBlock(Encoders[n - 1], plans, Flat(walk), c) : walk \in Walks(map)}
    BY <1>4, <1>5, <1>7 DEF EncodeCompound
  <2> QED BY <2>1
<1>9. PICK vs : vs = Flat(walk)
  OBVIOUS
<1>10. vs \in Seq(Level[n - 1]) /\ Len(vs) = 2 * c
  BY <1>0, <1>5, <1>6, <1>9, FlatIs
<1>11. Len(plans) = Len(vs)
  BY <1>6, <1>7, <1>10, BlockPlansAre
<1>12. PICK d : d = DecodeBlocks(decoders, plan, s, source, off)
  OBVIOUS
<1>13. PICK m : m = (1 = 1)
  OBVIOUS
<1>14. ReadAs(m, s, off, x, vs, d)
  BY <1>0, <1>6, <1>7, <1>8, <1>9, <1>10, <1>11, <1>12, BlocksRead
<1>15. PICK kept : kept = AsMap(d.val)
  OBVIOUS
<1>16. PICK w : w = <<"map", kept>>
  OBVIOUS
<1>17. PICK e : e = Cardinality(kept)
  OBVIOUS
<1>18. r = Held(d, e, w)
  BY <1>1, <1>12, <1>15, <1>16, <1>17 DEF DecodeCompound
<1>19. d.val = vs => w = v /\ e \in Nat /\ e < Half
  <2>1. d.val = vs => kept = map
    BY <1>0, <1>6, <1>9, <1>15, AsMapOfFlat
  <2> QED BY <1>3, <1>4, <1>5, <1>6, <1>16, <1>17, <2>1
<1>20. ReadAs(more, s, off, x, v, r)
  BY <1>13, <1>14, <1>18, <1>19, HeldReads
<1> QED BY <1>1, <1>20

-----------------------------------------------------------------------------
\* At every level.
LEMMA DecodersRead ==
  ASSUME NEW s \in Seq(Byte), NEW t \in Seq(Byte), Begins(s, t), NEW source
  PROVE  \A n \in 0 .. MaxNesting : AllRead(n, s, t, Decoders(s, source)[n])
<1>0. MaxNesting \in Nat
  BY LayoutsAssumption
<1> DEFINE S == {n \in 0 .. MaxNesting : AllRead(n, s, t, Decoders(s, source)[n])}
<1>1. ASSUME NEW n \in 0 .. MaxNesting, n = 0 \/ n - 1 \in S
      PROVE  n \in S
  <2>1. PICK decoders : decoders = Decoders(s, source)[n]
    OBVIOUS
  <2>2. ASSUME NEW plan \in Layouts, NEW v \in Level[n], NEW off \in 0 .. Len(s),
               NEW x \in Encoders[n][plan][v], Has(t, off, x.out)
        PROVE  ReadAs(ReadsMore[n][plan], s, off, x, v, decoders[plan][off])
    <3>1. PICK r : r = decoders[plan][off]
      OBVIOUS
    <3>2. Sound(n, plan, s, off, r)
      BY <2>1, <3>1, DecodersSound DEF AllSound
    <3>3. CASE v[1] # plan.tag
      <4>1. x = Refused
        BY <3>3, EncoderIs
      <4> QED BY <3>1, <3>2, <4>1, RefusedReads
    <3>4. CASE v[1] = plan.tag /\ plan.kind \in SimpleKinds
      <4>1. x = EncodeSimple(plan, v)
        BY <3>4, EncoderIs
      <4>2. r = DecodeSimple(plan, s, source, off)
        BY <2>1, <3>1, <3>4, DecoderIs
      <4>3. ReadAs(ReadsMore[n][plan], s, off, x, v, r)
        BY <2>2, <3>4, <4>1, <4>2, SimpleReads
      <4> QED BY <3>1, <4>3
    <3>5. CASE v[1] = plan.tag /\ plan.kind \notin SimpleKinds
      <4>1. n \in 1 .. MaxNesting /\ x \in EncodeCompound(Encoders[n - 1], plan, v)
        BY <3>5, EncoderIs
      <4>2. n # 0 /\ n - 1 \in 0 .. MaxNesting
        BY <1>0, <4>1
      <4>3. PICK below : below = Decoders(s, source)[n - 1]
        OBVIOUS
      <4>4. r = DecodeCompound(below, plan, s, source, off)
        BY <2>1, <3>1, <3>5, <4>2, <4>3, DecoderIs
      <4>5. AllSound(n - 1, s, below)
        BY <4>2, <4>3, DecodersSound
      <4>6. AllRead(n - 1, s, t, below)
        BY <1>1, <4>2, <4>3
      <4>7. CASE plan.kind = "union"
        BY <2>2, <3>1, <3>5, <4>1, <4>4, <4>5, <4>6, <4>7, UnionReads
      <4>8. CASE plan.kind \in {"record", "ref"}
        BY <2>2, <3>1, <3>5, <4>1, <4>4, <4>5, <4>6, <4>8, RecordReads
      <4>9. CASE plan.kind = "array"
        BY <2>2, <3>1, <3>5, <4>1, <4>4, <4>5, <4>6, <4>9, ArrayReads
      <4>10. CASE plan.kind = "map"
        BY <2>2, <3>1, <3>5, <4>1, <4>4, <4>5, <4>6, <4>10, MapReads
      <4>11. plan.kind \in SimpleKinds \cup {"union", "record", "ref", "array", "map"}
        BY LayoutsAssumption
      <4> QED BY <3>5, <4>7, <4>8, <4>9, <4>10, <4>11
    <3> QED BY <3>3, <3>4, <3>5
  <2>3. AllRead(n, s, t, decoders)
    BY <2>2 DEF AllRead
  <2> QED BY <2>1, <2>3
<1>2. 0 \in S
  BY <1>0, <1>1
<1>3. \A n \in 1 .. MaxNesting : n - 1 \in S => n \in S
  <2> TAKE n \in 1 .. MaxNesting
  <2>1. n \in 0 .. MaxNesting
    BY <1>0
  <2> HIDE DEF S
  <2> QED BY <1>1, <2>1
<1> HIDE DEF S
<1>4. \A n \in 0 .. MaxNesting : n \in S
  BY <1>0, <1>2, <1>3, UpTo
<1> QED BY <1>4 DEF S

-----------------------------------------------------------------------------
(***************************************************************************)
(* The properties.                                                         *)
(***************************************************************************)
LEMMA HasFirst ==
  ASSUME NEW b \in Seq(Byte), NEW c \in Seq(Byte)
  PROVE  Has(b \o c, 0, b) /\ Has(b, 0, b) /\ 0 + Len(b) = Len(b)
<1>1. Len(b) \in Nat /\ Len(c) \in Nat /\ \A i \in 1 .. Len(b) : 0 + i = i
  OBVIOUS
<1>2. Has(b, 0, b)
  BY <1>1 DEF Has
<1>3. Has(b \o c, 0, b)
  BY <1>2, HasLater
<1> QED BY <1>1, <1>2, <1>3

\* What a decoder makes of the beginning s of t, which begins with an encoding.
LEMMA DecodeReads ==
  ASSUME NEW s \in Seq(Byte), NEW t \in Seq(Byte), Begins(s, t), NEW source,
         NEW plan \in Layouts, NEW v \in Level[MaxNesting], NEW x \in Encoder(plan, v),
         Has(t, 0, x.out)
  PROVE  /\ x \in Encodings
         /\ ReadAs(ReadsMore[MaxNesting][plan], s, 0, x, v, Decode(plan, s, source, 0))
<1>1. MaxNesting \in 0 .. MaxNesting /\ 0 \in 0 .. Len(s)
  BY LayoutsAssumption
<1>2. x \in Encoders[MaxNesting][plan][v]
  BY DEF Encoder
<1>3. x \in Encodings
  BY <1>1, <1>2, EncodersEncode DEF Encodes
<1>4. PICK n : n = MaxNesting
  OBVIOUS
<1>5. AllRead(n, s, t, Decoders(s, source)[n])
  BY <1>1, <1>4, DecodersRead
<1>6. ReadAs(ReadsMore[n][plan], s, 0, x, v, Decoders(s, source)[n][plan][0])
  BY <1>1, <1>2, <1>4, <1>5 DEF AllRead
<1> QED BY <1>3, <1>4, <1>6 DEF Decode

\* Of the whole encoding, whatever follows it.
LEMMA ReadBack ==
  ASSUME NEW plan \in Layouts, NEW v \in Level[MaxNesting], NEW x \in Encoder(plan, v),
         x.err = "none", NEW rest \in Seq(Byte), NEW source
  PROVE  Decode(plan, x.out \o rest, source, 0) = Result(Len(x.out), "none", v)
<1>1. MaxNesting \in 0 .. MaxNesting
  BY LayoutsAssumption
<1>2. x \in Encodings
  BY <1>1, EncodersEncode DEF Encodes, Encoder
<1>3. PICK b : b = x.out
  OBVIOUS
<1>4. b \in Seq(Byte)
  BY <1>2, <1>3 DEF Encodings
<1>5. PICK s : s = b \o rest
  OBVIOUS
<1>6. s \in Seq(Byte) /\ Begins(s, s) /\ Has(s, 0, b) /\ 0 + Len(b) = Len(b)
  BY <1>4, <1>5, JoinedIsBytes, BeginsAll, HasFirst
<1>7. PICK m : ReadAs(m, s, 0, x, v, Decode(plan, s, source, 0))
  BY <1>3, <1>6, DecodeReads
<1>8. Len(b) <= Len(s)
  <2>1. Len(s) = Len(b) + Len(rest) /\ Len(b) \in Nat /\ Len(rest) \in Nat
    BY <1>4, <1>5, Joined
  <2> QED BY <2>1
<1>9. Decode(plan, s, source, 0) = Result(Len(b), "none", v)
  BY <1>3, <1>6, <1>7, <1>8 DEF ReadAs
<1> QED BY <1>3, <1>5, <1>9

\* Of less than the whole, or of what was written before a part was refused.
LEMMA TornIsReported ==
  ASSUME NEW plan \in Layouts, NEW v \in Level[MaxNesting], NEW x \in Encoder(plan, v),
         NEW source
  PROVE  IF x.err = "none"
         THEN \A torn \in CutShort(x) : Decode(plan, torn, source, 0).err \in EndOfInput
         ELSE ReadsMore[MaxNesting][plan] =>
                Decode(plan, x.out, source, 0).err \in EndOfInput \cup {"stackOverflow"}
<1>1. MaxNesting \in 0 .. MaxNesting
  BY LayoutsAssumption
<1>2. x \in Encodings
  BY <1>1, EncodersEncode DEF Encodes, Encoder
<1>3. PICK b : b = x.out
  OBVIOUS
<1>4. b \in Seq(Byte) /\ Len(b) \in Nat
  <2>1. b \in Seq(Byte)
    BY <1>2, <1>3 DEF Encodings
  <2> QED BY <2>1
<1>5. Has(b, 0, b) /\ 0 + Len(b) = Len(b) /\ Begins(b, b)
  BY <1>4, BeginsAll, HasFirst
<1>6. CASE x.err = "none"
  <2>1. ASSUME NEW torn \in CutShort(x)
        PROVE  Decode(plan, torn, source, 0).err \in EndOfInput
    <3>1. PICK k \in 0 .. Len(b) - 1 : torn = SubSeq(b, 1, k)
      BY <1>3 DEF CutShort
    <3>2. k \in 0 .. Len(b)
      BY <1>4
    <3>3. torn \in Seq(Byte) /\ Len(torn) = k /\ \A i \in 1 .. k : torn[i] = b[i]
      BY <1>4, <3>1, <3>2, Prefix
    <3>4. Begins(torn, b) /\ Len(b) > Len(torn)
      BY <1>4, <3>1, <3>2, <3>3 DEF Begins
    <3>5. PICK m : ReadAs(m, torn, 0, x, v, Decode(plan, torn, source, 0))
      BY <1>3, <1>4, <1>5, <3>3, <3>4, DecodeReads
    <3> QED BY <1>3, <1>5, <1>6, <3>4, <3>5 DEF ReadAs
  <2> QED BY <1>6, <2>1
<1>7. CASE x.err # "none"
  <2>1. PICK m : m = ReadsMore[MaxNesting][plan]
    OBVIOUS
  <2>2. ReadAs(m, b, 0, x, v, Decode(plan, b, source, 0))
    BY <1>3, <1>4, <1>5, <2>1, DecodeReads
  <2>3. m => Decode(plan, b, source, 0).err \in EndErrors
    BY <1>3, <1>5, <1>7, <2>2 DEF ReadAs
  <2> QED BY <1>3, <1>7, <2>1, <2>3 DEF EndErrors
<1> QED BY <1>6, <1>7

LEMMA SomeValues ==
  ASSUME NEW plan \in Plans
  PROVE  plan \in Layouts /\ ReadableOf(plan) \subseteq Level[MaxNesting]
BY PlansAssumption DEF ReadableOf

\* What the bytes of a stream need for each property.
LEMMA BytesReadBack == StreamTypeOK => ValuesReadBack
<1> SUFFICES ASSUME StreamTypeOK, NEW plan \in Plans, NEW v \in ReadableOf(plan),
                    NEW x \in Encoder(plan, v), x.err = "none"
             PROVE  Decode(plan, x.out \o wire, end, 0) = Result(Len(x.out), "none", v)
  BY DEF ValuesReadBack
<1>1. wire \in Seq(Byte)
  BY DEF StreamTypeOK
<1> QED BY <1>1, SomeValues, ReadBack

LEMMA BytesAreReported == StreamTypeOK => TornValuesAreReported
<1> SUFFICES ASSUME StreamTypeOK, NEW plan \in Plans, NEW v \in ReadableOf(plan),
                    NEW x \in Encoder(plan, v)
             PROVE  IF x.err = "none"
                    THEN \A torn \in CutShort(x) : Decode(plan, torn, end, 0).err \in EndOfInput
                    ELSE ReadsMore[MaxNesting][plan] =>
                           Decode(plan, x.out, end, 0).err \in EndOfInput \cup {"stackOverflow"}
  BY DEF TornValuesAreReported
<1> QED BY SomeValues, TornIsReported

LEMMA BytesAreValid == StreamTypeOK => DecodedValuesAreValid
<1> SUFFICES ASSUME StreamTypeOK, NEW plan \in Plans, NEW d, d = Decode(plan, wire, end, 0),
                    d.err = "none"
             PROVE  /\ d.val \in Level[MaxNesting]
                    /\ \A x \in Encoder(plan, d.val) :
                         /\ x.err = "none"
                         /\ Decode(plan, x.out, end, 0) = Result(Len(x.out), "none", d.val)
  BY DEF DecodedValuesAreValid
<1>1. wire \in Seq(Byte) /\ plan \in Layouts /\ 0 \in 0 .. Len(wire)
  BY SomeValues DEF StreamTypeOK
<1>2. PICK n : n = MaxNesting
  OBVIOUS
<1>3. n \in 0 .. MaxNesting
  BY <1>2, LayoutsAssumption
<1>4. d = Decoders(wire, end)[n][plan][0]
  BY <1>2 DEF Decode
<1>5. Accepted(n, plan, d.val)
  <2>1. AllSound(n, wire, Decoders(wire, end)[n])
    BY <1>1, <1>3, DecodersSound
  <2>2. Sound(n, plan, wire, 0, d)
    BY <1>1, <1>4, <2>1 DEF AllSound
  <2> QED BY <2>2 DEF Sound
<1>6. d.val \in Level[MaxNesting] /\ \A x \in Encoder(plan, d.val) : x.err = "none"
  BY <1>2, <1>5 DEF Accepted, Encoder
<1>7. ASSUME NEW x \in Encoder(plan, d.val)
      PROVE  Decode(plan, x.out, end, 0) = Result(Len(x.out), "none", d.val)
  <2>1. Decode(plan, x.out \o << >>, end, 0) = Result(Len(x.out), "none", d.val)
    <3>1. PICK rest : rest = << >>
      OBVIOUS
    <3>2. rest \in Seq(Byte)
      BY <3>1
    <3>3. PICK v : v = d.val
      OBVIOUS
    <3>4. v \in Level[MaxNesting] /\ x \in Encoder(plan, v) /\ x.err = "none"
      BY <1>6, <3>3
    <3>5. Decode(plan, x.out \o rest, end, 0) = Result(Len(x.out), "none", v)
      BY <1>1, <3>2, <3>4, ReadBack
    <3> QED BY <3>1, <3>3, <3>5
  <2>2. x.out \in Seq(Byte)
    <3>1. x \in Encodings
      BY <1>1, <1>2, <1>3, <1>6, EncodersEncode DEF Encodes, Encoder
    <3> QED BY <3>1 DEF Encodings
  <2>3. x.out \o << >> = x.out
    BY <2>2, BeginsAll
  <2> QED BY <2>1, <2>3
<1> QED BY <1>6, <1>7

\* No step changes the bytes: the readers only move in them.
LEMMA WireStays == StreamTypeOK /\ [Next]_vars => StreamTypeOK'
<1> SUFFICES ASSUME StreamTypeOK, [Next]_vars PROVE StreamTypeOK'
  OBVIOUS
<1>1. UNCHANGED streamVars
  BY DEF Next, Drain, ReadAgain, ReaderNext, ReadItem, SkipBlock, vars
<1> QED BY <1>1 DEF StreamTypeOK, streamVars

LEMMA InitWire == Init => StreamTypeOK
BY BytesAssumption, BoundedSeqType DEF Init, StreamTypeOK

(***************************************************************************)
(* What generic.Encoder writes without error generic.Decoder reads back as *)
(* the same value, whatever bytes follow and in whatever order the Encoder *)
(* walked a map, and it stops behind the last byte of it: for all plans    *)
(* and depths (generic/codec.go, the encodeFn and decodeFn of each), and   *)
(* all values but those with a string of 2^31 bytes or more, which an      *)
(* Encoder of 64 bits writes and BinaryReader refuses (avro.go:307).       *)
(***************************************************************************)
THEOREM EncodedIsReadBack == Spec => []ValuesReadBack
BY InitWire, WireStays, BytesReadBack, PTL DEF Spec

(***************************************************************************)
(* Bytes of an Encode that did not return nil are never taken for a value: *)
(* a sink that broke leaves a beginning, of which the Decoder reports the  *)
(* end of input; a part that was refused leaves what was written before    *)
(* it, which the Decoder reports too if the plan had to read more.  So it  *)
(* is for all plans, and for all values without so long a string.          *)
(***************************************************************************)
THEOREM TornIsNeverAValue == Spec => []TornValuesAreReported
BY InitWire, WireStays, BytesAreReported, PTL DEF Spec

(***************************************************************************)
(* Whatever bytes generic.Decoder accepts, it made a value of the schema   *)
(* of them, one that every walk of generic.Encoder accepts and that is     *)
(* read back as itself: no block layout, repeated key or overlong varint   *)
(* leads to a value outside of what the Encoder knows.                     *)
(***************************************************************************)
THEOREM DecodedIsEncodable == Spec => []DecodedValuesAreValid
BY InitWire, WireStays, BytesAreValid, PTL DEF Spec
==============================================================================

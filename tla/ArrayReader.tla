----------------------------- MODULE ArrayReader ----------------------------
(***************************************************************************)
(* avro.ArrayReader: an array read back item by item, or block by block    *)
(* when the caller skips.                                                  *)
(*                                                                         *)
(* The reader is the record rd, one field per field of the struct (off is  *)
(* the offset of the BinaryReader a.r).  A call is an operator from a      *)
(* reader to what the call leaves and returns, so that runs can also ask   *)
(* what an uninterrupted sequence of calls would have done.                *)
(***************************************************************************)
EXTENDS ByteStream

VARIABLES
  rd,          \* the ArrayReader
  passed,      \* history: how many items were decoded or skipped
  yielded      \* history: the decoded items, each as <<position, item>>

readerVars == <<rd, passed, yielded>>

ReaderErrors == EndOfInput \cup {"none", "overflow", "negativeLength", "blockSizeMismatch"}

Readers ==
  [off : Nat, remaining : Nat, blockEnd : Long, sized : BOOLEAN, done : BOOLEAN,
   err : ReaderErrors]

ReaderTypeOK ==
  /\ rd \in Readers
  /\ passed \in Nat
  /\ yielded \in Seq(Nat \X Seq(Byte))

\* NewArrayReader on a BinaryReader that stands at offset off.
NewReader(off) ==
  [off |-> off, remaining |-> 0, blockEnd |-> 0, sized |-> FALSE, done |-> FALSE,
   err |-> "none"]

\* Mutant: the error is returned but not kept.
FailOnce(r, off, e) == [r EXCEPT !.off = off]

\* The reader after a step of its own that consumed up to off and failed.
Fail(r, off, e) == [r EXCEPT !.off = off, !.err = e]

(***************************************************************************)
(* Which error a failed read of the framing is turned into.  A clean EOF   *)
(* at the start of a block is an array that was never terminated; anywhere *)
(* else the stream was cut in the middle of a value.                       *)
(***************************************************************************)
UnexpectedEOF(e) == IF e = "eof" THEN "unexpectedEOF" ELSE e

\* Mutant: an end of input inside a count is taken for one before it.
CountErrorAnywhere(start, c) == IF c.err = "eof" THEN "truncatedArray" ELSE c.err

CountError(start, c) ==
  IF c.off = start /\ c.err = "eof" THEN "truncatedArray" ELSE UnexpectedEOF(c.err)

\* The declared end of a sized block; int64 addition wraps around.
BlockEnd(size) == Wrap(size.off + size.val)

\* The one count whose negation is no int64: math.MinInt64.
NoMagnitude(count) == count = -Half

\* The header of a sized block, whose negative count ended at offset off.
SizedHeader(r, off, count) ==
  LET size == ReadLong(wire, end, off)
      sized == [r EXCEPT !.sized = TRUE]
      placed == [sized EXCEPT !.blockEnd = BlockEnd(size)]
  IN  IF NoMagnitude(count) THEN Fail(sized, off, "overflow")
      ELSE IF size.err # "none" THEN Fail(sized, size.off, UnexpectedEOF(size.err))
      ELSE IF size.val < 0 THEN Fail(sized, size.off, "negativeLength")
      ELSE IF BlockEnd(size) < 0 THEN Fail(placed, size.off, "overflow")
      ELSE [placed EXCEPT !.off = size.off, !.remaining = Wrap(-count)]

(***************************************************************************)
(* nextBlock.  It found another block when the reader it leaves has items  *)
(* remaining; otherwise the array is done, or the reader has failed.       *)
(***************************************************************************)
NextBlock(r) ==
  LET c == ReadLong(wire, end, r.off)
  IN  IF c.err # "none" THEN Fail(r, c.off, CountError(r.off, c))
      ELSE IF c.val = 0 THEN [r EXCEPT !.off = c.off, !.done = TRUE]
      ELSE IF c.val < 0 THEN SizedHeader(r, c.off, c.val)
      ELSE [r EXCEPT !.off = c.off, !.sized = FALSE, !.remaining = c.val]

\* A reader with items to decode, unless the array is done or the stream bad.
Positioned(r) == IF r.remaining = 0 THEN NextBlock(r) ELSE r

\* Mutant: the end of the array is not told from a block.
InBlockOrDone(r) == r.err = "none"

InBlock(r) == r.err = "none" /\ ~r.done

\* A call that leaves reader r and gives no item.
NoItem(r) == [rd |-> r, ok |-> FALSE, val |-> << >>, skipped |-> 0]

\* Mutant: sizes are only used to skip.
SizeUnchecked(r) == FALSE

\* The check Next makes when it decoded the last item of a block.
SizeWrong(r) == r.remaining = 0 /\ r.sized /\ r.off # r.blockEnd

\* Next, for a reader that has not failed and is not done.
DecodeNext(r) ==
  LET p == Positioned(r)
      item == Unmarshal(p.off)
      after == [p EXCEPT !.off = item.off, !.remaining = @ - 1]
  IN  IF ~InBlock(p) THEN NoItem(p)
      ELSE IF item.err # "none" THEN NoItem(Fail(p, item.off, item.err))
      ELSE IF SizeWrong(after) THEN NoItem(Fail(after, after.off, "blockSizeMismatch"))
      ELSE [rd |-> after, ok |-> TRUE, val |-> item.val, skipped |-> 0]

\* The bytes of a sized block the reader has not consumed yet.
Unread(p) == p.blockEnd - p.off

\* Mutant: the items of the block are still awaited.
SkippedTo(p, off) == [p EXCEPT !.off = off]

\* The reader once the rest of its block is discarded.
Skipped(p, off) == [p EXCEPT !.off = off, !.remaining = 0]

\* SkipBlock, for a reader that has not failed and is not done.
DiscardBlock(r) ==
  LET p == Positioned(r)
      n == Unread(p)
      rest == Discard(wire, end, p.off, n)
  IN  IF ~InBlock(p) \/ ~p.sized THEN NoItem(p)
      ELSE IF n < 0 THEN NoItem(Fail(p, p.off, "blockSizeMismatch"))
      ELSE IF rest.err # "none" THEN NoItem(Fail(p, rest.off, rest.err))
      ELSE [NoItem(Skipped(p, rest.off)) EXCEPT !.skipped = p.remaining]

\* The two checks Next and SkipBlock begin with.
Answered(r) == r.err # "none" \/ r.done

\* A call that ran out of bytes waits while more may come.
Waiting(res) == end = "open" /\ res.rd.err \in EndOfInput

ReaderInit(off) == rd = NewReader(off) /\ passed = 0 /\ yielded = << >>

\* ArrayReader.Next, a call that finds the reader neither failed nor done.
ReadItem ==
  /\ ~Answered(rd)
  /\ \E res \in {DecodeNext(rd)} :
       /\ ~Waiting(res)
       /\ rd' = res.rd
       /\ passed' = IF res.ok THEN passed + 1 ELSE passed
       /\ yielded' = IF res.ok THEN Append(yielded, <<passed + 1, res.val>>) ELSE yielded

\* ArrayReader.SkipBlock, likewise.
SkipBlock ==
  /\ ~Answered(rd)
  /\ \E res \in {DiscardBlock(rd)} :
       /\ ~Waiting(res)
       /\ rd' = res.rd
       /\ passed' = passed + res.skipped
  /\ UNCHANGED yielded

ReaderNext == ReadItem \/ SkipBlock

-----------------------------------------------------------------------------
(***************************************************************************)
(* Decoding and skipping agree with the declared size of every block they  *)
(* finish: between the blocks of an array, a reader whose last block was   *)
(* sized stands exactly where that block's header said it would end.       *)
(***************************************************************************)
BlockAligned ==
  (InBlock(rd) /\ rd.sized /\ rd.remaining = 0) => rd.off = rd.blockEnd
=============================================================================

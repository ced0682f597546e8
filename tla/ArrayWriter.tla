----------------------------- MODULE ArrayWriter ----------------------------
(***************************************************************************)
(* avro.ArrayWriter and avro.WriteArray: an array of any length written    *)
(* item by item, as unsized blocks of one item written straight through,   *)
(* or as sized blocks collected in a bounded buffer.                       *)
(*                                                                         *)
(* A variable of the same name stands for each field of the struct; woff   *)
(* is the offset of the BinaryWriter a.w, whose sink is wire.  accepted    *)
(* and offered are history: the items Write took without an error, and     *)
(* those it began to encode, one more at most.  So is refused: whether     *)
(* Write ever turned an item away because the writer was closed.           *)
(***************************************************************************)
EXTENDS ByteStream

CONSTANTS
  Limit,       \* buffer size of WithSizedBlocks, a.limit
  Preamble,    \* the fields written to the same BinaryWriter before the array
  MaxWrites    \* bound: how many items are offered

ASSUME WriterAssumption ==
  /\ Limit \in Nat \ {0}
  /\ Preamble \in Seq(Byte)
  /\ MaxWrites \in Nat

\* What a long has to count is far below 2^63: items, and bytes in memory.
ASSUME RangeAssumption ==
  /\ MaxWrites < Half
  /\ Limit < Half
  /\ \A v \in Items : Limit + MaxLen + Len(v) < Half

VARIABLES
  sized,       \* whether WithSizedBlocks was given: a.buf is not nil
  woff,        \* a.w.offset
  buf,         \* a.buf, the pending block
  count,       \* a.count
  closed,      \* a.closed
  werr,        \* a.err
  caller,      \* "direct" calls, "inF" of WriteArray, or what WriteArray gave
  accepted,    \* items for which Write returned nil
  offered,     \* items Write began to encode
  refused,     \* whether Write returned ErrArrayWriterClosed
  sealed       \* whether the terminating zero count reached the sink

writerVars ==
  <<sized, woff, buf, count, closed, werr, caller, accepted, offered, refused, sealed>>

WriterErrors == {"none", "sink", "item"}

WriterTypeOK ==
  /\ sized \in BOOLEAN
  /\ woff \in Nat
  /\ buf \in Seq(Byte)
  /\ count \in Nat
  /\ closed \in BOOLEAN
  /\ werr \in WriterErrors
  /\ caller \in {"direct", "inF", "nil", "failed"}
  /\ accepted \in Seq(Items)
  /\ offered \in Seq(Items)
  /\ refused \in BOOLEAN
  /\ sealed \in BOOLEAN

WriterInit ==
  /\ wire = Preamble
  /\ end = "open"
  /\ nulls \in BOOLEAN
  /\ sized \in BOOLEAN
  /\ woff = Len(Preamble)
  /\ buf = << >>
  /\ count = 0
  /\ closed = FALSE
  /\ werr = "none"
  /\ caller \in {"direct", "inF"}
  /\ accepted = << >>
  /\ offered = << >>
  /\ refused = FALSE
  /\ sealed = FALSE

\* a.w, and the pending block as the BinaryWriter a.bufw sees it.
Out == Writer(wire, woff)
Buffered == Writer(buf, Len(buf))

\* A sink nobody listens to any more refuses every byte.
Reach(writers) ==
  {w \in writers : end = "open" \/ (w.out = wire /\ w.err # "none")}

\* The caller may call Write and Close: not once WriteArray has returned.
Calling == caller \in {"direct", "inF"}

\* Mutant: errors are not sticky.
ForgetsFailure == FALSE

\* The check Write and Close begin with.
Failed == werr # "none"

\* Mutant: the block may reach the limit.
FlushOverdue(block) == Len(block) > Limit

FlushDue(block) == Len(block) >= Limit

\* flush: the count, the size and the items of the pending block.
Flush(w, n, block) ==
  AndThenFixed(AndThenLong(WriteLong(w, -n), Len(block)), block)

\* The pending block after a flush that left writer w, a.fail when it failed.
AfterFlush(w, n, block) ==
  IF w.err = "none"
  THEN buf' = << >> /\ count' = 0
  ELSE buf' = block /\ count' = n

Landed(w) == wire' = w.out /\ woff' = w.offset /\ werr' = w.err

(***************************************************************************)
(* Write of an item, without blocks to size: a block of one item, straight *)
(* to the sink.                                                            *)
(***************************************************************************)
WriteThrough(v) ==
  /\ ~sized
  /\ \E started \in WriteLong(Out, 1) :
       \E w \in Reach(IF started.err = "none" THEN Marshal(started, v) ELSE {started}) :
         /\ Landed(w)
         /\ accepted' = IF w.err = "none" THEN Append(accepted, v) ELSE accepted
  /\ UNCHANGED <<buf, count>>

(***************************************************************************)
(* Write of an item into the pending block; a bytes.Buffer takes every     *)
(* byte.  The block is flushed once it is large enough.                    *)
(***************************************************************************)
WriteBuffered(v) ==
  /\ sized
  /\ \E b \in {x \in Marshal(Buffered, v) : x.err # "sink"} :
       IF b.err # "none"
       THEN /\ buf' = b.out
            /\ werr' = b.err
            /\ UNCHANGED <<wire, woff, count, accepted>>
       ELSE IF FlushDue(b.out)
       THEN \E w \in Reach(Flush(Out, count + 1, b.out)) :
              /\ Landed(w)
              /\ AfterFlush(w, count + 1, b.out)
              /\ accepted' = IF w.err = "none" THEN Append(accepted, v) ELSE accepted
       ELSE /\ buf' = b.out
            /\ count' = count + 1
            /\ accepted' = Append(accepted, v)
            /\ UNCHANGED <<wire, woff, werr>>

(***************************************************************************)
(* ArrayWriter.Write.  A failed writer returns its error again and changes *)
(* nothing, so that only the other calls are steps.                        *)
(***************************************************************************)
Write(v) ==
  /\ Calling
  /\ ~Failed
  /\ ~closed
  /\ Len(offered) < MaxWrites
  /\ offered' = Append(offered, v)
  /\ WriteThrough(v) \/ WriteBuffered(v)
  /\ UNCHANGED <<end, nulls, sized, closed, caller, refused, sealed>>

\* A closed writer turns the item away, and does not keep the error it returns.
WriteClosed ==
  /\ Calling
  /\ ~Failed
  /\ closed
  /\ refused' = TRUE
  /\ UNCHANGED <<streamVars, sized, woff, buf, count, closed, werr, caller, accepted, offered, sealed>>

\* Mutant: no terminating block.
TerminateNot(writers) == writers

\* The terminating block, after the pending block was flushed if there is one.
Terminate(writers) == AndThenLong(writers, 0)

Pending == sized /\ count # 0

\* What the sink holds once Close wrote the last byte of the terminator.
Sealing(flushed, w) ==
  flushed.err = "none" /\ w.out = flushed.out \o PutVarint(0)

(***************************************************************************)
(* ArrayWriter.Close, for a writer that has not failed and is not closed;  *)
(* otherwise it returns the sticky error, or nil, and changes nothing.     *)
(***************************************************************************)
Finish ==
  \E flushed \in (IF Pending THEN Flush(Out, count, buf) ELSE {Out}) :
    \E w \in Reach(Terminate({flushed})) :
      /\ Landed(w)
      /\ IF Pending THEN AfterFlush(flushed, count, buf) ELSE UNCHANGED <<buf, count>>
      /\ closed' = (w.err = "none")
      /\ sealed' = Sealing(flushed, w)

Close ==
  /\ Calling
  /\ ~Failed
  /\ ~closed
  /\ Finish
  /\ UNCHANGED <<end, nulls, sized, caller, accepted, offered, refused>>

(***************************************************************************)
(* WriteArray when its callback f returned nil: Close, whose result it     *)
(* returns.  The callback may have ignored an error of Write, or may       *)
(* itself have closed the writer.                                          *)
(***************************************************************************)
WriteArrayCloses ==
  /\ caller = "inF"
  /\ IF Failed \/ closed
     THEN UNCHANGED <<wire, woff, buf, count, closed, werr, sealed>>
     ELSE Finish
  /\ caller' = IF werr' = "none" THEN "nil" ELSE "failed"
  /\ UNCHANGED <<end, nulls, sized, accepted, offered, refused>>

\* WriteArray when f returned an error: the array is left unterminated.
WriteArrayGivesUp ==
  /\ caller = "inF"
  /\ caller' = "failed"
  /\ UNCHANGED <<streamVars, sized, woff, buf, count, closed, werr, accepted, offered, refused, sealed>>

WriterNext ==
  \/ \E v \in Values : Write(v)
  \/ WriteClosed
  \/ Close
  \/ WriteArrayCloses
  \/ WriteArrayGivesUp
=============================================================================

------------------------------ MODULE ArrayPipe ------------------------------
(***************************************************************************)
(* An ArrayWriter and an ArrayReader at the two ends of one byte stream    *)
(* that may break: the sink may take part of a write and fail, the         *)
(* producer may go away, and bytes on their way may be lost.  The array is *)
(* one field among others: Preamble was written before it, and a long may  *)
(* follow it on the same BinaryWriter.                                     *)
(***************************************************************************)
EXTENDS ArrayWriter, ArrayReader

VARIABLES
  arrayEnd,    \* history: the length of the stream when Close returned nil
  disturbed    \* history: whether the source ended other than by a clean EOF

pipeVars == <<arrayEnd, disturbed>>
vars == <<streamVars, writerVars, readerVars, pipeVars>>

Init ==
  /\ WriterInit
  /\ ReaderInit(Len(Preamble))
  /\ arrayEnd = 0
  /\ disturbed = FALSE

WriterStep ==
  /\ WriterNext
  /\ arrayEnd' = IF closed' /\ ~closed THEN Len(wire') ELSE arrayEnd
  /\ UNCHANGED <<readerVars, disturbed>>

\* The field after the array, written once the array is complete: one that
\* could pass for the end of an array, or for a block of it.
WriteFollowing ==
  /\ closed
  /\ end = "open"
  /\ Len(wire) = arrayEnd
  /\ \E l \in {0, 1} : \E w \in {x \in WriteLong(Out, l) : x.err = "none"} :
       wire' = w.out /\ woff' = w.offset
  /\ UNCHANGED <<end, nulls, sized, buf, count, closed, werr, caller, accepted, offered, refused,
                 sealed, readerVars, pipeVars>>

ReaderStep == ReaderNext /\ UNCHANGED <<streamVars, writerVars, pipeVars>>

Leave ==
  /\ HangUp
  /\ disturbed' = (end' = "fault")
  /\ UNCHANGED <<writerVars, readerVars, arrayEnd>>

\* Bytes the reader already has cannot be lost.
Lose ==
  /\ \E n \in rd.off .. Len(wire) : Truncate(n)
  /\ disturbed' = TRUE
  /\ UNCHANGED <<writerVars, readerVars, arrayEnd>>

Next == WriterStep \/ WriteFollowing \/ ReaderStep \/ Leave \/ Lose

Spec == Init /\ [][Next]_vars

Draining == ReadItem /\ UNCHANGED <<streamVars, writerVars, pipeVars>>

\* Whether a call of Next would return; it is ENABLED Draining, spelled out.
NextReturns ==
  /\ ~Answered(rd)
  /\ ~Waiting(DecodeNext(rd))
  /\ DecodeNext(rd).rd # rd

\* A consumer that keeps calling Next: weak fairness of Draining.
KeepsDraining == []<>(~NextReturns) \/ []<><<Draining>>_vars

\* ... over a stream whose producer does not stay forever.
FairSpec == Spec /\ KeepsDraining /\ WF_vars(Leave)

TypeOK ==
  /\ StreamTypeOK
  /\ WriterTypeOK
  /\ ReaderTypeOK
  /\ arrayEnd \in Nat
  /\ disturbed \in BOOLEAN

-----------------------------------------------------------------------------
(***************************************************************************)
(* Whatever the reader decodes is what was written at that place of the    *)
(* array, however blocks, skips and failures divide it: it never yields a  *)
(* value made of the bytes of something else.                              *)
(***************************************************************************)
YieldsWhatWasWritten ==
  /\ passed <= Len(offered)
  /\ \A i \in 1 .. Len(yielded) : yielded[i][2] = offered[yielded[i][1]]

(***************************************************************************)
(* The reader is told the truth about the end.  If it reports the end of   *)
(* the array it has passed every item the writer accepted, no item the     *)
(* writer failed on, and stands where the next field begins: a partial     *)
(* array is never presented as a complete one, even when calls of Write    *)
(* failed and Close was called all the same.  And a writer abandoned       *)
(* without Close, on a sink that never failed, leaves whole blocks, which  *)
(* read as a truncated array, never as a short read (array.go:259).        *)
(***************************************************************************)
EndIsTold ==
  /\ rd.done => /\ sealed
                /\ passed = Len(accepted)
                /\ offered = accepted
                /\ closed => rd.off = arrayEnd
  /\ (rd.err # "none" /\ werr = "none" /\ ~disturbed) => rd.err = "truncatedArray"

(***************************************************************************)
(* If WriteArray returns nil the array is terminated and holds every item  *)
(* its callback offered before the writer was closed, even when it ignored *)
(* an error.  What it offered to a writer it had closed itself is not in   *)
(* the array: the next property is about that.                             *)
(***************************************************************************)
WriteArrayNilMeansComplete ==
  caller = "nil" => sealed /\ closed /\ accepted = offered

(***************************************************************************)
(* "Once Write returns an error, every later call to Write or              *)
(* [ArrayWriter.Close] returns that same error." (array.go:298).           *)
(* WriteArray returns what its call of Close does (array.go:384).          *)
(***************************************************************************)
WriteErrorsStick == refused => caller # "nil"

(***************************************************************************)
(* The pending block stays below the limit between calls, and holds less   *)
(* than the limit and one item more when a flush failed.                   *)
(***************************************************************************)
ItemSize(v) == IF nulls THEN 0 ELSE Len(PutVarint(Len(v))) + Len(v)

BufferBounded ==
  /\ werr = "none" => Len(buf) < Limit
  /\ Len(buf) < Limit \/ \E v \in Items : Len(buf) < Limit + ItemSize(v)

(***************************************************************************)
(* While nothing failed the offset counts the bytes that reached the sink; *)
(* after a failure it is never ahead of them.                              *)
(***************************************************************************)
OffsetCounts ==
  ~disturbed => /\ woff <= Len(wire)
                /\ werr = "none" => woff = Len(wire)

(***************************************************************************)
(* After a failure no further byte of the array reaches the sink.          *)
(***************************************************************************)
NothingAfterFailure == [][werr # "none" => (Len(wire') <= Len(wire) /\ werr' = werr)]_vars

(***************************************************************************)
(* A consumer that keeps calling Next learns how the array ends: the       *)
(* draining loop of the README terminates whatever becomes of the stream.  *)
(***************************************************************************)
EventuallyAnswered == <>Answered(rd)

(***************************************************************************)
(* If the array was closed and nothing is lost, what it learns is that the *)
(* array is complete.                                                      *)
(***************************************************************************)
ClosedIsDelivered == closed ~> (rd.done \/ disturbed)

-----------------------------------------------------------------------------
Channel == INSTANCE ArrayChannel WITH
  sent <- offered,
  received <- yielded,
  through <- passed,
  producer <- IF sealed THEN "finished" ELSE "open",
  outcome <- IF rd.done THEN "complete" ELSE IF rd.err # "none" THEN "broken" ELSE "pending"

(***************************************************************************)
(* The pair implements the channel of ArrayChannel.                        *)
(***************************************************************************)
ImplementsChannel == Channel!Spec
=============================================================================

--------------------------- MODULE ArbitraryBytes ---------------------------
(***************************************************************************)
(* An ArrayReader over every sequence of bytes up to a length: counts and  *)
(* sizes at the edges of a long, varints that do not end, headers cut in   *)
(* the middle, lengths that make no sense.                                 *)
(***************************************************************************)
EXTENDS ArrayReader, SequencesExt

CONSTANTS
  MaxBytes,     \* bound: the longest stream
  SourceEnds    \* how the source may end

ASSUME BytesAssumption == MaxBytes \in Nat /\ SourceEnds \subseteq Ends

VARIABLE drain   \* the reader of a first caller, who decodes every item

vars == <<streamVars, readerVars, drain>>

Init ==
  /\ nulls \in BOOLEAN
  /\ wire \in BoundedSeq(Byte, MaxBytes)
  /\ end \in SourceEnds
  /\ ReaderInit(0)
  /\ drain = NewReader(0)

\* The first caller reads the array to its end or to an error ...
Drain ==
  /\ ~Answered(drain)
  /\ drain' = DecodeNext(drain).rd
  /\ UNCHANGED <<streamVars, readerVars>>

\* ... then a second one reads the same bytes and skips blocks as it likes.
ReadAgain ==
  /\ Answered(drain)
  /\ ReaderNext
  /\ UNCHANGED <<streamVars, drain>>

Next == Drain \/ ReadAgain

Spec == Init /\ [][Next]_vars

-----------------------------------------------------------------------------
(***************************************************************************)
(* Skipping is only a faster way through: where decoding every item ends   *)
(* well, every mix of Next and SkipBlock goes without error and ends the   *)
(* array at the same byte.                                                 *)
(***************************************************************************)
SkippingAgreesWithDraining ==
  drain.done => /\ rd.err = "none"
                /\ rd.done => rd.off = drain.off

(***************************************************************************)
(* The reader tells apart a stream that ended between blocks, one that was *)
(* cut inside the framing, and one cut inside an item: ErrTruncatedArray   *)
(* exactly when a call finds no byte at all where a block should begin, a  *)
(* bare io.EOF only from an item's own unmarshaling.                       *)
(***************************************************************************)
RunsOut == rd.err = "none" /\ rd'.err \in EndOfInput

CutsAreTold ==
  [][RunsOut =>
       /\ rd'.err = "truncatedArray" <=>
            (end = "eof" /\ rd.remaining = 0 /\ rd.off = Len(wire))
       /\ rd'.err = "eof" => rd'.remaining > 0
       /\ rd'.err = "source" <=> end = "fault"]_vars

(***************************************************************************)
(* ErrOverflow "is returned when a varint or integer value exceeds the     *)
(* expected range" (avro.go:232): a varint is read only if its bits fit.   *)
(***************************************************************************)
OverflowIsReported ==
  LET read == ReadLong(wire, end, 0)
  IN  read.err = "none" => GroupsValue(SubSeq(wire, 1, read.off)) \in ULong
=============================================================================

---------------------------- MODULE GenericBytes ----------------------------
(***************************************************************************)
(* The generic codec on the streams of ArbitraryBytes: against itself,     *)
(* decimals included, and against the ArrayReader that reads the same      *)
(* bytes.                                                                  *)
(***************************************************************************)
EXTENDS ArbitraryBytes, GenericCodec, Decimal

CONSTANTS
  Plans,        \* the plans to encode and decode with
  Tried,        \* the values to encode with each, which it may refuse
  MaxDecoded,   \* bound: the longest stream to decode
  MaxTail       \* bound: the longest stream to put behind a value

ASSUME PlansAssumption ==
  /\ Plans \subseteq Layouts
  /\ \A plan \in Plans : Tried[plan] \subseteq Encodable[MaxNesting]
  /\ Radix = 2 * Base

\* Bytes are judged once, before the first call of either reader.
Fresh == drain = NewReader(0) /\ ~nulls /\ end = "eof"

\* The values none of whose strings is too long for a Decoder.
ReadableOf(plan) == Tried[plan] \cap Level[MaxNesting]

(***************************************************************************)
(* A value that is encoded is decoded again, whatever follows it and in    *)
(* whatever order a map was walked, and no byte beyond it is consumed.     *)
(* Values with a string of 2^31 bytes or more are the exception.           *)
(***************************************************************************)
ValuesReadBack ==
  (Fresh /\ Len(wire) <= MaxTail) =>
    \A plan \in Plans : \A v \in ReadableOf(plan) : \A x \in Encoder(plan, v) :
      x.err = "none" =>
        Decode(plan, x.out \o wire, end, 0) = Result(Len(x.out), "none", v)

(***************************************************************************)
(* What an Encode leaves that did not return nil, because the sink broke   *)
(* after any byte or because a later part was refused, is not decoded as a *)
(* value.  The exception are refused values of plans that need not read    *)
(* another byte where one was refused: the last field of a record decides. *)
(***************************************************************************)
MustRead(below, plan) ==
  LET fields == FieldPlans(plan)
  IN  CASE plan.kind = "null" -> FALSE
        [] plan.kind \in {"record", "ref"} -> fields # << >> /\ below[Last(fields)]
        [] plan.kind = "union" -> \A i \in DOMAIN plan.parts : below[plan.parts[i]]
        [] OTHER -> TRUE

ReadsMore[n \in 0 .. MaxNesting] ==
  [plan \in Layouts |->
     IF n = 0 THEN plan.kind # "null" ELSE MustRead(ReadsMore[n - 1], plan)]

CutShort(x) == {SubSeq(x.out, 1, k) : k \in 0 .. Len(x.out) - 1}

TornValuesAreReported ==
  (Fresh /\ wire = << >>) =>
    \A plan \in Plans : \A v \in ReadableOf(plan) : \A x \in Encoder(plan, v) :
      IF x.err = "none"
      THEN \A torn \in CutShort(x) : Decode(plan, torn, end, 0).err \in EndOfInput
      ELSE ReadsMore[MaxNesting][plan] =>
             Decode(plan, x.out, end, 0).err \in EndOfInput \cup {"stackOverflow"}

(***************************************************************************)
(* The limits of the two sides differ: an Encoder writes a string of 2^31  *)
(* bytes or more, as an item, a field or a key, and every Decoder reports  *)
(* ErrOverflow on it (avro.go:307) rather than a part of it as the value.  *)
(***************************************************************************)
TooLongIsRefused ==
  (Fresh /\ Len(wire) <= MaxTail) =>
    \A plan \in Plans : \A v \in Tried[plan] \ ReadableOf(plan) : \A x \in Encoder(plan, v) :
      x.err = "none" =>
        \A bytes \in CutShort(x) \cup {x.out \o wire} :
          Decode(plan, bytes, end, 0).err \in
            {"overflow"} \cup (IF Len(bytes) < Len(x.out) THEN EndOfInput ELSE {})

(***************************************************************************)
(* Whatever bytes the decoder accepts, be it in several blocks, with keys  *)
(* twice or with varints longer than need be, it has made a value of the   *)
(* schema of them, which is encoded and read back as the same.             *)
(***************************************************************************)
DecodedValuesAreValid ==
  (Fresh /\ Len(wire) <= MaxDecoded) =>
    \A plan \in Plans : \A d \in {Decode(plan, wire, end, 0)} :
      d.err = "none" =>
        /\ d.val \in Level[MaxNesting]
        /\ \A x \in Encoder(plan, d.val) :
             /\ x.err = "none"
             /\ Decode(plan, x.out, end, 0) = Result(Len(x.out), "none", d.val)

(***************************************************************************)
(* The two readers of arrays in this code agree: an array the ArrayReader  *)
(* reads to its end is to the decoder the same items in the same bytes, if *)
(* they fit in memory, where the ArrayReader need not keep them.           *)
(* The decoder accepts more, but only blocks whose declared count or size  *)
(* the ArrayReader refuses.                                                *)
(***************************************************************************)
SamePlan == Plan("array", "array", 0, <<Simple(IF nulls THEN "null" ELSE "string")>>)

DecodesAsArrayReader ==
  \A d \in {Decode(SamePlan, wire, end, 0)} :
    /\ Answered(drain) =>
         IF drain.done THEN d.err \in {"none", "outOfMemory"} /\ d.off = drain.off
         ELSE d.err = "none" =>
                drain.sized /\ drain.err \in {"overflow", "negativeLength", "blockSizeMismatch"}
    /\ (rd.done /\ passed = Len(yielded)) =>
         /\ Len(d.val[2]) = passed
         /\ ~nulls => \A i \in 1 .. passed : d.val[2][i][2] = yielded[i][2]

-----------------------------------------------------------------------------
\* The bytes are those of a decimal, which stand for the unscaled value.
IsDecimal == Fresh /\ Len(wire) <= MaxLength

Unscaled == BytesToBigInt(wire)

(***************************************************************************)
(* Whatever bytes a decimal was read from, padded or not, the value is one *)
(* that either plan writes so that its decoder reads it again, sign        *)
(* included, at every boundary between one length and the next.            *)
(***************************************************************************)
DecimalRoundTrip == IsDecimal => ReadsBack(Unscaled)

(***************************************************************************)
(* A fixed that has room for every value of its precision refuses none.    *)
(***************************************************************************)
RoomySchemaNeverRefuses == IsDecimal => RoomyTakes(Unscaled)
=============================================================================

---------------------------- MODULE BinaryReader ----------------------------
(***************************************************************************)
(* avro.BinaryReader over the bytes s of a source that ends in the way     *)
(* end says: "eof" (io.EOF) or "fault" (any other read error); "open"      *)
(* means more bytes may still arrive, and a result in EndOfInput is then   *)
(* not final: the call is still waiting for them.                          *)
(*                                                                         *)
(* An operation at offset off returns [off, err, val].  The offset counts  *)
(* every byte consumed, those of a failed read included.                   *)
(***************************************************************************)
EXTENDS Varint

CONSTANT IntHalf     \* 2^31, the number of nonnegative int32 values

ASSUME IntHalfAssumption == IntHalf \in 1 .. Half

\* Errors a read can only return because the source ran out of bytes.
EndOfInput == {"eof", "unexpectedEOF", "truncatedArray", "source"}

Result(off, err, val) == [off |-> off, err |-> err, val |-> val]

\* io.ReadFull: io.EOF if nothing was read, io.ErrUnexpectedEOF after a part.
ReadFullError(end, got) ==
  IF end = "fault" THEN "source" ELSE IF got = 0 THEN "eof" ELSE "unexpectedEOF"

ReadFixed(s, end, off, n) ==
  IF off + n <= Len(s)
  THEN Result(off + n, "none", SubSeq(s, off + 1, off + n))
  ELSE Result(Len(s), ReadFullError(end, Len(s) - off), << >>)

\* How many bytes make up a varint at off: the first without continuation bit.
LastGroups(s, off) ==
  {n \in 1 .. MaxLen : off + n <= Len(s) /\ s[off + n] < Base}

\* Mutant: a long ends where the source ends.
ReadLongLenient(s, end, off) ==
  LET n == Min(LastGroups(s, off) \cup {MaxLen, Len(s) - off})
  IN  Result(off + n, "none", VarintValue(SubSeq(s, off + 1, off + n)))

\* Bytes are read one at a time, so running out of them is always io.EOF.
ReadLong(s, end, off) ==
  LET ends == LastGroups(s, off)
      n == Min(ends)
  IN  IF ends # {}
      THEN Result(off + n, "none", VarintValue(SubSeq(s, off + 1, off + n)))
      ELSE IF off + MaxLen <= Len(s)
           THEN Result(off + MaxLen, "overflow", 0)
           ELSE Result(Len(s), ReadFullError(end, 0), 0)

\* Mutant: a long that no int32 holds is an int.
ReadIntUnchecked(s, end, off) == ReadLong(s, end, off)

ReadInt(s, end, off) ==
  LET l == ReadLong(s, end, off)
  IN  IF l.err = "none" /\ l.val \notin (-IntHalf) .. (IntHalf - 1)
      THEN Result(l.off, "overflow", 0)
      ELSE l

\* Mutant: whatever a long can count is read.
ReadBytesUnlimited(s, end, off) ==
  LET n == ReadLong(s, end, off)
  IN  IF n.err # "none" THEN Result(n.off, n.err, << >>)
      ELSE IF n.val < 0 THEN Result(n.off, "negativeLength", << >>)
      ELSE ReadFixed(s, end, n.off, n.val)

\* ReadBytes and ReadString.
ReadBytes(s, end, off) ==
  LET n == ReadLong(s, end, off)
  IN  IF n.err # "none" THEN Result(n.off, n.err, << >>)
      ELSE IF n.val < 0 THEN Result(n.off, "negativeLength", << >>)
      ELSE IF n.val >= IntHalf THEN Result(n.off, "overflow", << >>)
      ELSE ReadFixed(s, end, n.off, n.val)

\* discard: io.CopyN to nowhere; running out of bytes is never a clean EOF.
Discard(s, end, off, n) ==
  IF off + n <= Len(s)
  THEN Result(off + n, "none", << >>)
  ELSE Result(Len(s), IF end = "fault" THEN "source" ELSE "unexpectedEOF", << >>)
=============================================================================

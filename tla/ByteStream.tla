----------------------------- MODULE ByteStream -----------------------------
(***************************************************************************)
(* What lies between an ArrayWriter and an ArrayReader: the bytes that     *)
(* reached the sink and can be read from the source (the io.Writer and     *)
(* io.Reader the callers hand to the package), and the items of the array, *)
(* whose encoding the callers supply as BinaryMarshaler and                *)
(* BinaryUnmarshaler.  An item is either a byte string, written with       *)
(* WriteBytes, or, if nulls, a value whose encoding is empty.              *)
(***************************************************************************)
EXTENDS BinaryWriter, BinaryReader

CONSTANT
  Items         \* the values the callers put into the array

\* The empty string also stands for the value that takes no bytes.
ASSUME ItemsAssumption == Items \subseteq Seq(Byte) /\ << >> \in Items

VARIABLES
  wire,     \* the bytes that reached the sink, never lost unless Truncate
  end,      \* "open", or how the source ends: "eof", "fault"
  nulls     \* whether an item takes no bytes at all; never changes

streamVars == <<wire, end, nulls>>

Ends == {"open", "eof", "fault"}

StreamTypeOK == wire \in Seq(Byte) /\ end \in Ends /\ nulls \in BOOLEAN

Values == IF nulls THEN {<< >>} ELSE Items

(***************************************************************************)
(* MarshalAvroBinary of an item on each of the given writers.  It may fail *)
(* because a write failed, or on its own account ("item") before, between  *)
(* or after its writes.                                                    *)
(***************************************************************************)
Marshal(writer, v) ==
  LET length == PutVarint(Len(v))
      begun == Wrote(writer, length)
      refuse(w) == [w EXCEPT !.err = "item"]
  IN  IF nulls
      THEN {writer, refuse(writer)}
      ELSE WriteBytes(writer, v)
             \cup {refuse(writer), refuse(begun), refuse(Wrote(begun, v))}

\* UnmarshalAvroBinary of an item at offset off.
Unmarshal(off) ==
  IF nulls THEN Result(off, "none", << >>) ELSE ReadBytes(wire, end, off)

(***************************************************************************)
(* The producer is gone, or the connection is: the source ends here.       *)
(***************************************************************************)
HangUp == /\ end = "open"
          /\ end' \in {"eof", "fault"}
          /\ UNCHANGED <<wire, nulls>>

(***************************************************************************)
(* Bytes on their way are lost: the source ends after its first n bytes.   *)
(***************************************************************************)
Truncate(n) == /\ end = "open"
               /\ end' \in {"eof", "fault"}
               /\ wire' = SubSeq(wire, 1, n)
               /\ UNCHANGED nulls
=============================================================================

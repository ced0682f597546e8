---------------------------- MODULE BinaryWriter ----------------------------
(***************************************************************************)
(* avro.BinaryWriter: a byte sink that may fail, and the offset the writer *)
(* believes it has reached.                                                *)
(*                                                                         *)
(* A writer is a record [out, offset, err]: the bytes that reached the     *)
(* sink, BinaryWriter.offset, and the error of the last operation ("none"  *)
(* while all went well).  Each operation maps a writer to the SET of       *)
(* writers it may leave behind, because out.Write may take only some of    *)
(* the bytes.  A short write with a nil error (io.ErrShortWrite) and a     *)
(* write that returned an error are both the error "sink".                 *)
(***************************************************************************)
EXTENDS Varint

Writer(out, offset) == [out |-> out, offset |-> offset, err |-> "none"]

\* Mutant: the offset is not advanced.
WroteUncounted(w, b) == [w EXCEPT !.out = @ \o b]

\* One out.Write(b) on a sink that takes everything ...
Wrote(w, b) == [w EXCEPT !.out = @ \o b, !.offset = @ + Len(b)]

\* ... or only the first k bytes, with an error: the offset does not move.
Cut(w, b, k) == [w EXCEPT !.out = @ \o SubSeq(b, 1, k), !.err = "sink"]

\* WriteFixed, and the write every other operation ends with.
WriteFixed(w, b) == {Wrote(w, b)} \cup {Cut(w, b, k) : k \in 0 .. Len(b)}

WriteLong(w, l) == WriteFixed(w, PutVarint(l))

\* The next write of an operation happens only if the one before succeeded.
AndThenFixed(writers, b) ==
  UNION {IF w.err = "none" THEN WriteFixed(w, b) ELSE {w} : w \in writers}

AndThenLong(writers, l) == AndThenFixed(writers, PutVarint(l))

\* WriteBytes and WriteString: the length as a long, then the bytes.
WriteBytes(w, b) == AndThenFixed(WriteLong(w, Len(b)), b)
=============================================================================

---------------------------- MODULE SingleObjects ----------------------------
(***************************************************************************)
(* MarshalSingleObject and UnmarshalSingleObject at the two ends of one    *)
(* byte stream: messages of several schemas go in one after the other, and *)
(* a reader of one schema takes them out.                                  *)
(*                                                                         *)
(* Neither function keeps an error: a sender may go on behind a message it *)
(* left half written, and a reader may call again whatever the last call   *)
(* returned, though it may stand anywhere in a message then.  History      *)
(* variables remember when that happened.                                  *)
(***************************************************************************)
EXTENDS ByteStream

CONSTANTS
  Magic,        \* the two bytes 0xC3 0x01
  Fingerprint,  \* of each schema, eight bytes in the code
  Expected,     \* the schema of the reader
  MaxMessages   \* bound: how many messages are sent

FingerprintLen == Len(Fingerprint[Expected])

ASSUME SingleObjectAssumption ==
  /\ Magic \in Seq(Byte) /\ Len(Magic) > 0
  /\ Expected \in DOMAIN Fingerprint
  /\ \A s \in DOMAIN Fingerprint :
       Fingerprint[s] \in Seq(Byte) /\ Len(Fingerprint[s]) = FingerprintLen
  /\ FingerprintLen > 0
  /\ MaxMessages \in Nat

\* What is in memory has a length that fits a long.
ASSUME LengthAssumption == \A v \in Items : Len(v) < Half

VARIABLES
  sent,        \* history: the messages begun, as [schema, val]
  torn,        \* history: the first of them that returned an error, or 0
  pos,         \* how many bytes the io.Reader has delivered
  rerr,        \* what the last call of the reader returned, "none" for nil
  strayed,     \* history: whether it called again after an error
  got,         \* history: the objects read before that, as [val, refused]
  disturbed    \* history: whether the source ended other than by a clean EOF

senderVars == <<sent, torn>>
receiverVars == <<pos, rerr, strayed, got>>
vars == <<streamVars, senderVars, receiverVars, disturbed>>

Init ==
  /\ nulls \in BOOLEAN
  /\ wire = << >>
  /\ end = "open"
  /\ sent = << >>
  /\ torn = 0
  /\ pos = 0
  /\ rerr = "none"
  /\ strayed = FALSE
  /\ got = << >>
  /\ disturbed = FALSE

\* Mutant: the parts of the header in the wrong order.
HeaderSwapped(schema) == AndThenFixed(WriteFixed(Writer(wire, 0), Fingerprint[schema]), Magic)

(***************************************************************************)
(* The header goes straight to the io.Writer, whose short writes are       *)
(* errors; the object writes through a BinaryWriter of its own.            *)
(***************************************************************************)
Header(schema) == AndThenFixed(WriteFixed(Writer(wire, 0), Magic), Fingerprint[schema])

MarshalSingleObject(schema, v) ==
  UNION {IF w.err = "none" THEN Marshal(w, v) ELSE {w} : w \in Header(schema)}

Send(schema, v) ==
  /\ end = "open"
  /\ Len(sent) < MaxMessages
  /\ sent' = Append(sent, [schema |-> schema, val |-> v])
  /\ \E w \in MarshalSingleObject(schema, v) :
       /\ wire' = w.out
       /\ torn' = IF torn = 0 /\ w.err # "none" THEN Len(sent') ELSE torn
  /\ UNCHANGED <<end, nulls, receiverVars, disturbed>>

\* Mutant: one Read of the io.Reader, which may give fewer bytes.
HeaderPartRead(off, n) ==
  IF off < Len(wire)
  THEN LET to == Min({off + n, Len(wire)})
       IN  Result(to, "none", SubSeq(wire, off + 1, to))
  ELSE ReadFixed(wire, end, off, n)

\* io.ReadFull of a part of the header.
HeaderPart(off, n) == ReadFixed(wire, end, off, n)

\* Mutant: the fingerprint is not compared.
AnyFingerprint(read) == FALSE

FingerprintMismatch(read) == read.val # Fingerprint[Expected]

\* Mutant: the object is decoded before its fingerprint is compared.
LeftBehindPayload(read) == Unmarshal(read.off).off

\* Where a call that found another fingerprint leaves the io.Reader.
LeftBehind(read) == read.off

UnmarshalSingleObject(off) ==
  LET magic == HeaderPart(off, Len(Magic))
      fp == HeaderPart(magic.off, FingerprintLen)
  IN  IF magic.err # "none" THEN magic
      ELSE IF magic.val # Magic THEN Result(magic.off, "badMagic", << >>)
      ELSE IF fp.err # "none" THEN fp
      ELSE IF FingerprintMismatch(fp) THEN Result(LeftBehind(fp), "mismatch", << >>)
      ELSE Unmarshal(fp.off)

\* A call that ran out of bytes waits while more may come.
Returns(res) == ~(end = "open" /\ res.err \in EndOfInput)

\* What the reader has of a call, told as an object unless it strayed.
Took(res, refused, astray) ==
  /\ Returns(res)
  /\ pos' = res.off
  /\ rerr' = res.err
  /\ strayed' = astray
  /\ got' = IF res.err = "none" /\ ~astray
            THEN Append(got, [val |-> res.val, refused |-> refused])
            ELSE got
  /\ UNCHANGED <<streamVars, senderVars, disturbed>>

\* UnmarshalSingleObject, be it the first call or one after an error.
Receive ==
  \E res \in {UnmarshalSingleObject(pos)} : Took(res, FALSE, strayed \/ rerr # "none")

(***************************************************************************)
(* What a caller can do with an object whose fingerprint was refused, if   *)
(* it has a BinaryUnmarshaler for that schema too: read it by hand.        *)
(***************************************************************************)
ReadRefused ==
  /\ rerr = "mismatch"
  /\ ~strayed
  /\ \E res \in {Unmarshal(pos)} : Took(res, TRUE, FALSE)

Leave ==
  /\ HangUp
  /\ disturbed' = (end' = "fault")
  /\ UNCHANGED <<senderVars, receiverVars>>

\* Bytes the reader already has cannot be lost.
Lose ==
  /\ \E n \in pos .. Len(wire) : Truncate(n)
  /\ disturbed' = TRUE
  /\ UNCHANGED <<senderVars, receiverVars>>

Next ==
  \/ \E s \in DOMAIN Fingerprint, v \in Values : Send(s, v)
  \/ Receive
  \/ ReadRefused
  \/ Leave
  \/ Lose

Spec == Init /\ [][Next]_vars

-----------------------------------------------------------------------------
\* The messages up to the last one no torn message lies before.
Whole == IF torn \in {0, Len(sent)} THEN Len(sent) ELSE torn - 1

Foreign(m) == Fingerprint[m.schema] # Fingerprint[Expected]

(***************************************************************************)
(* Objects come out in the order they went in, those of the reader's own   *)
(* schema from UnmarshalSingleObject and the others refused by it, and     *)
(* none is made of parts of two, wherever the stream is cut.  This is so   *)
(* up to the first message that was left torn, and only if it was the last *)
(* one for that message too: what a sender writes behind a torn message is *)
(* taken for the rest of it.  It is so until the reader ignores an error.  *)
(***************************************************************************)
DeliversOnlySent ==
  /\ Whole = Len(sent) => Len(got) <= Len(sent)
  /\ \A i \in 1 .. Len(got) : i <= Whole =>
       got[i] = [val |-> sent[i].val, refused |-> Foreign(sent[i])]

\* Neither end nor anything between them has failed.
Quiet == torn = 0 /\ ~disturbed /\ ~strayed

(***************************************************************************)
(* On a stream nobody disturbed a call of the reader fails only at the end *)
(* of the stream after its last object, or at an object of another schema: *)
(* never for a bad header.  A reader that reads by hand what it refused    *)
(* goes on behind it, and gets everything.                                 *)
(***************************************************************************)
QuietStreamIsDelivered ==
  (Quiet /\ rerr # "none") =>
    \/ rerr = "eof" /\ Len(got) = Len(sent)
    \/ rerr = "mismatch" /\ Len(got) < Len(sent) /\ Foreign(sent[Len(got) + 1])

(***************************************************************************)
(* A call that refuses an object of another schema has consumed its header *)
(* and nothing else, so that a caller who knows what it is can decode it.  *)
(* (The next call of UnmarshalSingleObject would take it for a header.)    *)
(***************************************************************************)
MismatchKeepsPayload ==
  (Quiet /\ rerr = "mismatch") =>
    LET object == Unmarshal(pos)
    IN  object.err = "none" /\ object.val = sent[Len(got) + 1].val

(***************************************************************************)
(* A stream that ends inside a header is told from one that ends between   *)
(* two objects, but for one place: exactly between magic and fingerprint   *)
(* both read as io.EOF.                                                    *)
(***************************************************************************)
InStep == rerr = "none" /\ ~strayed /\ (Len(got) < Whole \/ Whole = Len(sent))

CutHeaderIsTold ==
  [][LET rest == Len(wire) - pos
     IN  (InStep /\ rerr' # "none" /\ end = "eof" /\ rest < Len(Magic) + FingerprintLen)
           => rerr' = IF rest \in {0, Len(Magic)} THEN "eof" ELSE "unexpectedEOF"]_vars
=============================================================================

---------------------------- MODULE ForeignArrays ----------------------------
(***************************************************************************)
(* An ArrayReader over the arrays other producers write.  They use what    *)
(* the ArrayWriter of this package never emits: unsized blocks of several  *)
(* items, sized and unsized blocks in one array, and blocks that declare a *)
(* size they do not have.                                                  *)
(***************************************************************************)
EXTENDS ArrayReader, SequencesExt

CONSTANTS
  BlockItems,   \* bound: most items of a block
  MaxBlocks,    \* bound: most blocks of an array
  Slack         \* by how much a declared size may be wrong

\* What a long has to count: items and bytes in memory.
ASSUME ForeignAssumption ==
  /\ BlockItems \in 0 .. (Half - 1)
  /\ MaxBlocks \in Nat
  /\ Slack \subseteq Int
  /\ \A v \in Items : Len(v) < Half

VARIABLE blocks  \* the array on the wire: its blocks before the terminating one

vars == <<streamVars, readerVars, blocks>>

Block ==
  {b \in [sized : BOOLEAN, items : BoundedSeq(Values, BlockItems) \ {<< >>}, slack : Slack] :
     ~b.sized => b.slack = 0}

ItemBytes(v) == IF nulls THEN << >> ELSE PutVarint(Len(v)) \o v

Payload(b) == FlattenSeq([i \in 1 .. Len(b.items) |-> ItemBytes(b.items[i])])

BlockBytes(b) ==
  IF b.sized
  THEN PutVarint(-Len(b.items)) \o PutVarint(Len(Payload(b)) + b.slack) \o Payload(b)
  ELSE PutVarint(Len(b.items)) \o Payload(b)

ArrayBytes(bs) == FlattenSeq([i \in 1 .. Len(bs) |-> BlockBytes(bs[i])]) \o PutVarint(0)

\* The field that follows the array, should the reader run past its end.
Following == PutVarint(1)

Init ==
  /\ nulls \in BOOLEAN
  /\ blocks \in {bs \in BoundedSeq(Block, MaxBlocks) :
                   \A i \in 1 .. Len(bs) : Len(Payload(bs[i])) + bs[i].slack \in 0 .. (Half - 1)}
  /\ wire = ArrayBytes(blocks) \o Following
  /\ end = "eof"
  /\ ReaderInit(0)

Next == ReaderNext /\ UNCHANGED <<streamVars, blocks>>

Spec == Init /\ [][Next]_vars

-----------------------------------------------------------------------------
Contents == FlattenSeq([i \in 1 .. Len(blocks) |-> blocks[i].items])

Honest == \A i \in 1 .. Len(blocks) : blocks[i].slack = 0

(***************************************************************************)
(* An array whose sizes are right is read without error whatever mix of    *)
(* decoding and skipping the caller chooses, each item at its place.       *)
(***************************************************************************)
HonestArrayReads ==
  Honest =>
    /\ rd.err = "none"
    /\ passed <= Len(Contents)
    /\ \A i \in 1 .. Len(yielded) : yielded[i][2] = Contents[yielded[i][1]]
    /\ rd.done => passed = Len(Contents) /\ rd.off = Len(ArrayBytes(blocks))
=============================================================================

---------------------------- MODULE ArrayChannel ----------------------------
(***************************************************************************)
(* What the array stream promises, without bytes or blocks: items go in    *)
(* one at a time until the producer finishes the array; the consumer takes *)
(* them in order, or passes over some, and learns that it has seen the     *)
(* whole array only if the producer finished it and nothing is left.       *)
(***************************************************************************)
EXTENDS Naturals, Sequences

CONSTANT Items

VARIABLES
  sent,        \* the items that went in
  received,    \* what the consumer took, as <<position, item>>
  through,     \* how many items the consumer took or passed over
  producer,    \* "open" or "finished"
  outcome      \* "pending", "complete" or "broken"

vars == <<sent, received, through, producer, outcome>>

Init ==
  /\ sent = << >>
  /\ received = << >>
  /\ through = 0
  /\ producer = "open"
  /\ outcome = "pending"

Send(v) ==
  /\ producer = "open"
  /\ sent' = Append(sent, v)
  /\ UNCHANGED <<received, through, producer, outcome>>

FinishArray ==
  /\ producer = "open"
  /\ producer' = "finished"
  /\ UNCHANGED <<sent, received, through, outcome>>

Receive ==
  /\ outcome = "pending"
  /\ through < Len(sent)
  /\ through' = through + 1
  /\ received' = Append(received, <<through', sent[through']>>)
  /\ UNCHANGED <<sent, producer, outcome>>

PassOver(n) ==
  /\ outcome = "pending"
  /\ through + n <= Len(sent)
  /\ through' = through + n
  /\ UNCHANGED <<sent, received, producer, outcome>>

LearnComplete ==
  /\ outcome = "pending"
  /\ producer = "finished"
  /\ through = Len(sent)
  /\ outcome' = "complete"
  /\ UNCHANGED <<sent, received, through, producer>>

LearnBroken ==
  /\ outcome = "pending"
  /\ outcome' = "broken"
  /\ UNCHANGED <<sent, received, through, producer>>

Next ==
  \/ \E v \in Items : Send(v)
  \/ FinishArray
  \/ Receive
  \/ \E n \in 1 .. Len(sent) : PassOver(n)
  \/ LearnComplete
  \/ LearnBroken

Spec == Init /\ [][Next]_vars
=============================================================================

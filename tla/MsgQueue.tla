------------------------------ MODULE MsgQueue ------------------------------
(***************************************************************************)
(* What the two threads at the ends of a ring_queue_t are promised: whole  *)
(* messages, each handed over once, in the order they were published.      *)
(***************************************************************************)
EXTENDS Sequences

CONSTANTS Msgs,     \* the messages that may be queued
          NoMsg     \* the consumer has received nothing yet

VARIABLES q,        \* published messages not yet received, oldest first
          got       \* the message the consumer received last

vars == <<q, got>>

Init == q = <<>> /\ got = NoMsg

Put(m) == q' = Append(q, m) /\ UNCHANGED got

Take == q # <<>> /\ got' = Head(q) /\ q' = Tail(q)

Drop == q # <<>> /\ q' = Tail(q) /\ UNCHANGED got

Reset == q' = <<>> /\ UNCHANGED got

Next == (\E m \in Msgs : Put(m)) \/ Take \/ Drop \/ Reset

Spec == Init /\ [][Next]_vars

\* A published message does not stay for ever: the consumer takes or drops it.
FairSpec == Spec /\ WF_vars(Take \/ Drop)
=============================================================================

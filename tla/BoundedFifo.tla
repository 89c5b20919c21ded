---------------------------- MODULE BoundedFifo ----------------------------
(***************************************************************************)
(* What a ring promises its two clients, with no memory, positions or      *)
(* laps: messages are numbered in the order they are published, the        *)
(* consumer sees the oldest one as often as it likes and releases one or   *)
(* more of the oldest, and no more than MaxLen are ever held.              *)
(***************************************************************************)
EXTENDS Integers, Sequences

CONSTANTS MaxLen, NoMsg

VARIABLES queue,  \* published and not released, oldest first
          sent,   \* how many were published so far
          view    \* the message the consumer is looking at, or NoMsg

fifoVars == <<queue, sent, view>>

Init == queue = <<>> /\ sent = 0 /\ view = NoMsg

\* The next message enters at the tail.
Publish ==
  /\ sent' = sent + 1
  /\ Len(queue) < MaxLen
  /\ queue' = Append(queue, sent)
  /\ UNCHANGED view

\* The consumer is shown the oldest message ...
Look ==
  /\ queue # <<>>
  /\ view' = Head(queue)
  /\ UNCHANGED <<queue, sent>>

\* ... and may look away without releasing it,
LookAway ==
  /\ view' = NoMsg
  /\ UNCHANGED <<queue, sent>>

\* or release it, and with it the n - 1 that follow.
Release(n) ==
  /\ view # NoMsg /\ n <= Len(queue)
  /\ queue' = SubSeq(queue, n + 1, Len(queue))
  /\ view' = NoMsg
  /\ UNCHANGED sent

Next == Publish \/ LookAway \/ Look \/ \E n \in 1 .. MaxLen : Release(n)

Spec == Init /\ [][Next]_fifoVars
=============================================================================

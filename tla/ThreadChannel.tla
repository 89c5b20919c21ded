---------------------------- MODULE ThreadChannel ----------------------------
(***************************************************************************)
(* run_fixed_channel of examples/thread_channel.cpp: a producer thread and *)
(* a consumer thread over a fixed ring.  Unlike the clients of             *)
(* FixedChannel they take a snapshot of the notify word and sleep on it    *)
(* with backoff.wait, without setting the waiter flag, so that commit and  *)
(* read_advance do not wake them: only the 2 ms timeout does.              *)
(***************************************************************************)
EXTENDS FixedRing

CONSTANT Backends  \* the wait implementations looked at

ASSUME ThreadChannelAssumption ==
  Backends \subseteq {"futex", "win32", "win32_poll", "os_sync", "ulock", "portable"}

VARIABLES backend, pwaiter, cwaiter,  \* the waits of the two threads
          ppc, cpc,                   \* where their loops stand
          producer_done, drained, mismatch

clientVars == <<ppc, cpc, producer_done, drained, mismatch>>
channelVars == <<vars, backend, pwaiter, cwaiter, clientVars>>

PWait == INSTANCE AtomicWait WITH
  Waiters <- {"producer"}, word <- read_wake_seq, waiter <- pwaiter
CWait == INSTANCE AtomicWait WITH
  Waiters <- {"consumer"}, word <- commit_seq, waiter <- cwaiter

ChannelInit ==
  /\ Init
  /\ backend \in Backends
  /\ pwaiter = [w \in {"producer"} |-> PWait!NoCall]
  /\ cwaiter = [w \in {"consumer"} |-> CWait!NoCall]
  /\ ppc = "loop" /\ cpc = "loop"
  /\ producer_done = FALSE /\ drained = 0 /\ mismatch = FALSE

\* Everything but the wait of the producer, or of the consumer, and its word.
AllButPWait == <<write_pos, commit_pos, read_pos, commit_seq, data, writerVars, readerVars,
                 cwaiter, cpc, producer_done, drained, mismatch>>
AllButCWait == <<write_pos, commit_pos, read_pos, read_wake_seq, data, writerVars, readerVars,
                 pwaiter, ppc, producer_done, drained, mismatch>>
Waits == <<backend, pwaiter, cwaiter>>

-----------------------------------------------------------------------------
(* The producer: while (i < kFixedMessages), i * ItemSize being write_pos *)

ProducerReserve ==
  /\ ppc = "loop" /\ ~pending
  /\ TryReserve
  /\ UNCHANGED <<Waits, clientVars>>

ProducerReserved ==
  /\ ReserveSlot
  /\ ppc' = IF RingFull THEN "snapshot" ELSE "fill"
  /\ UNCHANGED <<Waits, cpc, producer_done, drained, mismatch>>

\* The tag is copied into the slot and the slot committed.
ProducerFill ==
  /\ ppc = "fill"
  /\ BeginCopy \/ EndCopy \/ (pending /\ Commit)
  /\ ppc' = IF pending' THEN "fill" ELSE "loop"
  /\ UNCHANGED <<Waits, cpc, producer_done, drained, mismatch>>

ProducerBump == CommitBump /\ UNCHANGED <<Waits, clientVars>>

ProducerNotify ==
  /\ CommitNotify
  /\ CWait!atomic_notify_all
  /\ UNCHANGED <<pwaiter, clientVars>>

\* wake = read_wake_seq.load(); backoff.wait(&read_wake_seq, wake, 2)
ProducerSnapshot ==
  /\ ppc = "snapshot" /\ ppc' = "wait"
  /\ PWait!backoff_wait("producer", read_wake_seq)
  /\ UNCHANGED AllButPWait

ProducerWait ==
  /\ \/ PWait!BlockStep("producer") /\ UNCHANGED ppc
     \/ PWait!EndWait("producer") /\ ppc' = "loop"
  /\ UNCHANGED AllButPWait

ProducerDone ==
  /\ ppc = "loop" /\ wpc = "idle" /\ write_pos >= MaxPos
  /\ producer_done' = TRUE /\ ppc' = "done"
  /\ UNCHANGED <<vars, Waits, cpc, drained, mismatch>>

-----------------------------------------------------------------------------
(* The consumer *)

\* Mutant: while (!producer_done), the flag looked at first.
ConsumerReadUnlessDone ==
  /\ cpc = "loop" /\ rpc = "idle"
  /\ IF producer_done THEN cpc' = "exit" /\ UNCHANGED vars
     ELSE TryRead /\ cpc' = IF rpc' = "view" THEN "view" ELSE "empty"
  /\ UNCHANGED <<Waits, ppc, producer_done, drained, mismatch>>

ConsumerRead ==
  /\ cpc = "loop" /\ rpc = "idle"
  /\ TryRead
  /\ cpc' = IF rpc' = "view" THEN "view" ELSE "empty"
  /\ UNCHANGED <<Waits, ppc, producer_done, drained, mismatch>>

\* tag != drained
ConsumerLook ==
  /\ cpc = "view" /\ cpc' = "advance"
  /\ mismatch' = (mismatch \/ MessageAt(read_pos) # drained)
  /\ drained' = drained + 1
  /\ UNCHANGED <<vars, Waits, ppc, producer_done>>

ConsumerAdvance ==
  /\ cpc = "advance" /\ cpc' = "loop"
  /\ ReadAdvance(1)
  /\ UNCHANGED <<Waits, ppc, producer_done, drained, mismatch>>

ConsumerBump == AdvanceBump /\ UNCHANGED <<Waits, clientVars>>

ConsumerNotify ==
  /\ AdvanceNotify
  /\ PWait!atomic_notify_all
  /\ UNCHANGED <<cwaiter, clientVars>>

\* Mutant: the flag is never looked at.
ConsumerNeverDone ==
  /\ cpc = "empty"
  /\ cpc' = "snapshot"
  /\ UNCHANGED <<vars, Waits, ppc, producer_done, drained, mismatch>>

\* Nothing to read: leave if the producer is done by now, else wait.
ConsumerCheckDone ==
  /\ cpc = "empty"
  /\ cpc' = IF producer_done THEN "exit" ELSE "snapshot"
  /\ UNCHANGED <<vars, Waits, ppc, producer_done, drained, mismatch>>

ConsumerSnapshot ==
  /\ cpc = "snapshot" /\ cpc' = "wait"
  /\ CWait!backoff_wait("consumer", commit_seq)
  /\ UNCHANGED AllButCWait

ConsumerWait ==
  /\ \/ CWait!BlockStep("consumer") /\ UNCHANGED cpc
     \/ CWait!EndWait("consumer") /\ cpc' = "loop"
  /\ UNCHANGED AllButCWait

-----------------------------------------------------------------------------
ProducerStep ==
  ProducerReserve \/ ProducerReserved \/ ProducerFill \/ ProducerBump
  \/ ProducerNotify \/ ProducerSnapshot \/ ProducerWait \/ ProducerDone

ConsumerStep ==
  ConsumerRead \/ ConsumerLook \/ ConsumerAdvance \/ ConsumerBump
  \/ ConsumerNotify \/ ConsumerCheckDone \/ ConsumerSnapshot \/ ConsumerWait

ProducerClock == PWait!Expire("producer") /\ UNCHANGED <<AllButPWait, ppc>>
ConsumerClock == CWait!Expire("consumer") /\ UNCHANGED <<AllButCWait, cpc>>

Interrupt ==
  \/ PWait!SpuriousWake("producer") /\ UNCHANGED <<AllButPWait, ppc>>
  \/ CWait!SpuriousWake("consumer") /\ UNCHANGED <<AllButCWait, cpc>>

\* consumer.join()
Joined == ppc = "done" /\ cpc = "exit" /\ UNCHANGED channelVars

ChannelNext == ProducerStep \/ ConsumerStep \/ ProducerClock \/ ConsumerClock
               \/ Interrupt \/ Joined

\* Both threads keep running and their clocks advance.
ChannelSpec ==
  /\ ChannelInit /\ [][ChannelNext]_channelVars
  /\ WF_channelVars(ProducerStep) /\ WF_channelVars(ConsumerStep)
  /\ WF_channelVars(ProducerClock) /\ WF_channelVars(ConsumerClock)

-----------------------------------------------------------------------------
\* The consumer finds the frames in the order they were written, each complete
\* ("<-- MISMATCH" is never printed).
TagsMatch == ~mismatch

\* The inductive invariant behind TagsMatch, on top of the ring's own: the
\* consumer has counted the frames behind read_pos and the one it looks at; it
\* looks at a frame only between try_read and read_advance, and never in a wait.
\* A producer that is done is in no call of the ring and in no wait (DoneBook).
ReadBook ==
  /\ drained \in Nat
  /\ ItemSize * drained = IF cpc = "advance" THEN read_pos + ItemSize ELSE read_pos
  /\ cpc \in {"view", "advance"} <=> rpc = "view"
  /\ DOMAIN cwaiter = {"consumer"} /\ (~CWait!At("consumer", "out") => cpc = "wait")

DoneBook ==
  /\ producer_done => ppc = "done"
  /\ wpc # "idle" => ppc = "loop"
  /\ DOMAIN pwaiter = {"producer"} /\ (~PWait!At("producer", "out") => ppc = "wait")

ThreadInv == IInv /\ NothingAbandoned /\ ReadBook /\ DoneBook /\ TagsMatch

\* Both threads come to an end, although nobody wakes the sleeper: a snapshot
\* taken too late costs a timeout, not the program.
BothFinish == <>(ppc = "done" /\ cpc = "exit")

\* Once the producer is done, a consumer that has yet to try another read leaves
\* the loop only over an empty ring ("producer finished and the ring is
\* drained", thread_channel.cpp).  Frames are left behind only by a consumer
\* that found the ring empty before the producer was done and looks at the flag
\* after.
DrainedIfDoneFirst ==
  [](producer_done /\ cpc = "loop" => [](cpc = "exit" => read_pos = commit_pos))

=============================================================================

---------------------------- MODULE FixedChannel ----------------------------
(***************************************************************************)
(* A blocking channel over the fixed ring: a producer that waits on        *)
(* read_wake_seq while the ring is full and a consumer that waits on       *)
(* commit_seq while it is empty, both through wait_on_notify_word(_for)    *)
(* with a predicate on the positions, as notify_word.hpp prescribes.  The  *)
(* two client loops are the callers' code; everything they call is the     *)
(* library's.  The bump and notify steps of commit and read_advance act on *)
(* the very words the waiters mark.                                        *)
(***************************************************************************)
EXTENDS FixedRing

VARIABLES pwaiter, cwaiter,  \* the producer's and the consumer's waits
          pblocked, cblocked \* the last try_reserve / try_read returned nullptr

waitVars == <<pwaiter, cwaiter, pblocked, cblocked>>
channelVars == <<vars, waitVars>>

\* The producer on read_wake_seq, the consumer on commit_seq.
PWait == INSTANCE NotifyWord WITH
  Waiters <- {"producer"}, word <- read_wake_seq, waiter <- pwaiter, backend <- "futex"
CWait == INSTANCE NotifyWord WITH
  Waiters <- {"consumer"}, word <- commit_seq, waiter <- cwaiter, backend <- "futex"

ProducerRuns == PWait!At("producer", "out")
ConsumerRuns == CWait!At("consumer", "out")

\* The predicates the clients pass: the test that made them wait, repeated on
\* fresh positions.
StillFull == write_pos % Capacity = read_pos % Capacity /\ write_pos > read_pos
StillEmpty == commit_pos <= read_pos

ChannelInit == Init /\ PWait!WaiterInit /\ CWait!WaiterInit
               /\ pblocked = FALSE /\ cblocked = FALSE

-----------------------------------------------------------------------------
(* The producer: reserve, waiting while full; copy; commit. *)
ProducerReserve ==
  /\ ProducerRuns /\ ~pblocked /\ ~pending
  /\ TryReserve
  /\ UNCHANGED waitVars

ProducerReserved ==
  /\ ReserveSlot
  /\ pblocked' = RingFull
  /\ UNCHANGED <<pwaiter, cwaiter, cblocked>>

ProducerCopy ==
  /\ BeginCopy \/ EndCopy \/ (pending /\ Commit)
  /\ UNCHANGED waitVars

\* Everything of FixedRing except commit_seq / read_wake_seq, which a wait
\* changes.
AllButCommitSeq == <<write_pos, commit_pos, read_pos, read_wake_seq, data, writerVars, readerVars>>
AllButReadWakeSeq == <<write_pos, commit_pos, read_pos, commit_seq, data, writerVars, readerVars>>

ProducerBump == CommitBump /\ UNCHANGED waitVars

ProducerNotify ==
  /\ CommitNotify
  /\ CWait!atomic_notify_all
  /\ UNCHANGED <<pwaiter, pblocked, cblocked>>

ProducerWait ==
  /\ pblocked /\ pblocked' = FALSE
  /\ \E timed \in BOOLEAN : PWait!WaitCall("producer", timed)
  /\ UNCHANGED <<AllButReadWakeSeq, cwaiter, cblocked>>

ProducerWaitStep ==
  /\ PWait!WaitStep("producer", StillFull)
  /\ UNCHANGED <<AllButReadWakeSeq, cwaiter, pblocked, cblocked>>

-----------------------------------------------------------------------------
(* The consumer: try_read, waiting while empty; release one slot or more. *)
ConsumerRead ==
  /\ ConsumerRuns /\ ~cblocked /\ rpc = "idle"
  /\ TryRead
  /\ cblocked' = (commit_pos <= read_pos)
  /\ UNCHANGED <<pwaiter, cwaiter, pblocked>>

ConsumerAdvance ==
  /\ \E n \in 1 .. item_count : ReadAdvance(n)
  /\ UNCHANGED waitVars

ConsumerBump == AdvanceBump /\ UNCHANGED waitVars

ConsumerNotify ==
  /\ AdvanceNotify
  /\ PWait!atomic_notify_all
  /\ UNCHANGED <<cwaiter, pblocked, cblocked>>

ConsumerWait ==
  /\ cblocked /\ cblocked' = FALSE
  /\ \E timed \in BOOLEAN : CWait!WaitCall("consumer", timed)
  /\ UNCHANGED <<AllButCommitSeq, pwaiter, pblocked>>

ConsumerWaitStep ==
  /\ CWait!WaitStep("consumer", StillEmpty)
  /\ UNCHANGED <<AllButCommitSeq, pwaiter, pblocked, cblocked>>

-----------------------------------------------------------------------------
\* Clocks run; the kernel may end a sleep early.
Clock ==
  \/ /\ PWait!Expire("producer") \/ PWait!SpuriousWake("producer")
     /\ UNCHANGED <<AllButReadWakeSeq, cwaiter, pblocked, cblocked>>
  \/ /\ CWait!Expire("consumer") \/ CWait!SpuriousWake("consumer")
     /\ UNCHANGED <<AllButCommitSeq, pwaiter, pblocked, cblocked>>

ProducerStep ==
  ProducerReserve \/ ProducerReserved \/ ProducerCopy \/ ProducerBump
  \/ ProducerNotify \/ ProducerWait \/ ProducerWaitStep

ConsumerStep ==
  ConsumerRead \/ ConsumerAdvance \/ ConsumerBump \/ ConsumerNotify
  \/ ConsumerWait \/ ConsumerWaitStep

\* The stream ends at MaxPos: the producer has returned from its last commit and
\* the consumer has released everything.
Finished ==
  /\ read_pos >= MaxPos /\ wpc = "idle" /\ rpc = "idle"
  /\ UNCHANGED channelVars

ChannelNext == ProducerStep \/ ConsumerStep \/ Clock \/ Finished

\* Each thread keeps running; the clock and the kernel owe nothing.
ChannelSpec ==
  /\ ChannelInit /\ [][ChannelNext]_channelVars
  /\ WF_channelVars(ProducerStep) /\ WF_channelVars(ConsumerStep)

-----------------------------------------------------------------------------
\* The ring and both waits keep their types while they share the two words.
ChannelTypeOK ==
  /\ TypeOK
  /\ PWait!TypeOKWait /\ CWait!TypeOKWait
  /\ pblocked \in BOOLEAN /\ cblocked \in BOOLEAN

\* Neither side sleeps through what it waits for: a consumer asleep over a
\* published message, or a producer asleep over a free slot, has a bump under
\* way that will find its flag, or a notify that will wake it.
NobodySleepsThroughProgress ==
  /\ CWait!At("consumer", "asleep") /\ ~StillEmpty =>
       wpc = "notify" \/ (wpc = "bump" /\ HasWaiter(commit_seq))
  /\ PWait!At("producer", "asleep") /\ ~StillFull =>
       rpc = "notify" \/ (rpc = "bump" /\ HasWaiter(read_wake_seq))

\* The waiter flag of a word is set only while somebody is inside a wait on it
\* ("Always clears the waiter bit if this call set it", notify_word.hpp): commit
\* and read_advance pay for no waiter that is gone, however many rounds the wait
\* took and whichever way it ended.  (The sequence does not carry here.)
NoStrayFlag ==
  /\ HasWaiter(commit_seq) => ~ConsumerRuns
  /\ HasWaiter(read_wake_seq) => ~ProducerRuns

\* The inductive invariant behind these properties.  What a word knows of the
\* call waiting on it, bpc being where its bumper stands: the flag is the call's
\* own; a mark is the word as it was, unless the word was bumped since; the
\* predicate found true after the mark still holds, unless a bump is due; and a
\* sleeper sleeps on the word as it is now, unless a notify is due.
Rechecked == {"timer", "load", "block", "asleep"}

WaitBook(raw, call, bpc, pred) ==
  /\ HasWaiter(raw) <=> call.registered
  /\ call.pc = "out" => ~call.registered
  /\ call.pc \in Rechecked \cup {"recheck"} =>
       /\ call.marked \in NotifyWords
       /\ notify_seq_value(call.marked) <= notify_seq_value(raw)
       /\ notify_seq_value(call.marked) = notify_seq_value(raw) =>
            /\ raw = SetWaiter(call.marked)
            /\ call.pc \in Rechecked => bpc = "bump" \/ pred
  /\ call.pc = "asleep" => bpc = "notify" \/ raw = call.marked

\* A sequence is never ahead of the position whose stores it counts.
CountBook(raw, bpc, position) ==
  ItemSize * (IF bpc = "bump" THEN notify_seq_value(raw) + 1 ELSE notify_seq_value(raw)) <= position

\* A client that found the ring full or empty, or waits for it to change, is in
\* no other call; the stream ends.
TurnBook ==
  /\ pblocked \/ ~ProducerRuns => wpc = "idle" /\ ~pending
  /\ cblocked \/ ~ConsumerRuns => rpc = "idle"
  /\ write_pos < MaxPos + ItemSize /\ (wpc = "reserve" => write_pos < MaxPos)

ChannelInv ==
  /\ ChannelTypeOK /\ IInv /\ NothingAbandoned /\ TurnBook
  /\ WaitBook(commit_seq, cwaiter["consumer"], wpc, StillEmpty)
  /\ WaitBook(read_wake_seq, pwaiter["producer"], rpc, StillFull)
  /\ CountBook(commit_seq, wpc, commit_pos) /\ CountBook(read_wake_seq, rpc, read_pos)

\* Every message of the stream is published and released, however the two
\* block on each other and whether or not a timeout ever fires.
StreamDelivered == <>(read_pos >= MaxPos)

=============================================================================

-------------------------- MODULE RingClientProofs --------------------------
(***************************************************************************)
(* Two users of the fixed ring.  The occupancy queries of ring_view can be *)
(* relied upon for every geometry and every interleaving of their two      *)
(* loads with the ring; and the threads of thread_channel.cpp pass on      *)
(* every frame in order, on every wait backend.                            *)
(***************************************************************************)
EXTENDS RingView, ThreadChannel, FixedRingProofs

-----------------------------------------------------------------------------
(* ring_view *)

\* Looking at the ring does not disturb it.
LEMMA ViewIsHarmless == ViewSpec => Spec
<1>1. ViewInit => Init
  BY DEF ViewInit
<1>2. [ViewNext]_allVars => [Next]_vars
  BY DEF ViewNext, RingStep, LoadReadPos, LoadWritePos, Next, allVars
<1> QED BY <1>1, <1>2, PTL DEF ViewSpec, Spec

\* What available_bytes reports is free within the lap.
LEMMA AvailableFits ==
  ASSUME NEW write \in Nat, NEW read \in Nat, write <= read + Capacity
  PROVE  /\ available_bytes(write, read) \in Nat
         /\ write + available_bytes(write, read) <= read + Capacity
<1> USE FixedRingAssumption
<1>1. CASE write >= read
  BY <1>1 DEF available_bytes, used_bytes
<1>2. CASE write < read
  BY <1>2 DEF available_bytes, used_bytes
<1> QED BY <1>1, <1>2

\* A slot that ends within the lap is not refused by the index comparison.
LEMMA RoomIsNotFull ==
  ASSUME NEW w \in Nat, NEW r \in Nat, w + ItemSize <= r + Capacity, w > r
  PROVE  w % Capacity # r % Capacity
<1>0. Capacity \in Nat \ {0} /\ ItemSize \in Nat \ {0}
  BY FixedRingAssumption
<1>1. r <= w /\ w < r + Capacity /\ r # w
  BY <1>0
<1> QED BY <1>0, <1>1, ModInjective, Zenon

\* What fits behind read_pos fits behind any later read_pos.
LEMMA RoomStays ==
  ASSUME NEW end \in Nat, NEW r \in Nat, NEW later \in Nat, NEW cap \in Nat,
         end <= r + cap, r <= later
  PROVE  end <= later + cap
  OBVIOUS

\* Steps of the ring keep ViewInv: the consumer only makes room, and the
\* producer that takes the slot forgets about it.
LEMMA RingStepView ==
  ASSUME IInv, IInv', ViewInv, RingStep
  PROVE  ViewInv'
<1> USE FixedRingAssumption
<1>0. /\ write_pos \in Nat /\ read_pos \in Nat /\ wread \in Nat /\ told \in Nat /\ lwrite \in Nat
      /\ write_pos' \in Nat /\ read_pos' \in Nat /\ wread' \in Nat
      /\ write_pos' <= read_pos' + Capacity
      /\ wpc' = "reserve" => write_pos' <= wread' + Capacity
      /\ UNCHANGED <<looker, lwrite>> /\ told' = IF write_pos' = write_pos THEN told ELSE 0
  BY Zenon DEF IInv, TypeOK, Positions, FrontsOrdered, LoadedPositions, ViewInv, RingStep
<1>1. CASE WaiterFlag
  BY <1>0, <1>1 DEF ViewInv, WaiterFlag, writerVars
<1>2. CASE looker # "reader" /\ ReaderNext
  <2>1. UNCHANGED <<write_pos, wpc, wread>>
    BY <1>2 DEF ReaderNext, TryRead, ReadAdvance, AdvanceBump, AdvanceNotify, ReaderReattach,
      sharedVars, writerVars
  <2>2. read_pos <= read_pos'
    <3>1. ASSUME NEW n \in 1 .. item_count, ReadAdvance(n) PROVE read_pos <= read_pos'
      <4>1. item_count \in Nat /\ n \in Nat
        BY DivMod DEF item_count
      <4>2. n * ItemSize \in Nat
        BY <4>1
      <4> QED BY <1>0, <3>1, <4>2 DEF ReadAdvance
    <3>2. ASSUME TryRead \/ AdvanceBump \/ AdvanceNotify \/ ReaderReattach
          PROVE  read_pos' = read_pos
      BY <3>2 DEF TryRead, AdvanceBump, AdvanceNotify, ReaderReattach, sharedVars
    <3> QED BY <1>0, <1>2, <3>1, <3>2 DEF ReaderNext
  <2>3. told' = told /\ UNCHANGED <<looker, lwrite, write_pos, wpc, wread>>
    BY <1>0, <2>1
  <2>4. write_pos + told <= read_pos' + Capacity
    <3>1. write_pos + told <= read_pos + Capacity
      BY DEF ViewInv
    <3>2. read_pos \in Nat /\ read_pos' \in Nat /\ write_pos \in Nat /\ told \in Nat
      BY <1>0
    <3>3. write_pos + told \in Nat /\ Capacity \in Nat
      BY <3>2
    <3> QED BY <2>2, <3>1, <3>2, <3>3, RoomStays, Zenon
  <2> QED BY <2>3, <2>4 DEF ViewInv
<1>3. CASE looker # "writer" /\ WriterNext
  <2>1. CASE ReserveSlot
    <3>1. write_pos <= write_pos' /\ wpc' = "idle" /\ UNCHANGED read_pos
      BY <1>0, <2>1 DEF ReserveSlot
    <3>2. told' \in Nat /\ write_pos' + told' <= read_pos' + Capacity
      <4>1. CASE write_pos' = write_pos
        BY <1>0, <3>1, <4>1 DEF ViewInv
      <4>2. CASE write_pos' # write_pos
        <5>1. told' = 0 /\ write_pos' \in Nat /\ write_pos' <= read_pos' + Capacity
          BY <1>0, <4>2, Zenon
        <5> QED BY <5>1
      <4> QED BY <4>1, <4>2
    <3>3. looker' # "nobody" => lwrite' <= write_pos'
      <4>1. looker # "nobody" => lwrite <= write_pos
        BY DEF ViewInv
      <4> QED BY <1>0, <3>1, <4>1
    <3> QED BY <1>0, <1>3, <3>1, <3>2, <3>3, Zenon DEF ViewInv
  <2>2. CASE TryReserve
    <3>1. UNCHANGED <<write_pos, read_pos>> /\ (UNCHANGED <<wpc, wread>> \/ wread' = read_pos)
      BY <2>2 DEF TryReserve, sharedVars
    <3> QED BY <1>0, <1>3, <3>1, Zenon DEF ViewInv
  <2>3. CASE BeginCopy \/ EndCopy \/ Commit \/ CommitBump \/ CommitNotify \/ WriterReattach
    <3>1. UNCHANGED <<write_pos, read_pos, wread>> /\ (wpc' = wpc \/ wpc' # "reserve")
      BY <2>3 DEF BeginCopy, EndCopy, Commit, CommitBump, CommitNotify, WriterReattach, sharedVars
    <3> QED BY <1>0, <1>3, <3>1 DEF ViewInv
  <2> QED BY <1>3, <2>1, <2>2, <2>3 DEF WriterNext
<1> QED BY <1>1, <1>2, <1>3 DEF RingStep

\* ViewInv is preserved, given the invariant of the ring.
LEMMA ViewInvariant ==
  ASSUME IInv, IInv', ViewInv, [ViewNext]_allVars
  PROVE  ViewInv'
<1> USE FixedRingAssumption
<1>0. write_pos \in Nat /\ read_pos \in Nat /\ lwrite \in Nat /\ write_pos <= read_pos + Capacity
  BY DEF IInv, TypeOK, Positions, FrontsOrdered, ViewInv
<1>1. CASE RingStep
  BY <1>1, RingStepView
<1>2. CASE LoadReadPos
  <2>1. /\ looker' = "nobody" /\ lwrite' = 0
        /\ UNCHANGED <<write_pos, read_pos, wpc, wread>>
    BY <1>2 DEF LoadReadPos, vars, sharedVars, writerVars
  <2>2. CASE looker = "writer"
    <3>1. told' = available_bytes(lwrite, read_pos) /\ lwrite = write_pos /\ wpc = "idle"
      BY <1>2, <2>2 DEF LoadReadPos, ViewInv
    <3>2. told' \in Nat /\ write_pos + told' <= read_pos + Capacity
      BY <1>0, <3>1, AvailableFits
    <3> QED BY <2>1, <3>1, <3>2 DEF ViewInv
  <2>3. CASE looker # "writer"
    <3>1. told' = told
      BY <1>2, <2>3 DEF LoadReadPos
    <3> QED BY <2>1, <3>1 DEF ViewInv
  <2> QED BY <2>2, <2>3
<1>3. ASSUME NEW who \in {"writer", "reader", "monitor"}, LoadWritePos(who) PROVE ViewInv'
  BY <1>0, <1>3 DEF LoadWritePos, ViewInv, vars, sharedVars, writerVars
<1>4. CASE UNCHANGED allVars
  BY <1>4 DEF allVars, viewVars, vars, sharedVars, writerVars, ViewInv
<1> QED BY <1>1, <1>2, <1>3, <1>4 DEF ViewNext

\* While anyone asks for the occupancy of a ring in use, what the asker has loaded
\* and what the producer was told stay true of the fronts, in every interleaving.
THEOREM ViewInvariantHolds == ViewSpec => [](IInv /\ ViewInv)
<1>1. ViewInit => ViewInv
  BY FixedRingAssumption DEF ViewInit, ViewInv, Init
<1>2. ViewSpec => []IInv
  BY ViewIsHarmless, InvariantHolds, PTL
<1>3. IInv /\ IInv' /\ ViewInv /\ [ViewNext]_allVars => ViewInv'
  BY ViewInvariant
<1> QED BY <1>1, <1>2, <1>3, PTL DEF ViewSpec

\* If available_bytes reports room for a slot to the producer its next
\* try_reserve is not refused, for every capacity and item size.
THEOREM AvailableCanBeReserved == ViewSpec => []AvailableIsReservable
<1>1. IInv /\ ViewInv => AvailableIsReservable
  <2> SUFFICES ASSUME IInv, ViewInv, told >= ItemSize, wpc = "reserve", write_pos > wread
               PROVE  write_pos % Capacity # wread % Capacity
    BY DEF AvailableIsReservable, RingFull
  <2>1. write_pos \in Nat /\ wread \in Nat /\ write_pos + ItemSize <= wread + Capacity
    BY FixedRingAssumption DEF IInv, TypeOK, Positions, ViewInv
  <2> QED BY <2>1, RoomIsNotFull
<1> QED BY <1>1, ViewInvariantHolds, PTL

\* used_bytes never exceeds what is in use when it returns, for every capacity
\* and item size and whoever asks.
THEOREM UsedIsNeverTooHigh == ViewSpec => UsedNeverTooHigh
<1>1. ASSUME IInv, ViewInv, LoadReadPos
      PROVE  used_bytes(lwrite, read_pos) <= write_pos - read_pos
  <2>1. /\ write_pos \in Nat /\ read_pos \in Nat /\ lwrite \in Nat
        /\ lwrite <= write_pos /\ read_pos <= write_pos /\ write_pos <= read_pos + Capacity
    BY <1>1, FixedRingAssumption
    DEF IInv, TypeOK, Positions, FrontsOrdered, ViewInv, LoadReadPos
  <2> QED BY <2>1, FixedRingAssumption DEF used_bytes
<1> QED BY <1>1, ViewInvariantHolds, PTL DEF UsedNeverTooHigh

-----------------------------------------------------------------------------
(* thread_channel.cpp *)

\* A step inside the producer's wait: backoff.wait compares and sleeps, and changes
\* no word.  The producer is in its wait, enters it, or comes back to its loop.
LEMMA ProducerOnlyLooks ==
  ASSUME DOMAIN pwaiter = {"producer"}, ~PWait!At("producer", "out") => ppc = "wait",
         ProducerSnapshot \/ ProducerWait \/ ProducerClock
         \/ (Interrupt /\ PWait!SpuriousWake("producer") /\ UNCHANGED <<AllButPWait, ppc>>)
  PROVE  /\ UNCHANGED <<vars, producer_done, cwaiter, cpc, drained, mismatch>> /\ DOMAIN pwaiter' = {"producer"}
         /\ ppc \in {"snapshot", "wait"} /\ ppc' \in {"wait", "loop"}
         /\ ppc' = "loop" => PWait!At("producer", "out")'
<1>1. UNCHANGED AllButPWait
  BY DEF ProducerSnapshot, ProducerWait, ProducerClock
<1>2. CASE PWait!BlockStep("producer") /\ UNCHANGED ppc
  <2>1. UNCHANGED read_wake_seq /\ DOMAIN pwaiter' = DOMAIN pwaiter /\ ~PWait!At("producer", "out")
    BY <1>2, Zenon DEF PWait!BlockStep, PWait!FutexAtomicWait, PWait!FutexWaitFor,
      PWait!Win32AtomicWait, PWait!Win32WaitFor, PWait!Win32PollingWait, PWait!DarwinAtomicWait,
      PWait!OsSyncWaitFor, PWait!UlockWaitFor, PWait!PortableWaitFor, PWait!Compare, PWait!CheckDeadline,
      PWait!KernelWait, PWait!SliceEnds, PWait!TimeoutFires, PWait!polling_wait, PWait!atomic_poll,
      PWait!Goto, PWait!Return, PWait!At
  <2> QED BY <1>1, <1>2, <2>1, SMTT(30) DEF AllButPWait, vars, sharedVars
<1>3. CASE PWait!EndWait("producer") /\ ppc' = "loop"
  <2>1. /\ UNCHANGED read_wake_seq /\ pwaiter' = [pwaiter EXCEPT !["producer"] = PWait!NoCall]
        /\ ~PWait!At("producer", "out")
    BY <1>3 DEF PWait!EndWait, PWait!At
  <2>2. DOMAIN pwaiter' = {"producer"} /\ pwaiter'["producer"].pc = "out"
    BY <2>1 DEF PWait!NoCall
  <2> QED BY <1>1, <1>3, <2>1, <2>2 DEF AllButPWait, vars, sharedVars, PWait!At
<1>4. CASE ProducerSnapshot
  BY <1>1, <1>4 DEF ProducerSnapshot, PWait!backoff_wait, PWait!StartWait, AllButPWait, vars, sharedVars
<1>5. CASE (PWait!Expire("producer") \/ PWait!SpuriousWake("producer")) /\ UNCHANGED ppc
  <2>1. UNCHANGED read_wake_seq /\ DOMAIN pwaiter' = DOMAIN pwaiter /\ ~PWait!At("producer", "out")
    BY <1>5 DEF PWait!Expire, PWait!SpuriousWake, PWait!At
  <2> QED BY <1>1, <1>5, <2>1 DEF AllButPWait, vars, sharedVars
<1> QED BY <1>2, <1>3, <1>4, <1>5 DEF ProducerWait, ProducerClock

\* The same for the consumer.
LEMMA ConsumerOnlyLooks ==
  ASSUME DOMAIN cwaiter = {"consumer"}, ~CWait!At("consumer", "out") => cpc = "wait",
         ConsumerSnapshot \/ ConsumerWait \/ ConsumerClock
         \/ (Interrupt /\ CWait!SpuriousWake("consumer") /\ UNCHANGED <<AllButCWait, cpc>>)
  PROVE  /\ UNCHANGED <<vars, drained, mismatch>> /\ DOMAIN cwaiter' = {"consumer"}
         /\ cpc \in {"snapshot", "wait"} /\ cpc' \in {"wait", "loop"}
         /\ cpc' = "loop" => CWait!At("consumer", "out")'
<1>1. UNCHANGED AllButCWait
  BY DEF ConsumerSnapshot, ConsumerWait, ConsumerClock
<1>2. CASE CWait!BlockStep("consumer") /\ UNCHANGED cpc
  <2>1. UNCHANGED commit_seq /\ DOMAIN cwaiter' = DOMAIN cwaiter /\ ~CWait!At("consumer", "out")
    BY <1>2, Zenon DEF CWait!BlockStep, CWait!FutexAtomicWait, CWait!FutexWaitFor,
      CWait!Win32AtomicWait, CWait!Win32WaitFor, CWait!Win32PollingWait, CWait!DarwinAtomicWait,
      CWait!OsSyncWaitFor, CWait!UlockWaitFor, CWait!PortableWaitFor, CWait!Compare, CWait!CheckDeadline,
      CWait!KernelWait, CWait!SliceEnds, CWait!TimeoutFires, CWait!polling_wait, CWait!atomic_poll,
      CWait!Goto, CWait!Return, CWait!At
  <2> QED BY <1>1, <1>2, <2>1, SMTT(30) DEF AllButCWait, vars, sharedVars
<1>3. CASE CWait!EndWait("consumer") /\ cpc' = "loop"
  <2>1. /\ UNCHANGED commit_seq /\ cwaiter' = [cwaiter EXCEPT !["consumer"] = CWait!NoCall]
        /\ ~CWait!At("consumer", "out")
    BY <1>3 DEF CWait!EndWait, CWait!At
  <2>2. DOMAIN cwaiter' = {"consumer"} /\ cwaiter'["consumer"].pc = "out"
    BY <2>1 DEF CWait!NoCall
  <2> QED BY <1>1, <1>3, <2>1, <2>2 DEF AllButCWait, vars, sharedVars, CWait!At
<1>4. CASE ConsumerSnapshot
  BY <1>1, <1>4 DEF ConsumerSnapshot, CWait!backoff_wait, CWait!StartWait, AllButCWait, vars, sharedVars
<1>5. CASE (CWait!Expire("consumer") \/ CWait!SpuriousWake("consumer")) /\ UNCHANGED cpc
  <2>1. UNCHANGED commit_seq /\ DOMAIN cwaiter' = DOMAIN cwaiter /\ ~CWait!At("consumer", "out")
    BY <1>5 DEF CWait!Expire, CWait!SpuriousWake, CWait!At
  <2> QED BY <1>1, <1>5, <2>1 DEF AllButCWait, vars, sharedVars
<1> QED BY <1>2, <1>3, <1>4, <1>5 DEF ConsumerWait, ConsumerClock

\* The threads do to the ring what its interface allows, and neither dies.
LEMMA ThreadsAreRingSteps ==
  ASSUME ThreadInv, [ChannelNext]_channelVars
  PROVE  [Next]_vars /\ abandoned' = abandoned
<1>1. CASE \/ ProducerSnapshot \/ ProducerWait \/ ProducerClock
           \/ ConsumerSnapshot \/ ConsumerWait \/ ConsumerClock \/ Interrupt
  <2>1. UNCHANGED vars
    BY <1>1, ProducerOnlyLooks, ConsumerOnlyLooks DEF Interrupt, ThreadInv, ReadBook, DoneBook
  <2> QED BY <2>1 DEF vars, writerVars
<1>2. CASE ProducerReserve \/ ProducerReserved \/ ProducerFill \/ ProducerBump \/ ProducerNotify
  <2>1. TryReserve \/ ReserveSlot \/ BeginCopy \/ EndCopy \/ Commit \/ CommitBump \/ CommitNotify
    BY <1>2 DEF ProducerReserve, ProducerReserved, ProducerFill, ProducerBump, ProducerNotify
  <2>2. abandoned' = abandoned
    BY <2>1 DEF TryReserve, ReserveSlot, BeginCopy, EndCopy, Commit, CommitBump, CommitNotify
  <2> QED BY <2>1, <2>2 DEF Next, WriterNext
<1>3. CASE ConsumerRead \/ ConsumerAdvance \/ ConsumerBump \/ ConsumerNotify
  <2>1. 1 \in 1 .. item_count
    <3>1. Capacity = ItemSize * (Capacity \div ItemSize) /\ Capacity \div ItemSize \in Nat
      BY DivMultiple, FixedRingAssumption
    <3>2. Capacity \div ItemSize # 0
      <4>1. ItemSize * 0 = 0
        BY FixedRingAssumption
      <4> QED BY <3>1, <4>1, FixedRingAssumption
    <3> QED BY <3>1, <3>2 DEF item_count
  <2>2. TryRead \/ (\E n \in 1 .. item_count : ReadAdvance(n)) \/ AdvanceBump \/ AdvanceNotify
    BY <1>3, <2>1 DEF ConsumerRead, ConsumerAdvance, ConsumerBump, ConsumerNotify
  <2>3. abandoned' = abandoned
    BY <2>2 DEF TryRead, ReadAdvance, AdvanceBump, AdvanceNotify, writerVars
  <2> QED BY <2>2, <2>3 DEF Next, ReaderNext
<1>4. CASE ProducerDone \/ ConsumerLook \/ ConsumerCheckDone \/ Joined \/ UNCHANGED channelVars
  BY <1>4 DEF ProducerDone, ConsumerLook, ConsumerCheckDone, Joined, channelVars, vars, writerVars
<1> QED BY <1>1, <1>2, <1>3, <1>4 DEF ChannelNext, ProducerStep, ConsumerStep

\* What the consumer looks at is the frame its count stands for.
LEMMA FrameIsCurrent ==
  ASSUME ThreadInv, cpc = "view"
  PROVE  MessageAt(read_pos) = drained
<1>1. /\ read_pos \in Nat /\ commit_pos \in Nat /\ read_pos < commit_pos /\ read_pos % ItemSize = 0
      /\ ItemSize \in Nat \ {0} /\ Junk \notin Nat /\ drained \in Nat /\ read_pos = ItemSize * drained
  BY FixedRingAssumption DEF ThreadInv, ReadBook, IInv, TypeOK, Positions, OnSlotBoundary, LoadedPositions
<1>2. read_pos \in Unread
  BY <1>1 DEF Unread
<1>3. data[read_pos % Capacity] = read_pos
  BY <1>2 DEF ThreadInv, IInv, CommittedIntact, NothingAbandoned
<1>4. read_pos \div ItemSize = drained
  BY <1>1, FactorUnique
<1> QED BY <1>1, <1>3, <1>4 DEF MessageAt

\* A producer that is done makes no further call, and only a producer outside of
\* the ring's calls gets done.
LEMMA DoneStays ==
  ASSUME DoneBook, [ChannelNext]_channelVars
  PROVE  DoneBook' /\ (producer_done => UNCHANGED <<producer_done, commit_pos, ppc, wpc>>)
<1>0. /\ producer_done => ppc = "done"
      /\ wpc # "idle" => ppc = "loop"
      /\ DOMAIN pwaiter = {"producer"} /\ (~PWait!At("producer", "out") => ppc = "wait")
  BY Zenon DEF DoneBook
<1>1. CASE ProducerDone
  BY <1>0, <1>1, Zenon DEF ProducerDone, DoneBook, PWait!At, vars, sharedVars, writerVars, Waits
<1>2. CASE ProducerReserve \/ ProducerReserved \/ ProducerFill \/ ProducerBump \/ ProducerNotify
  <2>1. UNCHANGED <<producer_done, pwaiter>> /\ ppc \in {"loop", "fill"}
    BY <1>0, <1>2 DEF ProducerReserve, ProducerReserved, ProducerFill, ProducerBump, ProducerNotify,
      ReserveSlot, CommitBump, CommitNotify, clientVars, Waits
  <2>2. wpc' # "idle" => ppc' = "loop"
    <3>1. CASE ProducerFill
      BY <3>1 DEF ProducerFill, BeginCopy, EndCopy, Commit
    <3>2. CASE ProducerReserve \/ ProducerReserved
      BY <3>2 DEF ProducerReserve, ProducerReserved, ReserveSlot, clientVars
    <3>3. CASE ProducerBump \/ ProducerNotify
      BY <1>0, <3>3 DEF ProducerBump, ProducerNotify, CommitBump, CommitNotify, clientVars
    <3> QED BY <1>2, <3>1, <3>2, <3>3
  <2> QED BY <1>0, <2>1, <2>2 DEF DoneBook, PWait!At
<1>3. CASE \/ ProducerSnapshot \/ ProducerWait \/ ProducerClock
           \/ Interrupt /\ PWait!SpuriousWake("producer") /\ UNCHANGED <<AllButPWait, ppc>>
  <2>1. /\ UNCHANGED <<producer_done, vars>> /\ DOMAIN pwaiter' = {"producer"}
        /\ ppc \in {"snapshot", "wait"} /\ ppc' \in {"wait", "loop"}
        /\ ppc' = "loop" => PWait!At("producer", "out")'
    BY <1>0, <1>3, ProducerOnlyLooks
  <2> QED BY <1>0, <2>1 DEF DoneBook, vars, writerVars
<1>4. CASE ConsumerNotify
  <2>1. /\ UNCHANGED <<producer_done, commit_pos, ppc, wpc>> /\ PWait!atomic_notify_all
    BY <1>4 DEF ConsumerNotify, AdvanceNotify, sharedVars, writerVars, clientVars
  <2>2. PICK woken : pwaiter' = [w \in {"producer"} |-> IF w \in woken THEN PWait!Woken(pwaiter[w])
                                                        ELSE pwaiter[w]]
                     /\ woken \subseteq PWait!Sleepers
    BY <2>1 DEF PWait!atomic_notify_all, PWait!Notify, PWait!FutexNotify, PWait!Win32Notify,
      PWait!DarwinNotify
  <2>3. DOMAIN pwaiter' = {"producer"} /\ (PWait!At("producer", "out") => PWait!At("producer", "out")')
    BY <2>2 DEF PWait!Sleepers, PWait!At
  <2> QED BY <1>0, <2>1, <2>3 DEF DoneBook
<1>5. CASE \/ ConsumerRead \/ ConsumerLook \/ ConsumerAdvance \/ ConsumerBump \/ ConsumerCheckDone
           \/ ConsumerSnapshot \/ ConsumerWait \/ ConsumerClock
           \/ Interrupt /\ CWait!SpuriousWake("consumer") /\ UNCHANGED <<AllButCWait, cpc>>
           \/ Joined \/ UNCHANGED channelVars
  <2>1. UNCHANGED <<producer_done, commit_pos, ppc, wpc, pwaiter>>
    BY <1>5, Zenon DEF ConsumerRead, ConsumerLook, ConsumerAdvance, ConsumerBump, ConsumerCheckDone,
      ConsumerSnapshot, ConsumerWait, ConsumerClock, Joined, TryRead, ReadAdvance, AdvanceBump,
      AllButCWait, Waits, clientVars, channelVars, vars, sharedVars, writerVars
  <2> QED BY <1>0, <2>1 DEF DoneBook, PWait!At
<1> QED BY <1>1, <1>2, <1>3, <1>4, <1>5, SMTT(30)
  DEF ChannelNext, ProducerStep, ConsumerStep, Interrupt

\* The steps of the two threads keep the count.
LEMMA ThreadStepKeepsInv ==
  ASSUME ThreadInv, [ChannelNext]_channelVars
  PROVE  ThreadInv'
<1>0. /\ read_pos \in Nat /\ ItemSize \in Nat \ {0} /\ drained \in Nat
      /\ DOMAIN pwaiter = {"producer"} /\ (~PWait!At("producer", "out") => ppc = "wait")
      /\ DOMAIN cwaiter = {"consumer"} /\ (~CWait!At("consumer", "out") => cpc = "wait")
      /\ ReadBook /\ TagsMatch
  BY FixedRingAssumption DEF ThreadInv, ReadBook, DoneBook, IInv, TypeOK, Positions
<1>1. IInv' /\ NothingAbandoned'
  <2>1. [Next]_vars /\ abandoned' = abandoned
    BY ThreadsAreRingSteps
  <2> QED BY <2>1, NextInvariant DEF ThreadInv, NothingAbandoned
<1>2. ReadBook' /\ TagsMatch'
  <2>1. CASE \/ UNCHANGED <<read_pos, rpc, cwaiter, cpc, drained, mismatch>>
    BY <1>0, <2>1, SMTT(30) DEF ReadBook, TagsMatch, CWait!At
  <2>2. CASE \/ ProducerReserve \/ ProducerReserved \/ ProducerFill \/ ProducerBump \/ ProducerDone
             \/ Joined \/ UNCHANGED channelVars
    BY <2>1, <2>2, Zenon DEF ProducerReserve, ProducerReserved, ProducerFill, ProducerBump, ProducerDone, Joined,
      TryReserve, ReserveSlot, BeginCopy, EndCopy, Commit, CommitBump, sharedVars, readerVars, Waits,
      clientVars, channelVars, vars
  <2>3. CASE \/ ProducerSnapshot \/ ProducerWait \/ ProducerClock
             \/ Interrupt /\ PWait!SpuriousWake("producer") /\ UNCHANGED <<AllButPWait, ppc>>
    BY <1>0, <2>1, <2>3, ProducerOnlyLooks DEF vars, sharedVars, readerVars
  <2>4. CASE \/ ConsumerSnapshot \/ ConsumerWait \/ ConsumerClock
             \/ Interrupt /\ CWait!SpuriousWake("consumer") /\ UNCHANGED <<AllButCWait, cpc>>
    <3>1. /\ UNCHANGED <<vars, drained, mismatch>> /\ DOMAIN cwaiter' = {"consumer"}
          /\ cpc \in {"snapshot", "wait"} /\ cpc' \in {"wait", "loop"}
          /\ cpc' = "loop" => CWait!At("consumer", "out")'
      BY <1>0, <2>4, ConsumerOnlyLooks
    <3>2. UNCHANGED <<read_pos, rpc, drained, mismatch>>
      BY <3>1 DEF vars, sharedVars, readerVars
    <3> QED BY <1>0, <3>1, <3>2 DEF ReadBook, TagsMatch
  <2>5. CASE ProducerNotify
    <3>1. /\ UNCHANGED <<read_pos, rpc, cpc, drained, mismatch>> /\ CWait!atomic_notify_all
      BY <2>5 DEF ProducerNotify, CommitNotify, sharedVars, readerVars, clientVars
    <3>2. PICK woken : cwaiter' = [w \in {"consumer"} |-> IF w \in woken THEN CWait!Woken(cwaiter[w])
                                                          ELSE cwaiter[w]]
                       /\ woken \subseteq CWait!Sleepers
      BY <3>1 DEF CWait!atomic_notify_all, CWait!Notify, CWait!FutexNotify, CWait!Win32Notify,
        CWait!DarwinNotify
    <3>3. DOMAIN cwaiter' = {"consumer"} /\ (CWait!At("consumer", "out") => CWait!At("consumer", "out")')
      BY <3>2 DEF CWait!Sleepers, CWait!At
    <3> QED BY <1>0, <3>1, <3>3 DEF ReadBook, TagsMatch
  <2>6. CASE ConsumerRead
    BY <1>0, <2>6 DEF ConsumerRead, TryRead, sharedVars, Waits, ReadBook, TagsMatch, CWait!At
  <2>7. CASE ConsumerLook
    <3>1. /\ UNCHANGED <<read_pos, rpc, cwaiter>> /\ cpc = "view" /\ cpc' = "advance"
          /\ drained' = drained + 1
          /\ mismatch' = (mismatch \/ MessageAt(read_pos) # drained)
      BY <2>7 DEF ConsumerLook, vars, sharedVars, readerVars, Waits
    <3>2. ~mismatch'
      BY <1>0, <3>1, FrameIsCurrent, Zenon DEF TagsMatch
    <3>3. ItemSize * (drained + 1) = ItemSize * drained + ItemSize
      BY <1>0
    <3> QED BY <1>0, <3>1, <3>2, <3>3 DEF ReadBook, TagsMatch, CWait!At
  <2>8. CASE ConsumerAdvance
    <3>1. /\ UNCHANGED <<cwaiter, drained, mismatch>> /\ cpc = "advance" /\ cpc' = "loop"
          /\ read_pos' = read_pos + ItemSize /\ rpc' = "bump"
      BY <1>0, <2>8 DEF ConsumerAdvance, ReadAdvance, Waits
    <3> QED BY <1>0, <3>1 DEF ReadBook, TagsMatch, CWait!At
  <2>9. CASE ConsumerBump \/ ConsumerNotify
    <3>1. /\ UNCHANGED <<read_pos, cwaiter, cpc, drained, mismatch>> /\ rpc # "view" /\ rpc' # "view"
      BY <2>9 DEF ConsumerBump, ConsumerNotify, AdvanceBump, AdvanceNotify, sharedVars, Waits, clientVars
    <3> QED BY <1>0, <3>1 DEF ReadBook, TagsMatch, CWait!At
  <2>10. CASE ConsumerCheckDone
    <3>1. /\ UNCHANGED <<read_pos, rpc, cwaiter, drained, mismatch>> /\ cpc = "empty"
          /\ cpc' \in {"exit", "snapshot"}
      BY <2>10 DEF ConsumerCheckDone, vars, sharedVars, readerVars, Waits
    <3> QED BY <1>0, <3>1 DEF ReadBook, TagsMatch, CWait!At
  <2> QED BY <2>2, <2>3, <2>4, <2>5, <2>6, <2>7, <2>8, <2>9, <2>10, SMTT(30)
    DEF ChannelNext, ProducerStep, ConsumerStep, Interrupt
<1>3. DoneBook'
  BY DoneStays DEF ThreadInv
<1> QED BY <1>1, <1>2, <1>3 DEF ThreadInv

\* In every reachable state the consumer's count agrees with read_pos.
THEOREM ThreadInvariantHolds == ChannelSpec => []ThreadInv
<1>1. ChannelInit => ThreadInv
  <2> SUFFICES ASSUME ChannelInit PROVE ThreadInv
    OBVIOUS
  <2>1. IInv /\ NothingAbandoned
    BY InitInvariant DEF ChannelInit, Init, NothingAbandoned
  <2>2. /\ read_pos = 0 /\ rpc = "idle" /\ cpc = "loop" /\ drained = 0 /\ mismatch = FALSE
        /\ cwaiter = [w \in {"consumer"} |-> CWait!NoCall]
    BY DEF ChannelInit, Init
  <2>3. DOMAIN cwaiter = {"consumer"} /\ CWait!At("consumer", "out") /\ ItemSize * 0 = 0
    BY <2>2, FixedRingAssumption DEF CWait!At, CWait!NoCall
  <2>4. DoneBook
    BY DEF ChannelInit, Init, DoneBook, PWait!At, PWait!NoCall
  <2> QED BY <2>1, <2>2, <2>3, <2>4 DEF ThreadInv, ReadBook, TagsMatch
<1>2. ThreadInv /\ [ChannelNext]_channelVars => ThreadInv'
  BY ThreadStepKeepsInv
<1> QED BY <1>1, <1>2, PTL DEF ChannelSpec

\* "<-- MISMATCH" is never printed: the consumer of thread_channel.cpp finds every
\* frame complete and in order, for every capacity, frame size and length of the
\* stream, however often the sequence wraps and on every wait backend.
THEOREM FramesMatch == ChannelSpec => []TagsMatch
<1>1. ThreadInv => TagsMatch
  BY DEF ThreadInv
<1> QED BY <1>1, ThreadInvariantHolds, PTL

\* A consumer that reads on after the producer is done leaves an empty ring
\* behind, whatever the geometry: it leaves only after a try_read that found
\* nothing, and nothing is committed any more.
THEOREM LeavesNothingBehind == ChannelSpec => DrainedIfDoneFirst
<1> DEFINE Late == producer_done /\ (cpc \in {"empty", "exit"} => read_pos = commit_pos)
<1>1. producer_done /\ cpc = "loop" => Late
  OBVIOUS
<1>2. Late => (cpc = "exit" => read_pos = commit_pos)
  OBVIOUS
<1>3. ThreadInv /\ Late /\ [ChannelNext]_channelVars => Late'
  <2> SUFFICES ASSUME ThreadInv, Late, [ChannelNext]_channelVars
               PROVE  Late'
    OBVIOUS
  <2>1. producer_done' /\ UNCHANGED commit_pos
    BY DoneStays, Zenon DEF ThreadInv
  <2>2. cpc' \in {"empty", "exit"} => read_pos' = commit_pos
    <3>1. CASE ConsumerRead
      <4>1. read_pos \in Nat /\ commit_pos \in Nat /\ read_pos <= commit_pos
        BY DEF ThreadInv, IInv, TypeOK, Positions, FrontsOrdered
      <4>2. UNCHANGED read_pos /\ (cpc' # "view" => commit_pos <= read_pos)
        BY <3>1 DEF ConsumerRead, TryRead, sharedVars
      <4>3. cpc' # "view" => read_pos' = commit_pos
        BY <4>1, <4>2
      <4> QED BY <4>3
    <3>2. CASE ConsumerLook \/ ConsumerAdvance
      BY <3>2, Zenon DEF ConsumerLook, ConsumerAdvance
    <3>3. CASE ConsumerCheckDone
      BY <3>3 DEF ConsumerCheckDone, vars, sharedVars
    <3>4. CASE \/ ConsumerSnapshot \/ ConsumerWait \/ ConsumerClock
               \/ Interrupt /\ CWait!SpuriousWake("consumer") /\ UNCHANGED <<AllButCWait, cpc>>
      <4>1. cpc' \in {"wait", "loop"}
        BY <3>4, ConsumerOnlyLooks DEF ThreadInv, ReadBook
      <4> QED BY <4>1
    <3>5. CASE \/ ProducerStep \/ ProducerClock \/ ConsumerBump \/ ConsumerNotify \/ Joined
               \/ Interrupt /\ PWait!SpuriousWake("producer") /\ UNCHANGED <<AllButPWait, ppc>>
               \/ UNCHANGED channelVars
      <4>1. UNCHANGED <<read_pos, cpc>>
        BY <3>5, Zenon DEF ProducerStep, ProducerReserve, ProducerReserved, ProducerFill, ProducerBump,
          ProducerNotify, ProducerSnapshot, ProducerWait, ProducerDone, ProducerClock, ConsumerBump,
          ConsumerNotify, Joined, TryReserve, ReserveSlot, BeginCopy, EndCopy, Commit, CommitBump,
          CommitNotify, AdvanceBump, AdvanceNotify, AllButPWait, clientVars, channelVars, vars, sharedVars
      <4> QED BY <4>1
    <3> QED BY <3>1, <3>2, <3>3, <3>4, <3>5, SMTT(30) DEF ChannelNext, ConsumerStep, Interrupt
  <2> QED BY <2>1, <2>2
<1> QED BY <1>1, <1>2, <1>3, ThreadInvariantHolds, PTL DEF ChannelSpec, DrainedIfDoneFirst

\* So the two threads use the ring as a FIFO queue.
THEOREM ThreadsAreFifo == ChannelSpec => ImplementsFifo
<1>1. ChannelInit => Init
  BY DEF ChannelInit
<1>2. ThreadInv /\ [ChannelNext]_channelVars => [Next]_vars
  BY ThreadsAreRingSteps
<1>3. ThreadInv => NothingAbandoned
  BY DEF ThreadInv
<1> QED BY <1>1, <1>2, <1>3, ThreadInvariantHolds, RingIsFifo, PTL DEF ChannelSpec, Spec

=============================================================================

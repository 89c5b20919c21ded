---------------------------- MODULE NotifyProofs ----------------------------
(***************************************************************************)
(* wait_on_notify_word(_for) loses no wakeup, and what it returns is true: *)
(* proved for every width of the sequence and every wait backend, for      *)
(* behaviours with fewer bumps than the sequence has values; the first for *)
(* the one waiter that each of the two words has in a single-producer      *)
(* single-consumer ring, the second for any number of waiters.             *)
(***************************************************************************)
EXTENDS NotifySystem, NotifyBitsProofs

OneWaiter == \A v, w \in Waiters : v = w
FewBumps == MaxBumps < SeqMod

\* The sequence tells apart the states between bumps.
LEMMA SeqAtInjective ==
  ASSUME FewBumps, NEW a \in 0 .. MaxBumps, NEW b \in 0 .. MaxBumps, SeqAt(a) = SeqAt(b)
  PROVE  a = b
<1> USE SeqModAssumption, NotifySystemAssumption
<1>1. InitSeq \in Nat /\ MaxBumps \in Nat /\ SeqMod \in Nat \ {0}
  OBVIOUS
<1> DEFINE x == InitSeq + a  y == InitSeq + b
<1>2. x \in Nat /\ y \in Nat /\ x % SeqMod = y % SeqMod
      /\ x < y + SeqMod /\ y < x + SeqMod
  BY <1>1 DEF SeqAt, FewBumps
<1>3. x = y
  <2> HIDE DEF x, y
  <2>1. CASE x <= y
    BY <1>1, <1>2, <2>1, ModInjective, Zenon
  <2>2. CASE y <= x
    BY <1>1, <1>2, <2>2, ModInjective, Zenon
  <2> QED BY <1>2, <2>1, <2>2
<1> QED BY <1>1, <1>3

\* One more bump is one more in the sequence.
LEMMA SeqAtStep ==
  ASSUME NEW n \in Nat
  PROVE  SeqAt(n + 1) = (SeqAt(n) + 1) % SeqMod
<1>1. InitSeq + n \in Nat /\ SeqMod \in Nat \ {0} /\ InitSeq + (n + 1) = (InitSeq + n) + 1
  BY SeqModAssumption, NotifySystemAssumption
<1> DEFINE a == InitSeq + n
<1>2. (a + 1) % SeqMod = ((a % SeqMod) + 1) % SeqMod
  <2> HIDE DEF a
  <2> QED BY <1>1, ModPlusOne DEF a
<1> QED BY <1>1, <1>2 DEF SeqAt

\* Bumps stays within its bound.
LEMMA BumpsBound ==
  ASSUME TypeOK, SeqCounts
  PROVE  Bumps \in 0 .. MaxBumps /\ published \in Nat /\ MaxBumps \in Nat
  BY NotifySystemAssumption DEF TypeOK, SeqCounts, Bumps

\* A thread whose mark is the word as it is now is seen by the next bump, and
\* if no bump is due its predicate still holds.
LEMMA MarkIsCurrent ==
  ASSUME WakeupInv, FewBumps, NEW w \in Waiters,
         waiter[w].pc \in Rechecked, word = waiter[w].marked
  PROVE  HasWaiter(word) /\ (bpc # "bump" => Pred(w))
<1>1. PICK k \in 0 .. Bumps : MarkedAt(w, k)
  BY DEF WakeupInv, MarkBook
<1>2. word \in NotifyWords /\ Bumps \in 0 .. MaxBumps /\ MaxBumps \in Nat
  BY BumpsBound DEF WakeupInv, TypeOK, TypeOKWait
<1>3. k = Bumps
  <2>1. SeqAt(k) = SeqAt(Bumps)
    BY <1>1 DEF MarkedAt, WakeupInv, SeqCounts
  <2> QED BY <1>2, <2>1, SeqAtInjective
<1>4. word = SetWaiter(word)
  BY <1>1, <1>3 DEF MarkedAt
<1>5. HasWaiter(word)
  BY <1>2, <1>4, FlagKeepsSeq
<1>6. ASSUME bpc # "bump" PROVE Pred(w)
  <2>1. Bumps = published
    BY <1>6 DEF Bumps
  <2>2. CASE want[w].kind = "seq"
    <3>1. PICK r \in k .. Bumps : want[w].val = SeqAt(r)
      BY <1>1, <2>2 DEF MarkedAt
    <3>2. want[w].val = SeqAt(Bumps)
      BY <1>2, <1>3, <3>1
    <3> QED BY <2>2, <3>2 DEF Pred, WakeupInv, SeqCounts
  <2>3. CASE want[w].kind # "seq"
    <3>1. want[w].val > published
      BY <1>1, <1>3, <2>1, <2>3 DEF MarkedAt
    <3>2. want[w].val \in Nat /\ published \in Nat
      BY NotifySystemAssumption DEF WakeupInv, TypeOK
    <3> QED BY <2>3, <3>1, <3>2 DEF Pred
  <2> QED BY <2>2, <2>3
<1> QED BY <1>5, <1>6

\* The invariant does rule out a lost wakeup.
LEMMA InvariantSuffices == FewBumps /\ WakeupInv => NoLostWakeup
<1> SUFFICES ASSUME FewBumps, WakeupInv, NEW w \in Waiters, At(w, "asleep"), ~Pred(w),
                    bpc # "notify", backend # "ulock"
             PROVE  bpc = "bump" /\ HasWaiter(word)
  BY DEF NoLostWakeup
<1>1. word = waiter[w].marked
  BY DEF WakeupInv, SleepBook
<1>2. waiter[w].pc \in Rechecked
  BY DEF At, Rechecked
<1> QED BY <1>1, <1>2, MarkIsCurrent

-----------------------------------------------------------------------------
\* A step of the thread w that touches neither the word nor its mark, and enters
\* the kernel's queue only if the word is still the marked one.
QuietStep(w) ==
  /\ UNCHANGED <<word, backend, published, bpc, want>>
  /\ waiter' \in [Waiters -> WaiterStates]
  /\ \A v \in Waiters \ {w} : waiter'[v] = waiter[v]
  /\ waiter'[w].marked = waiter[w].marked
  /\ waiter'[w].pc \in Rechecked => waiter[w].pc \in Rechecked
  /\ waiter'[w].pc = "recheck" => waiter[w].pc = "recheck"
  /\ waiter'[w].pc = "asleep" =>
       \/ waiter[w].pc = "asleep"
       \/ word = waiter[w].marked /\ backend \in {"futex", "win32", "os_sync", "ulock"}

\* The invariant is about the word and the marks: quiet steps keep it.
LEMMA QuietInvariant ==
  ASSUME WakeupInv, NEW w \in Waiters, QuietStep(w)
  PROVE  WakeupInv'
<1>1. UNCHANGED <<word, backend, published, bpc, want>> /\ Bumps' = Bumps
  BY DEF QuietStep, Bumps
<1>2. TypeOK' /\ SeqCounts'
  BY <1>1 DEF WakeupInv, TypeOK, TypeOKWait, SeqCounts, QuietStep
<1>3. MarkBook'
  <2> SUFFICES ASSUME NEW v \in Waiters, waiter'[v].pc \in Rechecked \cup {"recheck"}
               PROVE  waiter'[v].marked \in NotifyWords /\ \E k \in 0 .. Bumps : MarkedAt(v, k)'
    BY <1>1 DEF MarkBook
  <2>1. /\ waiter'[v].marked = waiter[v].marked
        /\ waiter'[v].pc \in Rechecked => waiter[v].pc \in Rechecked
        /\ waiter[v].pc \in Rechecked \cup {"recheck"}
    BY DEF QuietStep
  <2>2. PICK k \in 0 .. Bumps : MarkedAt(v, k)
    BY <2>1 DEF WakeupInv, MarkBook
  <2>3. MarkedAt(v, k)'
    BY <1>1, <2>1, <2>2 DEF MarkedAt
  <2>4. waiter[v].marked \in NotifyWords
    BY <2>1 DEF WakeupInv, MarkBook
  <2> QED BY <2>1, <2>2, <2>3, <2>4
<1>4. SleepBook'
  <2> SUFFICES ASSUME NEW v \in Waiters, waiter'[v].pc = "asleep"
               PROVE  /\ backend \in {"futex", "win32", "os_sync", "ulock"}
                      /\ backend = "ulock" \/ bpc = "notify" \/ word = waiter'[v].marked
    BY <1>1 DEF SleepBook, At
  <2>1. CASE v = w
    BY <2>1 DEF QuietStep, WakeupInv, SleepBook, At
  <2>2. CASE v # w
    BY <2>2 DEF QuietStep, WakeupInv, SleepBook, At
  <2> QED BY <2>1, <2>2
<1> QED BY <1>2, <1>3, <1>4 DEF WakeupInv

\* Moving within a call keeps the record's type.
LEMMA MoveTypes ==
  ASSUME waiter \in [Waiters -> WaiterStates], NEW w \in Waiters,
         NEW pc \in WaitPC, NEW ok \in BOOLEAN
  PROVE  /\ [waiter EXCEPT ![w].pc = pc] \in [Waiters -> WaiterStates]
         /\ [waiter EXCEPT ![w].pc = pc, ![w].result = ok] \in [Waiters -> WaiterStates]
  BY ZenonT(40) DEF WaiterStates

\* Goto and Return are quiet, unless they enter what has to be earned.
LEMMA GotoIsQuiet ==
  ASSUME waiter \in [Waiters -> WaiterStates], NEW w \in Waiters, NEW pc \in WaitPC,
         Goto(w, pc), UNCHANGED <<published, bpc, want>>,
         pc # "asleep", pc # "recheck", pc \in Rechecked => waiter[w].pc \in Rechecked
  PROVE  QuietStep(w) /\ waiter'[w].pc = pc
<1>1. waiter' = [waiter EXCEPT ![w].pc = pc] /\ UNCHANGED <<word, backend>>
  BY DEF Goto
<1>2. waiter' \in [Waiters -> WaiterStates]
  <2>1. TRUE \in BOOLEAN
    BY Zenon
  <2> QED BY <1>1, <2>1, MoveTypes, Zenon
<1>3. waiter'[w].pc = pc /\ waiter'[w].marked = waiter[w].marked
      /\ \A v \in Waiters \ {w} : waiter'[v] = waiter[v]
  BY <1>1 DEF WaiterStates
<1> QED BY <1>1, <1>2, <1>3 DEF QuietStep

\* Returning from atomic_wait_for, likewise.
LEMMA ReturnIsQuiet ==
  ASSUME waiter \in [Waiters -> WaiterStates], NEW w \in Waiters, NEW ok \in BOOLEAN,
         Return(w, ok), UNCHANGED <<published, bpc, want>>
  PROVE  QuietStep(w) /\ waiter'[w].pc \in BlockPC
<1>1. waiter' = [waiter EXCEPT ![w].pc = "back", ![w].result = ok] /\ UNCHANGED <<word, backend>>
  BY DEF Return
<1>2. waiter' \in [Waiters -> WaiterStates]
  BY <1>1, MoveTypes, Zenon DEF WaitPC, BlockPC
<1>3. waiter'[w].pc = "back" /\ waiter'[w].marked = waiter[w].marked
      /\ \A v \in Waiters \ {w} : waiter'[v] = waiter[v]
  BY <1>1 DEF WaiterStates
<1> QED BY <1>1, <1>2, <1>3 DEF QuietStep, Rechecked, BlockPC

\* What the kernel makes of a call it ends.
LEMMA WokenShape ==
  ASSUME NEW call \in WaiterStates, call.call = "wait_for"
  PROVE  /\ Woken(call) \in WaiterStates /\ Woken(call).marked = call.marked
         /\ Woken(call).pc \in {"back", "load"}
<1>1. CASE backend = "futex"
  BY <1>1, Zenon DEF Woken, WaiterStates, WaitPC, BlockPC
<1>2. CASE backend # "futex"
  BY <1>2 DEF Woken, WaiterStates, WaitPC, BlockPC
<1> QED BY <1>1, <1>2

\* A sleep that ends for no reason.
LEMMA SpuriousIsQuiet ==
  ASSUME waiter \in [Waiters -> WaiterStates], NEW w \in Waiters,
         SpuriousWake(w), UNCHANGED <<published, bpc, want>>
  PROVE  QuietStep(w) /\ waiter'[w].pc \in BlockPC
<1>1. waiter' = [waiter EXCEPT ![w] = Woken(waiter[w])] /\ UNCHANGED <<word, backend>>
      /\ waiter[w].pc = "asleep"
  BY DEF SpuriousWake, At
<1>2. /\ Woken(waiter[w]) \in WaiterStates /\ Woken(waiter[w]).marked = waiter[w].marked
      /\ Woken(waiter[w]).pc \in {"back", "load"}
  BY WokenShape DEF WaiterStates
<1> QED BY <1>1, <1>2 DEF QuietStep, Rechecked, BlockPC

\* A deadline that passes.
LEMMA ExpireIsQuiet ==
  ASSUME waiter \in [Waiters -> WaiterStates], NEW w \in Waiters,
         Expire(w), UNCHANGED <<published, bpc, want>>
  PROVE  QuietStep(w)
<1>1. waiter' = [waiter EXCEPT ![w].expired = TRUE] /\ UNCHANGED <<word, backend>>
  BY DEF Expire
<1>2. waiter' \in [Waiters -> WaiterStates]
  BY <1>1, ZenonT(40) DEF WaiterStates
<1>3. waiter'[w].pc = waiter[w].pc /\ waiter'[w].marked = waiter[w].marked
      /\ \A v \in Waiters \ {w} : waiter'[v] = waiter[v]
  BY <1>1 DEF WaiterStates
<1> QED BY <1>1, <1>2, <1>3 DEF QuietStep

\* Entering the kernel: the comparison and the queueing are one step.
LEMMA KernelIsQuiet ==
  ASSUME waiter \in [Waiters -> WaiterStates], NEW w \in Waiters,
         backend \in {"futex", "win32", "os_sync", "ulock"},
         KernelWait(w), UNCHANGED <<published, bpc, want>>
  PROVE  QuietStep(w) /\ waiter'[w].pc \in BlockPC
<1>1. /\ waiter[w].pc = "block" /\ UNCHANGED <<word, backend>>
      /\ waiter' = [waiter EXCEPT ![w] = IF word = waiter[w].marked
                                         THEN [waiter[w] EXCEPT !.pc = "asleep"]
                                         ELSE Woken(waiter[w])]
  BY DEF KernelWait, At
<1>2. CASE word = waiter[w].marked
  <2> DEFINE q == [waiter[w] EXCEPT !.pc = "asleep"]
  <2>1. q \in WaiterStates /\ q.marked = waiter[w].marked /\ q.pc = "asleep"
    BY DEF WaiterStates, WaitPC, BlockPC
  <2>2. waiter' = [waiter EXCEPT ![w] = q]
    BY <1>1, <1>2
  <2> HIDE DEF q
  <2> QED BY <1>1, <1>2, <2>1, <2>2 DEF QuietStep, Rechecked, BlockPC
<1>3. CASE word # waiter[w].marked
  <2>1. /\ Woken(waiter[w]) \in WaiterStates /\ Woken(waiter[w]).marked = waiter[w].marked
        /\ Woken(waiter[w]).pc \in {"back", "load"}
    BY WokenShape DEF WaiterStates
  <2>2. waiter' = [waiter EXCEPT ![w] = Woken(waiter[w])]
    BY <1>1, <1>3
  <2> QED BY <1>1, <2>1, <2>2 DEF QuietStep, Rechecked, BlockPC
<1> QED BY <1>2, <1>3

\* The comparisons and the clock tests of the backends.
LEMMA TestsAreQuiet ==
  ASSUME waiter \in [Waiters -> WaiterStates], NEW w \in Waiters,
         NEW pc \in {"deadline", "block", "poll"},
         Compare(w, pc) \/ CheckDeadline(w, pc), UNCHANGED <<published, bpc, want>>
  PROVE  QuietStep(w) /\ waiter'[w].pc \in BlockPC
<1>1. waiter[w].pc \in Rechecked
  BY Zenon DEF Compare, CheckDeadline, At, Rechecked
<1>2. Goto(w, pc) \/ Return(w, TRUE) \/ Return(w, FALSE)
  BY Zenon DEF Compare, CheckDeadline
<1>3. pc \in WaitPC /\ pc \in BlockPC /\ pc # "asleep" /\ pc # "recheck"
  BY DEF WaitPC, BlockPC
<1> QED BY <1>1, <1>2, <1>3, GotoIsQuiet, ReturnIsQuiet, Zenon

\* No backend changes the word, and all of them enter the kernel with a
\* comparison.
LEMMA BlockIsQuiet ==
  ASSUME waiter \in [Waiters -> WaiterStates], NEW w \in Waiters,
         BlockStep(w) \/ EndsEarly(w), UNCHANGED <<published, bpc, want>>
  PROVE  QuietStep(w) /\ waiter'[w].pc \in BlockPC
<1>1. CASE \E pc \in {"deadline", "block", "poll"} : Compare(w, pc) \/ CheckDeadline(w, pc)
  BY <1>1, TestsAreQuiet
<1>2. CASE backend \in {"futex", "win32", "os_sync", "ulock"} /\ KernelWait(w)
  BY <1>2, KernelIsQuiet
<1>3. CASE \E ok \in BOOLEAN : Return(w, ok)
  BY <1>3, ReturnIsQuiet
<1>4. CASE /\ waiter[w].pc \in Rechecked
           /\ Goto(w, "load") \/ Goto(w, "last")
  <2>1. "load" \in WaitPC /\ "last" \in WaitPC /\ "load" \in BlockPC /\ "last" \in BlockPC
    BY DEF WaitPC, BlockPC
  <2> QED BY <1>4, <2>1, GotoIsQuiet
<1>5. CASE FutexAtomicWait(w) \/ FutexWaitFor(w)
  BY <1>1, <1>2, <1>3, <1>5, Zenon DEF FutexAtomicWait, FutexWaitFor, Is
<1>6. CASE Win32AtomicWait(w) \/ Win32WaitFor(w)
  <2>1. (word # waiter[w].marked) \in BOOLEAN
    OBVIOUS
  <2> QED BY <1>1, <1>2, <1>3, <1>4, <1>6, <2>1, Zenon
    DEF Win32AtomicWait, Win32WaitFor, Is, SliceEnds, TimeoutFires, At, Rechecked
<1>7. CASE Win32PollingWait(w)
  <2>1. CASE waiter[w].timed
    BY <1>1, <1>3, <1>4, <1>7, <2>1, Zenon DEF Win32PollingWait, polling_wait, At, Rechecked
  <2>2. CASE ~waiter[w].timed
    BY <1>1, <1>3, <1>4, <1>7, <2>2, Zenon DEF Win32PollingWait, polling_wait, At, Rechecked
  <2> QED BY <2>1, <2>2
<1>8. CASE DarwinAtomicWait(w) \/ OsSyncWaitFor(w) \/ UlockWaitFor(w)
  BY <1>1, <1>2, <1>3, <1>4, <1>8, Zenon
  DEF DarwinAtomicWait, OsSyncWaitFor, UlockWaitFor, SliceEnds, At, Rechecked
<1>9. CASE PortableWaitFor(w)
  <2>1. CASE waiter[w].timed
    BY <1>1, <1>3, <1>4, <1>9, <2>1 DEF PortableWaitFor, atomic_poll, At, Rechecked
  <2>2. CASE ~waiter[w].timed
    BY <1>1, <1>3, <1>4, <1>9, <2>2, Zenon DEF PortableWaitFor, atomic_poll, At, Rechecked
  <2> QED BY <2>1, <2>2
<1>10. CASE EndsEarly(w)
  BY <1>3, <1>10, Zenon DEF EndsEarly
<1> QED BY <1>5, <1>6, <1>7, <1>8, <1>9, <1>10 DEF BlockStep

-----------------------------------------------------------------------------
\* The steps of a call that only look: pred() at the head of the loop, the
\* clock, and everything inside atomic_wait_for.
LEMMA LookInvariant ==
  ASSUME WakeupInv, NEW w \in Waiters, UNCHANGED <<published, bpc, want>>,
         \/ CheckPred(w, Pred(w)) \/ CheckTimer(w) \/ BlockStep(w) \/ EndsEarly(w)
         \/ Expire(w) \/ SpuriousWake(w)
  PROVE  WakeupInv'
<1>0. waiter \in [Waiters -> WaiterStates]
  BY DEF WakeupInv, TypeOK, TypeOKWait
<1>1. CASE CheckPred(w, Pred(w))
  <2>1. PICK pc \in {"mark", "leave"}, ok \in BOOLEAN :
          waiter' = [waiter EXCEPT ![w].pc = pc, ![w].result = ok] /\ UNCHANGED <<word, backend>>
    <3>1. CASE Pred(w)
      BY <1>1, <3>1, Zenon DEF CheckPred
    <3>2. CASE ~Pred(w)
      BY <1>1, <3>2, Zenon DEF CheckPred
    <3> QED BY <3>1, <3>2
  <2>2. waiter' \in [Waiters -> WaiterStates]
    BY <1>0, <2>1, MoveTypes, Zenon DEF WaitPC
  <2>3. waiter'[w].pc = pc /\ waiter'[w].marked = waiter[w].marked
        /\ \A v \in Waiters \ {w} : waiter'[v] = waiter[v]
    BY <1>0, <2>1 DEF WaiterStates
  <2>4. QuietStep(w)
    BY <2>1, <2>2, <2>3 DEF QuietStep, Rechecked
  <2> QED BY <2>4, QuietInvariant
<1>2. CASE CheckTimer(w)
  <2>1. waiter[w].pc \in Rechecked /\ (Goto(w, "leave") \/ Goto(w, "load"))
    BY <1>2 DEF CheckTimer, At, Rechecked
  <2>2. "leave" \in WaitPC /\ "load" \in WaitPC
    BY DEF WaitPC, BlockPC
  <2>3. QuietStep(w)
    BY <1>0, <2>1, <2>2, GotoIsQuiet
  <2> QED BY <2>3, QuietInvariant
<1>3. CASE BlockStep(w) \/ EndsEarly(w)
  BY <1>0, <1>3, BlockIsQuiet, QuietInvariant
<1>4. CASE Expire(w)
  BY <1>0, <1>4, ExpireIsQuiet, QuietInvariant
<1>5. CASE SpuriousWake(w)
  BY <1>0, <1>5, SpuriousIsQuiet, QuietInvariant
<1> QED BY <1>1, <1>2, <1>3, <1>4, <1>5

\* pred() found true after the mark: the state it looked at is no older.
LEMMA RecheckInvariant ==
  ASSUME WakeupInv, NEW w \in Waiters, RecheckPred(w, Pred(w)), UNCHANGED <<published, bpc, want>>
  PROVE  WakeupInv'
<1>0. waiter \in [Waiters -> WaiterStates] /\ want \in [Waiters -> [kind : {"state", "seq"}, val : Nat]]
  BY DEF WakeupInv, TypeOK, TypeOKWait
<1>1. PICK pc \in {"leave", "timer", "load"}, ok \in BOOLEAN :
        /\ waiter' = [waiter EXCEPT ![w].pc = pc, ![w].result = ok]
        /\ pc # "leave" => Pred(w)
  <2>1. CASE Pred(w)
    BY <2>1, Zenon DEF RecheckPred
  <2>2. CASE ~Pred(w)
    BY <2>2, Zenon DEF RecheckPred
  <2> QED BY <2>1, <2>2
<1>2. /\ UNCHANGED <<word, backend, published, bpc, want>> /\ Bumps' = Bumps
      /\ waiter[w].pc = "recheck"
  BY DEF RecheckPred, Bumps, At
<1>3. waiter' \in [Waiters -> WaiterStates]
  BY <1>0, <1>1, MoveTypes, Zenon DEF WaitPC, BlockPC
<1>4. /\ waiter'[w].pc = pc /\ waiter'[w].marked = waiter[w].marked
      /\ \A v \in Waiters \ {w} : waiter'[v] = waiter[v]
  BY <1>0, <1>1 DEF WaiterStates
<1>5. TypeOK' /\ SeqCounts'
  BY <1>2, <1>3 DEF WakeupInv, TypeOK, TypeOKWait, SeqCounts
<1>6. SleepBook'
  BY <1>2, <1>4 DEF WakeupInv, SleepBook, At
<1>7. MarkBook'
  <2> SUFFICES ASSUME NEW v \in Waiters, waiter'[v].pc \in Rechecked \cup {"recheck"}
               PROVE  waiter'[v].marked \in NotifyWords /\ \E k \in 0 .. Bumps : MarkedAt(v, k)'
    BY <1>2 DEF MarkBook
  <2>0. waiter'[v].marked = waiter[v].marked /\ waiter[v].pc \in Rechecked \cup {"recheck"}
    BY <1>2, <1>4
  <2>1. waiter[v].marked \in NotifyWords
    BY <2>0 DEF WakeupInv, MarkBook
  <2>2. PICK k \in 0 .. Bumps : MarkedAt(v, k)
    BY <2>0 DEF WakeupInv, MarkBook
  <2>3. CASE v # w
    <3>1. MarkedAt(v, k)'
      BY <1>2, <1>4, <2>2, <2>3 DEF MarkedAt
    <3> QED BY <2>0, <2>1, <3>1
  <2>4. CASE v = w
    <3>1. Pred(w)
      BY <1>1, <1>4, <2>4 DEF Rechecked
    <3>2. Bumps \in Nat /\ published \in Nat /\ Bumps <= published /\ k \in Nat /\ k <= Bumps
      BY BumpsBound DEF WakeupInv, Bumps
    <3>3. want[w].kind = "seq" => \E r \in k .. Bumps : want[w].val = SeqAt(r)
      <4> SUFFICES ASSUME want[w].kind = "seq" PROVE \E r \in k .. Bumps : want[w].val = SeqAt(r)
        OBVIOUS
      <4>1. want[w].val = SeqAt(Bumps)
        BY <3>1 DEF Pred, WakeupInv, SeqCounts
      <4>2. Bumps \in k .. Bumps
        BY <3>2
      <4> QED BY <4>1, <4>2
    <3>4. want[w].kind # "seq" => want[w].val > k
      <4> SUFFICES ASSUME want[w].kind # "seq" PROVE want[w].val > k
        OBVIOUS
      <4>1. published < want[w].val
        BY <3>1 DEF Pred
      <4>2. want[w].val \in Nat
        BY <1>0
      <4> QED BY <3>2, <4>1, <4>2
    <3>5. MarkedAt(v, k)'
      BY <1>2, <1>4, <2>2, <2>4, <3>3, <3>4 DEF MarkedAt
    <3> QED BY <2>0, <2>1, <3>5
  <2> QED BY <2>3, <2>4
<1> QED BY <1>5, <1>6, <1>7 DEF WakeupInv

\* What fetch_or makes of the call that does it.
LEMMA MarkShape ==
  ASSUME waiter \in [Waiters -> WaiterStates], word \in NotifyWords, NEW w \in Waiters, MarkWaiter(w)
  PROVE  /\ waiter' \in [Waiters -> WaiterStates] /\ waiter'[w].pc = "recheck" /\ waiter'[w].marked = word
         /\ \A v \in Waiters \ {w} : waiter'[v] = waiter[v]
<1> DEFINE reg == waiter[w].registered \/ ~HasWaiter(word)
           q == [waiter[w] EXCEPT !.pc = "recheck", !.marked = word, !.registered = reg]
<1>1. reg \in BOOLEAN /\ word \in NotifyWords \cup {NoMark} /\ "recheck" \in WaitPC
  BY DEF WaitPC
<1>2. waiter' = [waiter EXCEPT ![w] = q]
  BY Zenon DEF MarkWaiter
<1> HIDE DEF reg
<1>3. q \in WaiterStates /\ q.pc = "recheck" /\ q.marked = word
  BY <1>1, Zenon DEF WaiterStates
<1> HIDE DEF q
<1> QED BY <1>2, <1>3

\* A call that begins or ends starts over.
LEMMA EnterLeaveShape ==
  ASSUME waiter \in [Waiters -> WaiterStates], NEW w \in Waiters, Call(w) \/ WaitReturn(w)
  PROVE  /\ waiter' \in [Waiters -> WaiterStates] /\ waiter'[w].pc \in {"out", "check"}
         /\ \A v \in Waiters \ {w} : waiter'[v] = waiter[v]
<1>1. PICK r \in WaiterStates : waiter' = [waiter EXCEPT ![w] = r] /\ r.pc \in {"out", "check"}
  <2>1. CASE Call(w)
    <3>1. PICK timed \in BOOLEAN : WaitCall(w, timed)
      BY <2>1 DEF Call
    <3> DEFINE r == [IdleWaiter EXCEPT !.pc = "check", !.timed = timed]
    <3>2. r \in WaiterStates /\ r.pc = "check"
      BY Zenon DEF IdleWaiter, WaiterStates, WaitPC
    <3>3. waiter' = [waiter EXCEPT ![w] = r]
      BY <3>1 DEF WaitCall
    <3> HIDE DEF r
    <3> QED BY <3>2, <3>3, Zenon
  <2>2. CASE WaitReturn(w)
    <3>1. IdleWaiter \in WaiterStates /\ IdleWaiter.pc = "out"
      BY DEF IdleWaiter, WaiterStates, WaitPC
    <3> QED BY <2>2, <3>1, Zenon DEF WaitReturn
  <2> QED BY <2>1, <2>2
<1> QED BY <1>1

\* What a call may wait for.
LEMMA CallWants ==
  ASSUME word \in NotifyWords, want \in [Waiters -> [kind : {"state", "seq"}, val : Nat]],
         NEW w \in Waiters, Call(w)
  PROVE  /\ want' \in [Waiters -> [kind : {"state", "seq"}, val : Nat]]
         /\ want'[w].kind = "seq" => want'[w].val = notify_seq_value(word)
         /\ \A v \in Waiters \ {w} : want'[v] = want[v]
<1> DEFINE Wants == [kind : {"state", "seq"}, val : Nat]
<1>1. PICK x \in Wants : /\ want' = [want EXCEPT ![w] = x]
                         /\ x.kind = "seq" => x.val = notify_seq_value(word)
  <2>1. CASE \E n \in 1 .. MaxBumps : want' = [want EXCEPT ![w] = [kind |-> "state", val |-> n]]
    <3>1. PICK n \in 1 .. MaxBumps : want' = [want EXCEPT ![w] = [kind |-> "state", val |-> n]]
      BY <2>1, Zenon
    <3>2. n \in Nat
      BY NotifySystemAssumption
    <3>3. [kind |-> "state", val |-> n] \in Wants
      BY <3>2
    <3> QED BY <3>1, <3>3, Zenon
  <2>2. CASE want' = [want EXCEPT ![w] = [kind |-> "seq", val |-> notify_seq_value(word)]]
    <3>1. notify_seq_value(word) \in Nat
      BY WordParts, SeqModAssumption
    <3>2. [kind |-> "seq", val |-> notify_seq_value(word)] \in Wants
      BY <3>1
    <3> QED BY <2>2, <3>2, Zenon
  <2> QED BY <2>1, <2>2 DEF Call
<1> QED BY <1>1

\* fetch_or: the mark is the word without the flag, or with it.
LEMMA MarkInvariant ==
  ASSUME WakeupInv, OneWaiter, NEW w \in Waiters, MarkWaiter(w), UNCHANGED <<published, bpc, want>>
  PROVE  WakeupInv'
<1>0. /\ waiter \in [Waiters -> WaiterStates] /\ word \in NotifyWords
      /\ \A v \in Waiters : v = w
  BY DEF WakeupInv, TypeOK, TypeOKWait, OneWaiter
<1>1. word' = SetWaiter(word) /\ UNCHANGED <<backend, published, bpc, want>> /\ Bumps' = Bumps
  BY DEF MarkWaiter, Bumps
<1>2. waiter' \in [Waiters -> WaiterStates] /\ waiter'[w].pc = "recheck" /\ waiter'[w].marked = word
  BY <1>0, MarkShape
<1>4. word' \in NotifyWords /\ notify_seq_value(word') = notify_seq_value(word)
  BY <1>0, <1>1, WordsClosed, FlagKeepsSeq
<1>5. TypeOK' /\ SeqCounts'
  BY <1>1, <1>2, <1>4 DEF WakeupInv, TypeOK, TypeOKWait, SeqCounts
<1>6. SleepBook'
  BY <1>0, <1>2 DEF SleepBook, At
<1>7. MarkBook'
  <2>1. Bumps \in 0 .. Bumps
    BY DEF WakeupInv, SeqCounts
  <2>2. MarkedAt(w, Bumps)'
    BY <1>1, <1>2 DEF MarkedAt, WakeupInv, SeqCounts, Rechecked
  <2> QED BY <1>0, <1>1, <1>2, <2>1, <2>2 DEF MarkBook
<1> QED BY <1>5, <1>6, <1>7 DEF WakeupInv

\* Entering and leaving a call: no mark, no sleep.
LEMMA EnterLeaveInvariant ==
  ASSUME WakeupInv, OneWaiter, NEW w \in Waiters,
         \/ Call(w)
         \/ WaitReturn(w) /\ UNCHANGED <<published, bpc, want>>
  PROVE  WakeupInv'
<1>0. /\ waiter \in [Waiters -> WaiterStates] /\ word \in NotifyWords
      /\ \A v \in Waiters : v = w
  BY DEF WakeupInv, TypeOK, TypeOKWait, OneWaiter
<1>1. UNCHANGED <<backend, published, bpc>> /\ Bumps' = Bumps
  BY Zenon DEF Call, WaitCall, WaitReturn, Bumps
<1>2. word' \in {word, ClearWaiter(word)}
  BY Zenon DEF Call, WaitCall, WaitReturn
<1>3. word' \in NotifyWords /\ notify_seq_value(word') = notify_seq_value(word)
  BY <1>0, <1>2, WordsClosed, FlagKeepsSeq
<1>5. waiter' \in [Waiters -> WaiterStates] /\ waiter'[w].pc \in {"out", "check"}
  BY <1>0, EnterLeaveShape
<1>6. want' \in [Waiters -> [kind : {"state", "seq"}, val : Nat]]
  BY <1>0, CallWants DEF WakeupInv, TypeOK
<1>7. TypeOK' /\ SeqCounts'
  BY <1>1, <1>3, <1>5, <1>6 DEF WakeupInv, TypeOK, TypeOKWait, SeqCounts
<1>8. SleepBook' /\ MarkBook'
  BY <1>0, <1>5 DEF SleepBook, MarkBook, At, Rechecked
<1> QED BY <1>7, <1>8 DEF WakeupInv

-----------------------------------------------------------------------------
\* Storing the new position changes neither the word nor the number of bumps.
LEMMA PublishInvariant ==
  ASSUME WakeupInv, Publish
  PROVE  WakeupInv'
<1>1. /\ UNCHANGED <<word, waiter, backend, want>> /\ bpc = "idle" /\ bpc' = "bump"
      /\ published' = published + 1 /\ published < MaxBumps
  BY DEF Publish
<1>2. published \in Nat /\ MaxBumps \in Nat
  BY BumpsBound DEF WakeupInv
<1>3. Bumps' = Bumps
  BY <1>1, <1>2 DEF Bumps
<1>4. TypeOK' /\ SeqCounts'
  BY <1>1, <1>2, <1>3 DEF WakeupInv, TypeOK, TypeOKWait, SeqCounts
<1>5. MarkBook'
  BY <1>1, <1>3 DEF WakeupInv, MarkBook, MarkedAt
<1>6. SleepBook'
  BY <1>1 DEF WakeupInv, SleepBook, At
<1> QED BY <1>4, <1>5, <1>6 DEF WakeupInv

\* A bump under a sleeper finds the flag and goes on to notify; marks made
\* before it are older now.
LEMMA BumpInvariant ==
  ASSUME WakeupInv, FewBumps, BumpWord
  PROVE  WakeupInv'
<1>1. /\ UNCHANGED <<waiter, backend, published, want>> /\ bpc = "bump"
      /\ word' = bump_notify_word(word)
      /\ bpc' = IF HasWaiter(word) THEN "notify" ELSE "idle"
  BY DEF BumpWord, Bump
<1>2. Bumps \in Nat /\ published \in Nat /\ word \in NotifyWords
  BY BumpsBound DEF WakeupInv, SeqCounts, TypeOK, TypeOKWait
<1>3. Bumps' = Bumps + 1
  BY <1>1, <1>2 DEF Bumps
<1>4. TypeOK' /\ SeqCounts'
  <2>1. word' \in NotifyWords
    BY <1>1, <1>2, WordsClosed
  <2>2. notify_seq_value(word') = SeqAt(Bumps + 1)
    BY <1>1, <1>2, BumpCounts, SeqAtStep DEF WakeupInv, SeqCounts
  <2>3. TypeOK'
    BY <1>1, <2>1 DEF WakeupInv, TypeOK, TypeOKWait
  <2> QED BY <1>2, <1>3, <2>2, <2>3 DEF SeqCounts
<1>5. MarkBook'
  <2> SUFFICES ASSUME NEW w \in Waiters, waiter[w].pc \in Rechecked \cup {"recheck"}
               PROVE  waiter[w].marked \in NotifyWords
                      /\ \E k \in 0 .. (Bumps + 1) : MarkedAt(w, k)'
    BY <1>1, <1>3 DEF MarkBook
  <2>1. PICK k \in 0 .. Bumps : MarkedAt(w, k)
    BY DEF WakeupInv, MarkBook
  <2>2. k \in 0 .. (Bumps + 1) /\ k # Bumps + 1
    BY <1>2
  <2>3. waiter[w].pc \in Rechecked /\ want[w].kind = "seq" =>
          \E r \in k .. (Bumps + 1) : want[w].val = SeqAt(r)
    BY <1>2, <2>1 DEF MarkedAt
  <2>4. MarkedAt(w, k)'
    BY <1>1, <1>3, <2>1, <2>2, <2>3 DEF MarkedAt
  <2>5. waiter[w].marked \in NotifyWords
    BY DEF WakeupInv, MarkBook
  <2> QED BY <2>2, <2>4, <2>5
<1>6. SleepBook'
  <2> SUFFICES ASSUME NEW w \in Waiters, waiter[w].pc = "asleep"
               PROVE  /\ backend \in {"futex", "win32", "os_sync", "ulock"}
                      /\ backend = "ulock" \/ bpc' = "notify"
    BY <1>1 DEF SleepBook, At
  <2>1. /\ backend \in {"futex", "win32", "os_sync", "ulock"}
        /\ backend = "ulock" \/ word = waiter[w].marked
    BY <1>1 DEF WakeupInv, SleepBook, At
  <2>2. word = waiter[w].marked => HasWaiter(word)
    BY MarkIsCurrent DEF Rechecked
  <2> QED BY <1>1, <2>1, <2>2
<1> QED BY <1>4, <1>5, <1>6 DEF WakeupInv

\* The notify ends every sleep but those under ulock.
LEMMA NotifyInvariant ==
  ASSUME WakeupInv, NotifyWaiters
  PROVE  WakeupInv'
<1>0. waiter \in [Waiters -> WaiterStates]
  BY DEF WakeupInv, TypeOK, TypeOKWait
<1>1. /\ UNCHANGED <<word, backend, published, want>> /\ bpc = "notify" /\ bpc' = "idle"
      /\ Bumps' = Bumps
  BY DEF NotifyWaiters, atomic_notify_all, Notify, Bumps
<1>2. PICK woken \in {Sleepers, {}} :
        /\ waiter' = [w \in Waiters |-> IF w \in woken THEN Woken(waiter[w]) ELSE waiter[w]]
        /\ backend \in {"futex", "win32", "os_sync"} => woken = Sleepers
  BY DEF NotifyWaiters, atomic_notify_all, Notify, FutexNotify, Win32Notify, DarwinNotify
<1>3. ASSUME NEW w \in Waiters
      PROVE  /\ waiter'[w] \in WaiterStates /\ waiter'[w].marked = waiter[w].marked
             /\ waiter'[w].pc \in Rechecked => waiter[w].pc \in Rechecked
             /\ waiter'[w].pc = "recheck" => waiter[w].pc = "recheck"
             /\ waiter'[w].pc = "asleep" => waiter[w].pc = "asleep" /\ w \notin woken
  <2>1. CASE w \in woken
    <3>1. waiter'[w] = Woken(waiter[w]) /\ waiter[w].pc = "asleep"
      BY <1>2, <2>1 DEF Sleepers, At
    <3>2. /\ Woken(waiter[w]) \in WaiterStates /\ Woken(waiter[w]).marked = waiter[w].marked
          /\ Woken(waiter[w]).pc \in {"back", "load"}
      BY <1>0, WokenShape DEF WaiterStates
    <3> QED BY <3>1, <3>2 DEF Rechecked
  <2>2. CASE w \notin woken
    BY <1>0, <1>2, <2>2
  <2> QED BY <2>1, <2>2
<1>4. waiter' \in [Waiters -> WaiterStates]
  BY <1>2, <1>3
<1>5. TypeOK' /\ SeqCounts'
  BY <1>1, <1>4 DEF WakeupInv, TypeOK, TypeOKWait, SeqCounts
<1>6. MarkBook'
  <2> SUFFICES ASSUME NEW w \in Waiters, waiter'[w].pc \in Rechecked \cup {"recheck"}
               PROVE  waiter'[w].marked \in NotifyWords /\ \E k \in 0 .. Bumps : MarkedAt(w, k)'
    BY <1>1 DEF MarkBook
  <2>1. /\ waiter'[w].marked = waiter[w].marked
        /\ waiter'[w].pc \in Rechecked => waiter[w].pc \in Rechecked
        /\ waiter[w].pc \in Rechecked \cup {"recheck"}
    BY <1>3
  <2>2. PICK k \in 0 .. Bumps : MarkedAt(w, k)
    BY <2>1 DEF WakeupInv, MarkBook
  <2>3. MarkedAt(w, k)'
    BY <1>1, <2>1, <2>2 DEF MarkedAt
  <2>4. waiter[w].marked \in NotifyWords
    BY <2>1 DEF WakeupInv, MarkBook
  <2> QED BY <2>1, <2>2, <2>3, <2>4
<1>7. SleepBook'
  <2> SUFFICES ASSUME NEW w \in Waiters, waiter'[w].pc = "asleep"
               PROVE  backend = "ulock"
    BY <1>1 DEF SleepBook, At
  <2>1. w \in Sleepers /\ w \notin woken
    BY <1>3 DEF Sleepers, At
  <2>2. backend \in {"futex", "win32", "os_sync", "ulock"}
    BY <2>1 DEF WakeupInv, SleepBook, Sleepers
  <2> QED BY <1>2, <2>1, <2>2
<1> QED BY <1>5, <1>6, <1>7 DEF WakeupInv

\* Every step keeps the invariant.
LEMMA NextKeepsInvariant ==
  ASSUME OneWaiter, FewBumps, WakeupInv, [Next]_vars
  PROVE  WakeupInv'
<1>1. CASE Publish
  BY <1>1, PublishInvariant
<1>2. CASE BumpWord
  BY <1>2, BumpInvariant
<1>3. CASE NotifyWaiters
  BY <1>3, NotifyInvariant
<1>4. ASSUME NEW w \in Waiters, Call(w) PROVE WakeupInv'
  BY <1>4, EnterLeaveInvariant
<1>5. ASSUME NEW w \in Waiters, WaiterStep(w) PROVE WakeupInv'
  BY <1>5, LookInvariant, RecheckInvariant, MarkInvariant, EnterLeaveInvariant
  DEF WaiterStep, WaitStep
<1>6. ASSUME NEW w \in Waiters, Environment(w) PROVE WakeupInv'
  BY <1>6, LookInvariant DEF Environment
<1>7. CASE UNCHANGED vars
  <2>1. UNCHANGED <<word, waiter, backend, published, bpc, want>> /\ Bumps' = Bumps
    BY <1>7 DEF vars, Bumps
  <2>2. TypeOK' /\ SeqCounts'
    BY <2>1 DEF WakeupInv, TypeOK, TypeOKWait, SeqCounts
  <2>3. MarkBook' /\ SleepBook'
    BY <2>1 DEF WakeupInv, MarkBook, MarkedAt, SleepBook, At
  <2> QED BY <2>2, <2>3 DEF WakeupInv
<1> QED BY <1>1, <1>2, <1>3, <1>4, <1>5, <1>6, <1>7 DEF Next

\* The invariant holds at the start.
LEMMA InitKeepsInvariant == Init => WakeupInv
<1> SUFFICES ASSUME Init PROVE WakeupInv
  OBVIOUS
<1>1. InitSeq \in NotifyWords /\ InitSeq \in 0 .. (SeqMod - 1) /\ MaxBumps \in Nat
  BY SeqModAssumption, NotifySystemAssumption DEF NotifyWords
<1>2. IdleWaiter \in WaiterStates /\ IdleWaiter.pc = "out"
  BY DEF IdleWaiter, WaiterStates, WaitPC
<1>3. waiter \in [Waiters -> WaiterStates] /\ \A w \in Waiters : waiter[w].pc = "out"
  BY <1>2 DEF Init, WaiterInit
<1>4. TypeOK
  BY <1>1, <1>3 DEF Init, TypeOK, TypeOKWait
<1>5. SeqCounts
  BY <1>1 DEF Init, SeqCounts, Bumps, SeqAt, notify_seq_value
<1>6. MarkBook /\ SleepBook
  BY <1>3 DEF MarkBook, SleepBook, At, Rechecked
<1> QED BY <1>4, <1>5, <1>6 DEF WakeupInv

\* Every reachable state satisfies the invariant, its types included.
THEOREM WakeupInvariantHolds ==
  ASSUME OneWaiter, FewBumps
  PROVE  Spec => []WakeupInv
<1>1. WakeupInv /\ [Next]_vars => WakeupInv'
  BY NextKeepsInvariant
<1> QED BY <1>1, InitKeepsInvariant, PTL DEF Spec

\* wait_on_notify_word and wait_on_notify_word_for lose no wakeup: a thread
\* asleep although its predicate has turned false is about to be woken.
THEOREM NoWakeupIsLost ==
  ASSUME OneWaiter, FewBumps
  PROVE  Spec => []NoLostWakeup
<1>1. WakeupInv => NoLostWakeup
  BY InvariantSuffices
<1> QED BY <1>1, WakeupInvariantHolds, PTL

-----------------------------------------------------------------------------
(* What a wait returns, for any number of waiters *)

\* A step of one thread that may touch the flag, but not the sequence.
LEMMA LocalHonest ==
  ASSUME HonestInv, NEW w \in Waiters, UNCHANGED <<backend, published, bpc, want>>,
         word' \in NotifyWords, notify_seq_value(word') = notify_seq_value(word),
         waiter' \in [Waiters -> WaiterStates], \A v \in Waiters \ {w} : waiter'[v] = waiter[v],
         waiter'[w].pc = "timer" => ~waiter'[w].result,
         waiter'[w].pc = "leave" => IF waiter'[w].result THEN ~Pred(w) ELSE waiter'[w].expired
  PROVE  HonestInv'
<1>1. Bumps' = Bumps /\ \A v \in Waiters : Pred(v)' = Pred(v)
  BY DEF Bumps, Pred
<1>2. TypeOK' /\ SeqCounts'
  BY <1>1 DEF HonestInv, TypeOK, TypeOKWait, SeqCounts
<1>3. AnswerBook'
  <2> SUFFICES ASSUME NEW v \in Waiters
               PROVE  /\ want[v].kind = "seq" => \E r \in 0 .. Bumps : want[v].val = SeqAt(r)
                      /\ waiter'[v].pc = "timer" => ~waiter'[v].result
    BY <1>1 DEF AnswerBook, At
  <2>1. waiter'[v].pc = "timer" => ~waiter'[v].result
    BY DEF HonestInv, AnswerBook, At
  <2> QED BY <2>1 DEF HonestInv, AnswerBook
<1>4. ResultHonest'
  <2> SUFFICES ASSUME NEW v \in Waiters, waiter'[v].pc = "leave"
               PROVE  IF waiter'[v].result THEN ~Pred(v)' ELSE waiter'[v].expired
    BY DEF ResultHonest, At
  <2>1. IF waiter'[v].result THEN ~Pred(v) ELSE waiter'[v].expired
    BY DEF HonestInv, ResultHonest, At
  <2> QED BY <1>1, <2>1
<1> QED BY <1>2, <1>3, <1>4 DEF HonestInv

\* pred() decides where a call goes on, and a call leaves with what it said.
LEMMA PredHonest ==
  ASSUME HonestInv, NEW w \in Waiters, UNCHANGED <<published, bpc, want>>,
         CheckPred(w, Pred(w)) \/ RecheckPred(w, Pred(w))
  PROVE  HonestInv'
<1>0. waiter \in [Waiters -> WaiterStates] /\ word \in NotifyWords /\ UNCHANGED <<word, backend>>
  BY DEF HonestInv, TypeOK, TypeOKWait, CheckPred, RecheckPred
<1>1. PICK pc \in {"mark", "leave", "timer", "load"}, ok \in BOOLEAN :
        /\ waiter' = [waiter EXCEPT ![w].pc = pc, ![w].result = ok]
        /\ ok => ~Pred(w)
        /\ pc = "leave" => ok
        /\ pc = "timer" => ~ok
  <2>1. CASE Pred(w)
    BY <2>1, Zenon DEF CheckPred, RecheckPred
  <2>2. CASE ~Pred(w)
    BY <2>2, Zenon DEF CheckPred, RecheckPred
  <2> QED BY <2>1, <2>2
<1>2. pc \in WaitPC
  BY DEF WaitPC, BlockPC
<1>3. waiter' \in [Waiters -> WaiterStates]
  BY <1>0, <1>1, <1>2, MoveTypes, Zenon
<1>4. /\ waiter'[w].pc = pc /\ waiter'[w].result = ok
      /\ \A v \in Waiters \ {w} : waiter'[v] = waiter[v]
  BY <1>0, <1>1 DEF WaiterStates
<1>5. /\ waiter'[w].pc = "timer" => ~waiter'[w].result
      /\ waiter'[w].pc = "leave" => IF waiter'[w].result THEN ~Pred(w) ELSE waiter'[w].expired
  BY <1>1, <1>4
<1> QED BY <1>0, <1>3, <1>4, <1>5, LocalHonest

\* remaining_ms <= 0 is the only way out without progress.
LEMMA TimerHonest ==
  ASSUME HonestInv, NEW w \in Waiters, UNCHANGED <<published, bpc, want>>,
         CheckTimer(w) \/ Expire(w)
  PROVE  HonestInv'
<1>0. waiter \in [Waiters -> WaiterStates] /\ word \in NotifyWords /\ UNCHANGED <<word, backend>>
  BY DEF HonestInv, TypeOK, TypeOKWait, CheckTimer, Expire, Goto
<1>1. CASE CheckTimer(w)
  <2>1. PICK pc \in {"leave", "load"} :
          waiter' = [waiter EXCEPT ![w].pc = pc] /\ (pc = "leave" => waiter[w].expired)
    BY <1>1, Zenon DEF CheckTimer, Goto
  <2>2. waiter[w].pc = "timer" /\ ~waiter[w].result
    BY <1>1 DEF CheckTimer, HonestInv, AnswerBook, At
  <2>3. pc \in WaitPC
    BY DEF WaitPC, BlockPC
  <2>4. waiter' \in [Waiters -> WaiterStates]
    <3>1. TRUE \in BOOLEAN
      BY Zenon
    <3> QED BY <1>0, <2>1, <2>3, <3>1, MoveTypes, ZenonT(40)
  <2>5. /\ waiter'[w].pc = pc /\ waiter'[w].result = waiter[w].result
        /\ waiter'[w].expired = waiter[w].expired
        /\ \A v \in Waiters \ {w} : waiter'[v] = waiter[v]
    BY <1>0, <2>1 DEF WaiterStates
  <2>6. /\ waiter'[w].pc = "timer" => ~waiter'[w].result
        /\ waiter'[w].pc = "leave" => IF waiter'[w].result THEN ~Pred(w) ELSE waiter'[w].expired
    BY <2>1, <2>2, <2>5
  <2> QED BY <1>0, <2>4, <2>5, <2>6, LocalHonest
<1>2. CASE Expire(w)
  <2>1. waiter' = [waiter EXCEPT ![w].expired = TRUE]
    BY <1>2 DEF Expire
  <2>2. /\ waiter' \in [Waiters -> WaiterStates]
        /\ waiter'[w].pc = waiter[w].pc /\ waiter'[w].result = waiter[w].result
        /\ waiter'[w].expired /\ \A v \in Waiters \ {w} : waiter'[v] = waiter[v]
    BY <1>0, <2>1, Zenon DEF WaiterStates
  <2>3. /\ waiter'[w].pc = "timer" => ~waiter'[w].result
        /\ waiter'[w].pc = "leave" => IF waiter'[w].result THEN ~Pred(w) ELSE waiter'[w].expired
    BY <2>2 DEF HonestInv, AnswerBook, ResultHonest, At
  <2> QED BY <1>0, <2>2, <2>3, LocalHonest
<1> QED BY <1>1, <1>2

\* The steps of a call that decide nothing.
LEMMA OtherHonest ==
  ASSUME HonestInv, NEW w \in Waiters, UNCHANGED <<published, bpc, want>>,
         MarkWaiter(w) \/ BlockStep(w) \/ EndsEarly(w) \/ SpuriousWake(w) \/ WaitReturn(w)
  PROVE  HonestInv'
<1>0. waiter \in [Waiters -> WaiterStates] /\ word \in NotifyWords
  BY DEF HonestInv, TypeOK, TypeOKWait
<1>1. /\ waiter' \in [Waiters -> WaiterStates] /\ \A v \in Waiters \ {w} : waiter'[v] = waiter[v]
      /\ waiter'[w].pc \notin {"timer", "leave"} /\ UNCHANGED backend
      /\ word' \in {word, SetWaiter(word), ClearWaiter(word)}
  <2>1. CASE MarkWaiter(w)
    BY <1>0, <2>1, MarkShape, Zenon DEF MarkWaiter
  <2>2. CASE BlockStep(w) \/ EndsEarly(w) \/ SpuriousWake(w)
    <3>1. QuietStep(w) /\ waiter'[w].pc \in BlockPC
      BY <1>0, <2>2, BlockIsQuiet, SpuriousIsQuiet
    <3> QED BY <3>1 DEF QuietStep, BlockPC
  <2>3. CASE WaitReturn(w)
    BY <1>0, <2>3, EnterLeaveShape, Zenon DEF WaitReturn
  <2> QED BY <2>1, <2>2, <2>3
<1>2. word' \in NotifyWords /\ notify_seq_value(word') = notify_seq_value(word)
  BY <1>0, <1>1, WordsClosed, FlagKeepsSeq
<1> QED BY <1>0, <1>1, <1>2, LocalHonest

\* A snapshot taken now is the sequence after as many bumps as there were.
LEMMA CallHonest ==
  ASSUME HonestInv, NEW w \in Waiters, Call(w)
  PROVE  HonestInv'
<1>0. /\ waiter \in [Waiters -> WaiterStates] /\ word \in NotifyWords
      /\ want \in [Waiters -> [kind : {"state", "seq"}, val : Nat]]
  BY DEF HonestInv, TypeOK, TypeOKWait
<1>1. UNCHANGED <<word, backend, published, bpc>> /\ Bumps' = Bumps
  BY DEF Call, WaitCall, Bumps
<1>2. /\ waiter' \in [Waiters -> WaiterStates] /\ waiter'[w].pc \in {"out", "check"}
      /\ \A v \in Waiters \ {w} : waiter'[v] = waiter[v]
  BY <1>0, EnterLeaveShape
<1>3. /\ want' \in [Waiters -> [kind : {"state", "seq"}, val : Nat]]
      /\ want'[w].kind = "seq" => want'[w].val = notify_seq_value(word)
      /\ \A v \in Waiters \ {w} : want'[v] = want[v]
  BY <1>0, CallWants
<1>4. TypeOK' /\ SeqCounts'
  BY <1>1, <1>2, <1>3 DEF HonestInv, TypeOK, TypeOKWait, SeqCounts
<1>5. AnswerBook'
  <2> SUFFICES ASSUME NEW v \in Waiters
               PROVE  /\ want'[v].kind = "seq" => \E r \in 0 .. Bumps : want'[v].val = SeqAt(r)
                      /\ waiter'[v].pc = "timer" => ~waiter'[v].result
    BY <1>1 DEF AnswerBook, At
  <2>1. CASE v = w
    <3>1. Bumps \in 0 .. Bumps /\ notify_seq_value(word) = SeqAt(Bumps)
      BY DEF HonestInv, SeqCounts
    <3> QED BY <1>2, <1>3, <2>1, <3>1
  <2>2. CASE v # w
    BY <1>2, <1>3, <2>2 DEF HonestInv, AnswerBook, At
  <2> QED BY <2>1, <2>2
<1>6. ResultHonest'
  <2> SUFFICES ASSUME NEW v \in Waiters, waiter'[v].pc = "leave"
               PROVE  IF waiter'[v].result THEN ~Pred(v)' ELSE waiter'[v].expired
    BY DEF ResultHonest, At
  <2>1. v # w /\ waiter'[v] = waiter[v] /\ want'[v] = want[v]
    BY <1>2, <1>3
  <2>2. Pred(v)' = Pred(v)
    BY <1>1, <2>1 DEF Pred
  <2> QED BY <2>1, <2>2 DEF HonestInv, ResultHonest, At
<1> QED BY <1>4, <1>5, <1>6 DEF HonestInv

\* Progress is not taken back: a position grows, and a sequence that has left a
\* snapshot has too few bumps ahead of it to come round to it.
LEMMA ProgressStays ==
  ASSUME HonestInv, FewBumps, Publish \/ BumpWord, NEW w \in Waiters, ~Pred(w)
  PROVE  ~Pred(w)'
<1>0. /\ published \in 0 .. MaxBumps /\ Bumps \in 0 .. MaxBumps /\ MaxBumps \in Nat
      /\ word \in NotifyWords /\ want[w].val \in Nat
  BY BumpsBound DEF HonestInv, TypeOK, TypeOKWait
<1>1. CASE Publish
  BY <1>0, <1>1 DEF Publish, Pred
<1>2. CASE BumpWord
  <2>1. UNCHANGED <<published, want>> /\ bpc = "bump" /\ word' = bump_notify_word(word)
    BY <1>2 DEF BumpWord, Bump
  <2>2. CASE want[w].kind # "seq"
    BY <2>1, <2>2 DEF Pred
  <2>3. CASE want[w].kind = "seq"
    <3>1. notify_seq_value(word') = SeqAt(Bumps + 1) /\ Bumps + 1 \in 0 .. MaxBumps
      BY <1>0, <2>1, BumpCounts, SeqAtStep DEF HonestInv, SeqCounts, Bumps
    <3>2. PICK r \in 0 .. Bumps : want[w].val = SeqAt(r)
      BY <2>3 DEF HonestInv, AnswerBook
    <3>3. r \in 0 .. MaxBumps /\ r # Bumps + 1
      BY <1>0
    <3>4. SeqAt(r) # SeqAt(Bumps + 1)
      BY <3>1, <3>3, SeqAtInjective
    <3> QED BY <2>1, <2>3, <3>1, <3>2, <3>4 DEF Pred
  <2> QED BY <2>2, <2>3
<1> QED BY <1>1, <1>2

\* The bumper's store and bump.
LEMMA BumperHonest ==
  ASSUME HonestInv, FewBumps, Publish \/ BumpWord
  PROVE  HonestInv'
<1>0. /\ published \in 0 .. MaxBumps /\ Bumps \in 0 .. MaxBumps /\ MaxBumps \in Nat
      /\ word \in NotifyWords
  BY BumpsBound DEF HonestInv, TypeOK, TypeOKWait
<1>1. UNCHANGED <<waiter, backend, want>>
  BY DEF Publish, BumpWord, Bump
<1>2. TypeOK' /\ SeqCounts' /\ Bumps' \in {Bumps, Bumps + 1}
  <2>1. CASE Publish
    <3>1. /\ UNCHANGED word /\ bpc = "idle" /\ bpc' = "bump"
          /\ published' = published + 1 /\ published < MaxBumps
      BY <2>1 DEF Publish
    <3>2. Bumps' = Bumps
      BY <1>0, <3>1 DEF Bumps
    <3> QED BY <1>0, <1>1, <3>1, <3>2 DEF HonestInv, TypeOK, TypeOKWait, SeqCounts
  <2>2. CASE BumpWord
    <3>1. /\ UNCHANGED published /\ bpc = "bump" /\ bpc' \in {"notify", "idle"}
          /\ word' = bump_notify_word(word)
      BY <2>2 DEF BumpWord, Bump
    <3>2. Bumps' = Bumps + 1
      BY <1>0, <3>1 DEF Bumps
    <3>3. word' \in NotifyWords /\ notify_seq_value(word') = SeqAt(Bumps + 1)
      BY <1>0, <3>1, WordsClosed, BumpCounts, SeqAtStep DEF HonestInv, SeqCounts
    <3> QED BY <1>0, <1>1, <3>1, <3>2, <3>3 DEF HonestInv, TypeOK, TypeOKWait, SeqCounts
  <2> QED BY <2>1, <2>2
<1>3. AnswerBook'
  <2>1. \A r \in 0 .. Bumps : r \in 0 .. Bumps'
    BY <1>0, <1>2
  <2> QED BY <1>1, <2>1 DEF HonestInv, AnswerBook, At
<1>4. ResultHonest'
  <2> SUFFICES ASSUME NEW v \in Waiters, waiter[v].pc = "leave"
               PROVE  IF waiter[v].result THEN ~Pred(v)' ELSE waiter[v].expired
    BY <1>1 DEF ResultHonest, At
  <2>1. IF waiter[v].result THEN ~Pred(v) ELSE waiter[v].expired
    BY DEF HonestInv, ResultHonest, At
  <2> QED BY <2>1, ProgressStays
<1> QED BY <1>2, <1>3, <1>4 DEF HonestInv

\* A notify sends sleepers back into atomic_wait_for, whatever they return there.
LEMMA NotifyHonest ==
  ASSUME HonestInv, NotifyWaiters
  PROVE  HonestInv'
<1>0. waiter \in [Waiters -> WaiterStates]
  BY DEF HonestInv, TypeOK, TypeOKWait
<1>1. /\ UNCHANGED <<word, backend, published, want>> /\ bpc = "notify" /\ bpc' = "idle"
      /\ Bumps' = Bumps /\ \A v \in Waiters : Pred(v)' = Pred(v)
  BY DEF NotifyWaiters, atomic_notify_all, Notify, Bumps, Pred
<1>2. PICK woken \in {Sleepers, {}} :
        waiter' = [w \in Waiters |-> IF w \in woken THEN Woken(waiter[w]) ELSE waiter[w]]
  BY DEF NotifyWaiters, atomic_notify_all, Notify, FutexNotify, Win32Notify, DarwinNotify
<1>3. ASSUME NEW w \in Waiters
      PROVE  /\ waiter'[w] \in WaiterStates
             /\ waiter'[w].pc \in {"timer", "leave"} => waiter'[w] = waiter[w]
  <2>1. CASE w \in woken
    <3>1. Woken(waiter[w]) \in WaiterStates /\ Woken(waiter[w]).pc \in {"back", "load"}
      BY <1>0, WokenShape DEF WaiterStates
    <3> QED BY <1>2, <2>1, <3>1
  <2>2. CASE w \notin woken
    BY <1>0, <1>2, <2>2
  <2> QED BY <2>1, <2>2
<1>4. TypeOK' /\ SeqCounts'
  <2>1. waiter' \in [Waiters -> WaiterStates]
    BY <1>2, <1>3
  <2> QED BY <1>1, <2>1 DEF HonestInv, TypeOK, TypeOKWait, SeqCounts
<1>5. AnswerBook'
  BY <1>1, <1>3 DEF HonestInv, AnswerBook, At
<1>6. ResultHonest'
  <2> SUFFICES ASSUME NEW v \in Waiters, waiter'[v].pc = "leave"
               PROVE  IF waiter'[v].result THEN ~Pred(v)' ELSE waiter'[v].expired
    BY DEF ResultHonest, At
  <2>1. waiter'[v] = waiter[v]
    BY <1>3
  <2> QED BY <1>1, <2>1 DEF HonestInv, ResultHonest, At
<1> QED BY <1>4, <1>5, <1>6 DEF HonestInv

\* Every step keeps it.
LEMMA NextHonest ==
  ASSUME FewBumps, HonestInv, [Next]_vars
  PROVE  HonestInv'
<1>1. CASE Publish \/ BumpWord
  BY <1>1, BumperHonest
<1>2. CASE NotifyWaiters
  BY <1>2, NotifyHonest
<1>3. ASSUME NEW w \in Waiters, Call(w) PROVE HonestInv'
  BY <1>3, CallHonest
<1>4. ASSUME NEW w \in Waiters, WaiterStep(w) PROVE HonestInv'
  BY <1>4, PredHonest, TimerHonest, OtherHonest DEF WaiterStep, WaitStep
<1>5. ASSUME NEW w \in Waiters, Environment(w) PROVE HonestInv'
  BY <1>5, TimerHonest, OtherHonest DEF Environment
<1>6. CASE UNCHANGED vars
  <2>1. UNCHANGED <<word, waiter, backend, published, bpc, want>>
    BY <1>6 DEF vars
  <2> QED BY <2>1 DEF HonestInv, TypeOK, TypeOKWait, SeqCounts, AnswerBook, ResultHonest, Bumps, Pred, At
<1> QED BY <1>1, <1>2, <1>3, <1>4, <1>5, <1>6 DEF Next

\* Nobody waits at the start.
LEMMA InitHonest == Init => HonestInv
<1> SUFFICES ASSUME Init PROVE HonestInv
  OBVIOUS
<1>1. TypeOK /\ SeqCounts
  BY InitKeepsInvariant DEF WakeupInv
<1>2. \A w \in Waiters : waiter[w].pc = "out" /\ want[w].kind = "state"
  BY DEF Init, WaiterInit, IdleWaiter
<1> QED BY <1>1, <1>2 DEF HonestInv, AnswerBook, ResultHonest, At

\* In every reachable state a snapshot is an earlier value of the sequence and a
\* call on its way out has its answer right, for any number of waiters.
THEOREM HonestInvariantHolds ==
  ASSUME FewBumps
  PROVE  Spec => []HonestInv
<1>1. HonestInv /\ [Next]_vars => HonestInv'
  BY NextHonest
<1> QED BY <1>1, InitHonest, PTL DEF Spec

\* The word stays in its 32 bits and the locals of wait_on_notify_word(_for) in
\* their types, for any number of waiters.
THEOREM NotifyTypeCorrect ==
  ASSUME FewBumps
  PROVE  Spec => []TypeOK
<1>1. HonestInv => TypeOK
  BY DEF HonestInv
<1> QED BY <1>1, HonestInvariantHolds, PTL

\* wait_on_notify_word(_for) returns true only if pred() has become false and
\* stays so, false only after the deadline; however many wait on the word, on
\* every backend, whatever the kernel's reasons to end a sleep.
THEOREM ResultIsHonest ==
  ASSUME FewBumps
  PROVE  Spec => []ResultHonest
<1>1. HonestInv => ResultHonest
  BY DEF HonestInv
<1> QED BY <1>1, HonestInvariantHolds, PTL

=============================================================================

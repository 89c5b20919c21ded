-------------------------- MODULE AtomicWaitProofs --------------------------
(***************************************************************************)
(* What atomic_wait and atomic_wait_for return is true: proved for any     *)
(* number of threads, any values and every backend.                        *)
(***************************************************************************)
EXTENDS AtomicWaitSystem, TLAPS

\* A step of one call that leaves the word alone.
LEMMA LocalAnswer ==
  ASSUME AnswerInv, NEW w \in Waiters, NEW c \in Calls, waiter' = [waiter EXCEPT ![w] = c],
         UNCHANGED <<word, backend, notifying, policy, seen>>,
         c.marked = waiter[w].marked, c.call = waiter[w].call, c.expired => c.timed,
         c.pc = "last" => c.expired, c.pc \notin {"out", "back"} => Inside(w),
         c.pc = "back" => IF c.result THEN seen[w] \/ Is(w, "futex", "wait_for") ELSE c.timed /\ c.expired
  PROVE  AnswerInv'
<1>1. waiter \in [Waiters -> Calls] /\ waiter'[w] = c /\ \A v \in Waiters \ {w} : waiter'[v] = waiter[v]
  BY DEF AnswerInv, TypeOK
<1>2. TypeOK'
  BY <1>1 DEF AnswerInv, TypeOK
<1>3. SeenBook'
  <2> SUFFICES ASSUME NEW v \in Waiters
               PROVE  /\ Stuck(v)' => seen[v]
                      /\ waiter'[v].expired => waiter'[v].timed
                      /\ waiter'[v].pc = "last" => waiter'[v].expired
    BY DEF SeenBook, At
  <2>1. CASE v = w
    BY <1>1, <2>1 DEF AnswerInv, SeenBook, Stuck, Inside
  <2>2. CASE v # w
    BY <1>1, <2>2 DEF AnswerInv, SeenBook, Stuck, Inside, At
  <2> QED BY <2>1, <2>2
<1>4. AnswerHonest'
  <2> SUFFICES ASSUME NEW v \in Waiters, waiter'[v].pc = "back"
               PROVE  IF waiter'[v].result THEN seen[v] \/ Is(v, "futex", "wait_for")'
                      ELSE waiter'[v].timed /\ waiter'[v].expired
    BY DEF AnswerHonest, At
  <2>1. CASE v = w
    BY <1>1, <2>1 DEF Is
  <2>2. CASE v # w
    BY <1>1, <2>2 DEF AnswerInv, AnswerHonest, At, Is
  <2> QED BY <2>1, <2>2
<1> QED BY <1>2, <1>3, <1>4 DEF AnswerInv

\* Going on inside the call.
LEMMA GotoAnswer ==
  ASSUME AnswerInv, NEW w \in Waiters, NEW pc \in BlockPC \ {"back"}, Goto(w, pc), Inside(w),
         pc = "last" => waiter[w].expired, UNCHANGED <<notifying, policy, seen>>
  PROVE  AnswerInv'
<1> DEFINE c == [waiter[w] EXCEPT !.pc = pc]
<1>0. waiter[w] \in Calls /\ waiter \in [Waiters -> Calls]
  BY DEF AnswerInv, TypeOK
<1>1. waiter' = [waiter EXCEPT ![w] = c] /\ UNCHANGED <<word, backend>>
  BY <1>0 DEF Goto
<1>2. /\ c \in Calls /\ c.pc = pc /\ c.marked = waiter[w].marked /\ c.call = waiter[w].call
      /\ c.timed = waiter[w].timed /\ c.expired = waiter[w].expired
  BY <1>0 DEF Calls
<1>3. waiter[w].expired => waiter[w].timed
  BY DEF AnswerInv, SeenBook
<1>4. pc # "back"
  OBVIOUS
<1> HIDE DEF c
<1> QED BY <1>1, <1>2, <1>3, <1>4, LocalAnswer, Zenon

\* Coming back with an answer one has reason for.
LEMMA ReturnAnswer ==
  ASSUME AnswerInv, NEW w \in Waiters, NEW ok \in BOOLEAN, Return(w, ok),
         IF ok THEN seen[w] \/ Is(w, "futex", "wait_for") ELSE waiter[w].expired,
         UNCHANGED <<notifying, policy, seen>>
  PROVE  AnswerInv'
<1> DEFINE c == [waiter[w] EXCEPT !.pc = "back", !.result = ok]
<1>0. waiter[w] \in Calls /\ waiter \in [Waiters -> Calls]
  BY DEF AnswerInv, TypeOK
<1>1. waiter' = [waiter EXCEPT ![w] = c] /\ UNCHANGED <<word, backend>>
  BY <1>0, Zenon DEF Return
<1>2. /\ c \in Calls /\ c.pc = "back" /\ c.marked = waiter[w].marked /\ c.call = waiter[w].call
      /\ c.timed = waiter[w].timed /\ c.expired = waiter[w].expired /\ c.result = ok
  BY <1>0, Zenon DEF Calls, BlockPC
<1>3. waiter[w].expired => waiter[w].timed
  BY DEF AnswerInv, SeenBook
<1> HIDE DEF c
<1> QED BY <1>1, <1>2, <1>3, LocalAnswer, Zenon

\* What a call becomes when the kernel ends its sleep.
LEMMA WokenShape ==
  ASSUME NEW call \in Calls, NEW w \in Waiters, call = waiter[w]
  PROVE  /\ Woken(call) \in Calls /\ Woken(call).marked = call.marked /\ Woken(call).call = call.call
         /\ Woken(call).timed = call.timed /\ Woken(call).expired = call.expired
         /\ Woken(call).pc \in {"back", "load"}
         /\ Woken(call).pc = "back" => Woken(call).result /\ Is(w, "futex", "wait_for")
<1>1. CASE backend = "futex" /\ call.call = "wait_for"
  BY <1>1, Zenon DEF Woken, Calls, BlockPC, Is
<1>2. CASE ~(backend = "futex" /\ call.call = "wait_for")
  BY <1>2 DEF Woken, Calls, BlockPC
<1> QED BY <1>1, <1>2

\* Entering the kernel, and being sent back by it.
LEMMA KernelAnswer ==
  ASSUME AnswerInv, NEW w \in Waiters, KernelWait(w) \/ SpuriousWake(w),
         UNCHANGED <<notifying, policy, seen>>
  PROVE  AnswerInv'
<1>0. waiter[w] \in Calls /\ waiter \in [Waiters -> Calls] /\ Inside(w)
      /\ (waiter[w].expired => waiter[w].timed) /\ UNCHANGED <<word, backend>>
  BY DEF AnswerInv, TypeOK, SeenBook, KernelWait, SpuriousWake, At, Inside
<1>1. CASE KernelWait(w) /\ word = waiter[w].marked
  <2>1. Goto(w, "asleep")
    BY <1>0, <1>1 DEF KernelWait, Goto
  <2> QED BY <1>0, <2>1, GotoAnswer DEF BlockPC
<1>2. CASE waiter' = [waiter EXCEPT ![w] = Woken(waiter[w])]
  <2> DEFINE c == Woken(waiter[w])
  <2>1. /\ c \in Calls /\ c.marked = waiter[w].marked /\ c.call = waiter[w].call
        /\ c.timed = waiter[w].timed /\ c.expired = waiter[w].expired
        /\ c.pc \in {"back", "load"}
        /\ c.pc = "back" => c.result /\ Is(w, "futex", "wait_for")
    BY <1>0, WokenShape
  <2>2. waiter' = [waiter EXCEPT ![w] = c]
    BY <1>2
  <2> HIDE DEF c
  <2> QED BY <1>0, <2>1, <2>2, LocalAnswer, Zenon
<1> QED BY <1>1, <1>2 DEF KernelWait, SpuriousWake

\* Finding the word changed is a reason to return true.
LEMMA CompareAnswer ==
  ASSUME AnswerInv, NEW w \in Waiters, NEW pc \in {"deadline", "block", "poll"},
         Compare(w, pc) \/ CheckDeadline(w, pc), UNCHANGED <<notifying, policy, seen>>
  PROVE  AnswerInv'
<1>1. Inside(w) /\ pc \in BlockPC \ {"back"} /\ pc # "last" /\ TRUE \in BOOLEAN /\ FALSE \in BOOLEAN
  BY Zenon DEF Compare, CheckDeadline, At, Inside, BlockPC
<1>2. CASE Goto(w, pc)
  BY <1>1, <1>2, GotoAnswer
<1>3. CASE Return(w, TRUE) /\ word # waiter[w].marked
  <2>1. seen[w]
    BY <1>1, <1>3 DEF AnswerInv, SeenBook, Stuck
  <2> QED BY <1>1, <1>3, <2>1, ReturnAnswer, Zenon
<1>4. CASE Return(w, FALSE) /\ waiter[w].expired
  BY <1>1, <1>4, ReturnAnswer, Zenon
<1> QED BY <1>2, <1>3, <1>4, Zenon DEF Compare, CheckDeadline

\* The loops that end with a change of the word only.
LEMMA PollAnswer ==
  ASSUME AnswerInv, NEW w \in Waiters, polling_wait(w) \/ atomic_poll(w),
         UNCHANGED <<notifying, policy, seen>>
  PROVE  AnswerInv'
<1>1. Inside(w) /\ word # waiter[w].marked /\ "load" \in BlockPC \ {"back"} /\ TRUE \in BOOLEAN
  BY Zenon DEF polling_wait, atomic_poll, At, Inside, BlockPC
<1>2. seen[w]
  BY <1>1 DEF AnswerInv, SeenBook, Stuck
<1>3. Goto(w, "load") \/ Return(w, TRUE)
  BY Zenon DEF polling_wait, atomic_poll
<1> QED BY <1>1, <1>2, <1>3, GotoAnswer, ReturnAnswer, Zenon

\* The kernel's timeout, and the end of a slice of it.
LEMMA TimeoutAnswer ==
  ASSUME AnswerInv, NEW w \in Waiters, UNCHANGED <<notifying, policy, seen>>,
         \/ TimeoutFires(w) /\ (Return(w, FALSE) \/ Goto(w, "last"))
         \/ SliceEnds(w)
         \/ At(w, "last") /\ Return(w, word # waiter[w].marked)
  PROVE  AnswerInv'
<1>0. /\ Inside(w) /\ "load" \in BlockPC \ {"back"} /\ "last" \in BlockPC \ {"back"}
      /\ TRUE \in BOOLEAN /\ FALSE \in BOOLEAN
  BY Zenon DEF TimeoutFires, SliceEnds, At, Inside, BlockPC
<1>1. CASE TimeoutFires(w) /\ Return(w, FALSE)
  BY <1>0, <1>1, ReturnAnswer, Zenon DEF TimeoutFires
<1>2. CASE TimeoutFires(w) /\ Goto(w, "last")
  BY <1>0, <1>2, GotoAnswer DEF TimeoutFires
<1>3. CASE SliceEnds(w)
  BY <1>0, <1>3, GotoAnswer DEF SliceEnds
<1>4. CASE At(w, "last") /\ Return(w, word # waiter[w].marked)
  <2>1. waiter[w].expired /\ (word # waiter[w].marked => seen[w])
    BY <1>0, <1>4 DEF AnswerInv, SeenBook, Stuck
  <2>2. CASE word = waiter[w].marked
    <3>1. Return(w, FALSE)
      BY <1>4, <2>2, Zenon DEF Return
    <3> QED BY <1>0, <2>1, <3>1, ReturnAnswer, Zenon
  <2>3. CASE word # waiter[w].marked
    <3>1. Return(w, TRUE)
      BY <1>4, <2>3, Zenon DEF Return
    <3> QED BY <1>0, <2>1, <2>3, <3>1, ReturnAnswer, Zenon
  <2> QED BY <2>2, <2>3
<1> QED BY <1>1, <1>2, <1>3, <1>4, Zenon

\* Every backend is made of these pieces.
LEMMA BlockAnswer ==
  ASSUME AnswerInv, NEW w \in Waiters, WaiterStep(w)
  PROVE  AnswerInv'
<1>0. UNCHANGED <<notifying, policy, seen>> /\ BlockStep(w)
  BY DEF WaiterStep
<1>1. CASE \E pc \in {"deadline", "block", "poll"} : Compare(w, pc) \/ CheckDeadline(w, pc)
  BY <1>0, <1>1, CompareAnswer
<1>2. CASE KernelWait(w)
  BY <1>0, <1>2, KernelAnswer
<1>3. CASE \/ TimeoutFires(w) /\ (Return(w, FALSE) \/ Goto(w, "last"))
           \/ SliceEnds(w)
           \/ At(w, "last") /\ Return(w, word # waiter[w].marked)
  BY <1>0, <1>3, TimeoutAnswer, Zenon
<1>4. CASE polling_wait(w) \/ atomic_poll(w)
  BY <1>0, <1>4, PollAnswer
<1>5. CASE FutexAtomicWait(w) \/ FutexWaitFor(w)
  BY <1>1, <1>2, <1>3, <1>5, Zenon DEF FutexAtomicWait, FutexWaitFor
<1>6. CASE Win32AtomicWait(w) \/ Win32WaitFor(w)
  BY <1>1, <1>2, <1>3, <1>6, Zenon DEF Win32AtomicWait, Win32WaitFor
<1>7. CASE Win32PollingWait(w)
  BY <1>1, <1>4, <1>7 DEF Win32PollingWait
<1>8. CASE DarwinAtomicWait(w) \/ OsSyncWaitFor(w) \/ UlockWaitFor(w)
  BY <1>1, <1>2, <1>3, <1>8, Zenon DEF DarwinAtomicWait, OsSyncWaitFor, UlockWaitFor
<1>9. CASE PortableWaitFor(w)
  BY <1>1, <1>4, <1>9 DEF PortableWaitFor
<1> QED BY <1>0, <1>5, <1>6, <1>7, <1>8, <1>9 DEF BlockStep

\* A deadline passes only for those who have one.
LEMMA ClockAnswer ==
  ASSUME AnswerInv, NEW w \in Waiters, Clock(w)
  PROVE  AnswerInv'
<1> DEFINE c == [waiter[w] EXCEPT !.expired = TRUE]
<1>0. waiter[w] \in Calls /\ waiter \in [Waiters -> Calls]
  BY DEF AnswerInv, TypeOK
<1>1. /\ waiter' = [waiter EXCEPT ![w] = c] /\ waiter[w].timed /\ waiter[w].pc # "out"
      /\ ~waiter[w].expired /\ UNCHANGED <<word, backend, notifying, policy, seen>>
  BY <1>0 DEF Clock, Expire, At
<1>2. /\ c \in Calls /\ c.pc = waiter[w].pc /\ c.marked = waiter[w].marked /\ c.call = waiter[w].call
      /\ c.timed = waiter[w].timed /\ c.expired = TRUE /\ c.result = waiter[w].result
  BY <1>0, Zenon DEF Calls
<1>3. waiter[w].pc = "back" /\ waiter[w].result => seen[w] \/ Is(w, "futex", "wait_for")
  BY DEF AnswerInv, AnswerHonest, At
<1> HIDE DEF c
<1>4. c.pc \notin {"out", "back"} => Inside(w)
  BY <1>2 DEF Inside
<1> QED BY <1>1, <1>2, <1>3, <1>4, LocalAnswer, Zenon

\* A call that begins has seen a change if it came too late for its old value;
\* one that has ended has seen nothing.
LEMMA CallAnswer ==
  ASSUME AnswerInv, NEW w \in Waiters, Call(w) \/ Done(w)
  PROVE  AnswerInv'
<1>0. waiter \in [Waiters -> Calls] /\ seen \in [Waiters -> BOOLEAN]
  BY DEF AnswerInv, TypeOK
<1>1. UNCHANGED <<word, backend, notifying, policy>>
  BY Zenon DEF Call, Done, StartWait, backoff_wait, EndWait
<1>2. PICK c \in Calls, s \in BOOLEAN :
        /\ waiter' = [waiter EXCEPT ![w] = c] /\ seen' = [seen EXCEPT ![w] = s]
        /\ ~c.expired /\ c.pc \in {"out", "load"} /\ (c.pc = "load" /\ word # c.marked => s)
  <2>1. CASE Done(w)
    <3>1. NoCall \in Calls /\ NoCall.pc = "out" /\ ~NoCall.expired
      BY DEF NoCall, Calls
    <3>2. waiter' = [waiter EXCEPT ![w] = NoCall] /\ seen' = [seen EXCEPT ![w] = FALSE]
      BY <2>1 DEF Done, EndWait
    <3> QED BY <3>1, <3>2, Zenon
  <2>2. CASE Call(w)
    <3>1. PICK old \in Values, call \in {"wait", "wait_for"}, timed \in BOOLEAN :
            StartWait(w, call, timed, old) /\ seen' = [seen EXCEPT ![w] = (word # old)]
      BY <2>2, Zenon DEF Call, backoff_wait
    <3> DEFINE c == [NoCall EXCEPT !.pc = "load", !.call = call, !.timed = timed, !.marked = old]
    <3>2. waiter' = [waiter EXCEPT ![w] = c]
      BY <3>1 DEF StartWait
    <3>3. c \in Calls /\ c.pc = "load" /\ c.expired = FALSE /\ c.marked = old
      BY Zenon DEF NoCall, Calls, BlockPC
    <3>4. (word # old) \in BOOLEAN
      OBVIOUS
    <3> HIDE DEF c
    <3> QED BY <3>1, <3>2, <3>3, <3>4, Zenon
  <2> QED BY <2>1, <2>2
<1>3. /\ waiter'[w] = c /\ seen'[w] = s
      /\ \A v \in Waiters \ {w} : waiter'[v] = waiter[v] /\ seen'[v] = seen[v]
  BY <1>0, <1>2
<1>4. TypeOK'
  BY <1>0, <1>1, <1>2 DEF AnswerInv, TypeOK
<1>5. ASSUME NEW v \in Waiters
      PROVE  /\ Stuck(v)' => seen'[v]
             /\ waiter'[v].expired => waiter'[v].timed
             /\ waiter'[v].pc = "last" => waiter'[v].expired
             /\ waiter'[v].pc = "back" =>
                  IF waiter'[v].result THEN seen'[v] \/ Is(v, "futex", "wait_for")'
                  ELSE waiter'[v].timed /\ waiter'[v].expired
  <2>1. CASE v = w
    BY <1>1, <1>2, <1>3, <2>1 DEF Stuck, Inside
  <2>2. CASE v # w
    BY <1>1, <1>3, <2>2 DEF AnswerInv, SeenBook, AnswerHonest, Stuck, Inside, At, Is
  <2> QED BY <2>1, <2>2
<1> QED BY <1>4, <1>5 DEF AnswerInv, SeenBook, AnswerHonest, At

\* A store is seen by everybody inside a call on another value.
LEMMA StoreAnswer ==
  ASSUME AnswerInv, Store
  PROVE  AnswerInv'
<1>1. /\ UNCHANGED <<waiter, backend, policy>> /\ word' \in Values /\ notifying' = TRUE
      /\ seen' = [w \in Waiters |-> ~At(w, "out") /\ (seen[w] \/ word' # waiter[w].marked)]
      /\ seen \in [Waiters -> BOOLEAN]
  BY DEF Store, AnswerInv, TypeOK
<1>2. TypeOK'
  <2>1. seen' \in [Waiters -> BOOLEAN]
    BY <1>1
  <2> QED BY <1>1, <2>1 DEF AnswerInv, TypeOK
<1>3. ASSUME NEW v \in Waiters, waiter[v].pc # "out"
      PROVE  (seen[v] \/ word' # waiter[v].marked) => seen'[v]
  BY <1>1, <1>3, Zenon DEF At
<1>4. SeenBook' /\ AnswerHonest'
  BY <1>1, <1>3 DEF AnswerInv, SeenBook, AnswerHonest, Stuck, Inside, At, Is
<1> QED BY <1>2, <1>4 DEF AnswerInv

\* A notify sends sleepers, whichever it reaches, back to where they came from.
LEMMA NotifyAnswer ==
  ASSUME AnswerInv, NotifyStep
  PROVE  AnswerInv'
<1>0. waiter \in [Waiters -> Calls]
  BY DEF AnswerInv, TypeOK
<1>1. /\ UNCHANGED <<word, backend, policy, seen>> /\ notifying' = FALSE
      /\ \E woken \in SUBSET Sleepers :
           waiter' = [w \in Waiters |-> IF w \in woken THEN Woken(waiter[w]) ELSE waiter[w]]
  <2>1. PICK targets : Notify(targets) /\ \A t \in targets : t \in SUBSET Sleepers
    BY DEF NotifyStep, atomic_notify_one, atomic_notify_all
  <2>2. {} \in SUBSET Sleepers
    OBVIOUS
  <2>3. UNCHANGED <<policy, seen>> /\ notifying' = FALSE
    BY DEF NotifyStep
  <2> QED BY <2>1, <2>2, <2>3 DEF Notify, FutexNotify, Win32Notify, DarwinNotify
<1>2. PICK woken \in SUBSET Sleepers :
        waiter' = [w \in Waiters |-> IF w \in woken THEN Woken(waiter[w]) ELSE waiter[w]]
  BY <1>1
<1>3. ASSUME NEW w \in Waiters
      PROVE  \/ waiter'[w] = waiter[w]
             \/ /\ waiter'[w] \in Calls /\ Inside(w) /\ waiter'[w].marked = waiter[w].marked
                /\ waiter'[w].call = waiter[w].call
                /\ waiter'[w].timed = waiter[w].timed /\ waiter'[w].expired = waiter[w].expired
                /\ waiter'[w].pc \in {"back", "load"}
                /\ waiter'[w].pc = "back" => waiter'[w].result /\ Is(w, "futex", "wait_for")
  <2>1. CASE w \in woken
    <3>1. waiter'[w] = Woken(waiter[w]) /\ Inside(w) /\ waiter[w] \in Calls
      BY <1>0, <1>2, <2>1 DEF Sleepers, At, Inside
    <3> QED BY <3>1, WokenShape
  <2>2. CASE w \notin woken
    BY <1>2, <2>2
  <2> QED BY <2>1, <2>2
<1>4. TypeOK'
  <2>1. waiter' \in [Waiters -> Calls]
    BY <1>0, <1>2, <1>3
  <2> QED BY <1>1, <2>1, Zenon DEF AnswerInv, TypeOK
<1>5. ASSUME NEW v \in Waiters
      PROVE  /\ Stuck(v)' => seen'[v]
             /\ waiter'[v].expired => waiter'[v].timed
             /\ waiter'[v].pc = "last" => waiter'[v].expired
             /\ waiter'[v].pc = "back" =>
                  IF waiter'[v].result THEN seen'[v] \/ Is(v, "futex", "wait_for")'
                  ELSE waiter'[v].timed /\ waiter'[v].expired
  <2>1. CASE waiter'[v] = waiter[v]
    BY <1>1, <2>1 DEF AnswerInv, SeenBook, AnswerHonest, Stuck, Inside, At, Is
  <2>2. CASE waiter'[v] # waiter[v]
    BY <1>1, <1>3, <2>2 DEF AnswerInv, SeenBook, Stuck, Inside, Is
  <2> QED BY <2>1, <2>2
<1> QED BY <1>4, <1>5 DEF AnswerInv, SeenBook, AnswerHonest, At

\* Every step keeps the invariant.
LEMMA NextAnswer ==
  ASSUME AnswerInv, [Next]_vars
  PROVE  AnswerInv'
<1>1. ASSUME NEW w \in Waiters, Interrupt(w) PROVE AnswerInv'
  BY <1>1, KernelAnswer DEF Interrupt
<1>2. CASE UNCHANGED vars
  <2>1. UNCHANGED <<word, waiter, backend, notifying, policy, seen>>
    BY <1>2 DEF vars
  <2> QED BY <2>1 DEF AnswerInv, TypeOK, SeenBook, AnswerHonest, Stuck, Inside, At, Is
<1> QED BY <1>1, <1>2, StoreAnswer, NotifyAnswer, CallAnswer, BlockAnswer, ClockAnswer DEF Next

\* Nobody waits at the start, and the dispatch has picked a backend.
LEMMA InitAnswer == Init => AnswerInv
<1> SUFFICES ASSUME Init PROVE AnswerInv
  OBVIOUS
<1>1. backend \in {"futex", "win32", "win32_poll", "os_sync", "ulock", "portable"}
  BY DEF Init, BackendOn
<1>2. NoCall \in Calls /\ NoCall.pc = "out" /\ NoCall.expired = FALSE
  BY DEF NoCall, Calls
<1>3. /\ waiter \in [Waiters -> Calls] /\ seen \in [Waiters -> BOOLEAN]
      /\ \A w \in Waiters : waiter[w].pc = "out" /\ waiter[w].expired = FALSE
  BY <1>2 DEF Init
<1>4. TypeOK
  BY <1>1, <1>3, Zenon DEF Init, TypeOK
<1> QED BY <1>3, <1>4 DEF AnswerInv, SeenBook, AnswerHonest, Stuck, Inside, At

\* Whoever could find the word changed was there when it changed, and a deadline
\* passes only for timed calls, in every reachable state.
THEOREM AnswerInvariantHolds ==
  Spec => []AnswerInv
<1>1. AnswerInv /\ [Next]_vars => AnswerInv'
  BY NextAnswer
<1> QED BY <1>1, InitAnswer, PTL DEF Spec

\* Every call of atomic_wait, atomic_wait_for and backoff.wait is of a known kind
\* and at a known place, on whichever backend the dispatch picks.
THEOREM AtomicWaitTypeCorrect ==
  Spec => []TypeOK
<1>1. AnswerInv => TypeOK
  BY DEF AnswerInv
<1> QED BY <1>1, AnswerInvariantHolds, PTL

\* What a wait returns is true on every platform, for any number of threads and
\* values: false only after the deadline of a timed call, true only if the word
\* did have another value meanwhile (or a futex was woken for nothing).
THEOREM AnswersAreHonest ==
  Spec => []AnswerHonest
<1>1. AnswerInv => AnswerHonest
  BY DEF AnswerInv
<1> QED BY <1>1, AnswerInvariantHolds, PTL

=============================================================================

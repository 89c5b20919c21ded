----------------------------- MODULE NotifyWord -----------------------------
(***************************************************************************)
(* One notify word and the threads that wait on it: wait_on_notify_word    *)
(* and wait_on_notify_word_for (notify_word.hpp), which block through      *)
(* atomic_wait_for (AtomicWait).  The module is open: the predicate a      *)
(* waiter passes is evaluated by whoever composes it, as is the bumper.    *)
(***************************************************************************)
EXTENDS NotifyBits, AtomicWait

\* check    about to evaluate pred() at the head of the loop
\* mark     about to fetch_or the waiter bit
\* recheck  about to evaluate pred() again
\* timer    about to look at the clock (timed variant)
\* leave    about to clear the bit (if registered) and return
\* A thread that comes back from atomic_wait_for is at the head of the loop.
WaitPC == {"out", "check", "mark", "recheck", "timer", "leave"} \cup BlockPC

\* expired: what remains of the time, in whole milliseconds, is 0; result: what the
\* call returns.
\* marked is NoMark until the call has marked the word.
NoMark == -1

WaiterStates ==
  [pc : WaitPC, call : {"wait_for"}, marked : NotifyWords \cup {NoMark},
   registered : BOOLEAN, timed : BOOLEAN, expired : BOOLEAN, result : BOOLEAN]

IdleWaiter == [pc |-> "out", call |-> "wait_for", marked |-> NoMark, registered |-> FALSE,
               timed |-> FALSE, expired |-> FALSE, result |-> FALSE]

WaiterInit == waiter = [w \in Waiters |-> IdleWaiter]

WaitCall(w, timed) ==
  /\ At(w, "out")
  /\ waiter' = [waiter EXCEPT ![w] = [IdleWaiter EXCEPT !.pc = "check", !.timed = timed]]
  /\ UNCHANGED <<word, backend>>

\* Mutants.  registered_by_us forgets earlier rounds:
MarkForgetful(w) ==
  /\ At(w, "mark")
  /\ word' = SetWaiter(word)
  /\ waiter' = [waiter EXCEPT ![w].pc = "recheck", ![w].marked = word,
                              ![w].registered = ~HasWaiter(word)]
  /\ UNCHANGED backend
\* the predicate is not re-checked after registering:
RecheckSkipped(w, pred) ==
  At(w, "recheck") /\ Goto(w, IF waiter[w].timed THEN "timer" ELSE "load")
\* the deadline test is the wrong way round, or missing:
TimerInverted(w) == At(w, "timer") /\ Goto(w, IF waiter[w].expired THEN "load" ELSE "leave")
TimerIgnored(w) == At(w, "timer") /\ Goto(w, "load")

\* if (!pred()) at the head of the loop
CheckPred(w, pred) ==
  /\ At(w, "check") \/ At(w, "back")
  /\ waiter' = [waiter EXCEPT ![w].pc = IF pred THEN "mark" ELSE "leave",
                              ![w].result = ~pred]
  /\ UNCHANGED <<word, backend>>

\* marked = word.fetch_or(bit): the value before the bit went in
MarkWaiter(w) ==
  /\ At(w, "mark")
  /\ word' = SetWaiter(word)
  /\ waiter' = [waiter EXCEPT ![w].pc = "recheck", ![w].marked = word,
                              ![w].registered = @ \/ ~HasWaiter(word)]
  /\ UNCHANGED backend

RecheckPred(w, pred) ==
  /\ At(w, "recheck")
  /\ waiter' = [waiter EXCEPT
       ![w].pc = IF ~pred THEN "leave" ELSE IF waiter[w].timed THEN "timer" ELSE "load",
       ![w].result = ~pred]
  /\ UNCHANGED <<word, backend>>

\* remaining_ms <= 0; else atomic_wait_for for what remains
CheckTimer(w) == At(w, "timer") /\ Goto(w, IF waiter[w].expired THEN "leave" ELSE "load")

\* atomic_wait_for has a deadline of its own: now plus the whole milliseconds that
\* remain.  Where it cuts what is left of that to milliseconds again (ulock) or
\* counts in coarse ticks (win32_poll), it gives up while a millisecond of this
\* call's time is left, and the loop goes round once more.
EndsEarly(w) ==
  /\ backend \in {"ulock", "win32_poll"} /\ waiter[w].timed
  /\ At(w, "deadline") /\ Return(w, FALSE)

\* fetch_and(~bit) if this call set it, then return
WaitReturn(w) ==
  /\ At(w, "leave")
  /\ word' = IF waiter[w].registered THEN ClearWaiter(word) ELSE word
  /\ waiter' = [waiter EXCEPT ![w] = IdleWaiter]
  /\ UNCHANGED backend

\* bump_notify_word, then atomic_notify_all when it returned true: two steps of
\* the bumper.
Bump == word' = bump_notify_word(word) /\ UNCHANGED <<waiter, backend>>

\* The steps of a waiter inside a call, pred being what its predicate returns
\* now.
WaitStep(w, pred) ==
  CheckPred(w, pred) \/ MarkWaiter(w) \/ RecheckPred(w, pred) \/ CheckTimer(w)
  \/ BlockStep(w) \/ EndsEarly(w) \/ WaitReturn(w)

TypeOKWait == word \in NotifyWords /\ waiter \in [Waiters -> WaiterStates]

=============================================================================

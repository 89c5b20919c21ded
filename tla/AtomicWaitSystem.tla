-------------------------- MODULE AtomicWaitSystem --------------------------
(***************************************************************************)
(* The wait primitives on their own, as backoff.wait and direct callers    *)
(* use them: threads that wait for a word to leave an old value, and one   *)
(* that keeps storing to the word and notifies after every store, always   *)
(* one waiter or always all.                                               *)
(***************************************************************************)
EXTENDS AtomicWait

CONSTANTS Systems,  \* the operating systems looked at
          Values    \* what the word may hold

ASSUME AtomicWaitAssumption ==
  Systems \subseteq {"linux", "windows", "macos", "other"} /\ Values \subseteq Nat

VARIABLES notifying,  \* a store was made and its notify is due
          policy,     \* which notify the storing thread uses
          seen        \* seen[w]: the word had another value than w's since w called

vars == <<word, waiter, backend, notifying, policy, seen>>

KernelCalls == {"wait_on_address", "wake_one", "wake_all", "os_sync_wait_on_address"}

Init ==
  /\ word \in Values
  /\ waiter = [w \in Waiters |-> NoCall]
  /\ \E os \in Systems, found \in SUBSET KernelCalls : backend = BackendOn(os, found)
  /\ notifying = FALSE /\ policy \in {"one", "all"}
  /\ seen = [w \in Waiters |-> FALSE]

-----------------------------------------------------------------------------
\* atomic_wait(&word, old), or atomic_wait_for with or without a timeout.
Call(w) ==
  /\ \E old \in Values :
       /\ \/ StartWait(w, "wait", FALSE, old)
          \/ StartWait(w, "wait_for", FALSE, old)
          \/ backoff_wait(w, old)
       /\ seen' = [seen EXCEPT ![w] = (word # old)]
  /\ UNCHANGED <<notifying, policy>>

Done(w) ==
  /\ EndWait(w)
  /\ seen' = [seen EXCEPT ![w] = FALSE]
  /\ UNCHANGED <<notifying, policy>>

Store ==
  /\ ~notifying
  /\ word' \in Values \ {word}
  /\ notifying' = TRUE
  /\ seen' = [w \in Waiters |-> ~At(w, "out") /\ (seen[w] \/ word' # waiter[w].marked)]
  /\ UNCHANGED <<waiter, backend, policy>>

NotifyStep ==
  /\ notifying /\ notifying' = FALSE
  /\ IF policy = "one" THEN atomic_notify_one ELSE atomic_notify_all
  /\ UNCHANGED <<policy, seen>>

WaiterStep(w) == BlockStep(w) /\ UNCHANGED <<notifying, policy, seen>>

Clock(w) == Expire(w) /\ UNCHANGED <<notifying, policy, seen>>

Interrupt(w) == SpuriousWake(w) /\ UNCHANGED <<notifying, policy, seen>>

Next == Store \/ NotifyStep
        \/ \E w \in Waiters : Call(w) \/ Done(w) \/ WaiterStep(w) \/ Clock(w) \/ Interrupt(w)

Spec == Init /\ [][Next]_vars

\* Threads inside a call and a notifier that has stored keep running, clocks
\* advance and the kernel's timeouts fire.
FairSpec ==
  /\ Spec /\ WF_vars(NotifyStep)
  /\ \A w \in Waiters : WF_vars(WaiterStep(w)) /\ WF_vars(Clock(w)) /\ WF_vars(Done(w))

-----------------------------------------------------------------------------
Calls == [pc : BlockPC \cup {"out"}, call : {"wait", "wait_for"}, marked : Values \cup {0},
          timed : BOOLEAN, expired : BOOLEAN, result : BOOLEAN]

\* Every call is of a known kind and at a known place.
TypeOK ==
  /\ word \in Values /\ waiter \in [Waiters -> Calls]
  /\ backend \in {"futex", "win32", "win32_poll", "os_sync", "ulock", "portable"}
  /\ notifying \in BOOLEAN /\ policy \in {"one", "all"}
  /\ seen \in [Waiters -> BOOLEAN]

\* What a wait returns is true on every platform: false only after the time of a
\* timed call ran out (by the backend's own clock, see Expire), and true only if the word did have another value meanwhile
\* ("false only on timeout, true when the value may have changed",
\* atomic_wait_test.cpp; only the futex version may be woken for nothing).
AnswerHonest ==
  \A w \in Waiters : At(w, "back") =>
    IF waiter[w].result THEN seen[w] \/ Is(w, "futex", "wait_for")
    ELSE waiter[w].timed /\ waiter[w].expired

Inside(w) == waiter[w].pc \notin {"out", "back"}
Stuck(w) == Inside(w) /\ word # waiter[w].marked

\* The inductive invariant behind AnswerHonest: a call that could find the word
\* changed was there when it changed, and a call comes to its last comparison, or
\* gives up, only after a time of its own ran out.
SeenBook ==
  \A w \in Waiters :
    /\ Stuck(w) => seen[w]
    /\ waiter[w].expired => waiter[w].timed
    /\ At(w, "last") => waiter[w].expired

AnswerInv == TypeOK /\ SeenBook /\ AnswerHonest

\* A notified change is noticed on every platform: with notify_all nobody stays
\* for ever in a wait on a value that is gone, with notify_one not everybody
\* does, although a notify may come between the comparison and the sleep, and a
\* ulock wake may get lost.
ChangeNoticed ==
  /\ policy = "all" => \A w \in Waiters : ~<>[]Stuck(w)
  /\ ~<>[](\A w \in Waiters : Stuck(w))

\* A timed wait ends where the kernel has a timed wait: on Linux and macOS
\* however often the thread is woken for nothing; on Windows every wake restarts
\* the timeout, so only each single sleep is sure to end.
TimedWaitReturns ==
  \A w \in Waiters :
    /\ backend \in {"futex", "os_sync", "ulock"} => ~<>[](Inside(w) /\ waiter[w].timed)
    /\ backend = "win32" => ~<>[](At(w, "asleep") /\ waiter[w].timed)

\* "atomic_wait_for must exist in the spscring::sync namespace for every
\* supported platform and follow futex semantics" (atomic_wait_test.cpp): a
\* timed wait returns, also where atomic_wait_for has to poll.
TimeoutHonoured ==
  \A w \in Waiters : waiter[w].timed /\ waiter[w].expired ~> ~Inside(w)

=============================================================================

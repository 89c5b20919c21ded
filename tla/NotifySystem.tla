---------------------------- MODULE NotifySystem ----------------------------
(***************************************************************************)
(* One notify word with its bumper and its waiters.  The bumper does what  *)
(* commit and read_advance do: store the state (published stands for       *)
(* commit_pos or read_pos), bump the word, notify if the bit was set.  A   *)
(* waiter either waits for the state to reach a value of its choice        *)
(* (wait_on_notify_word with a position predicate, which may take several  *)
(* bumps) or for the sequence to leave a snapshot (wait_for_seq_change).   *)
(***************************************************************************)
EXTENDS NotifyWord

CONSTANTS MaxBumps,   \* bound on the bumps of a behaviour
          WaitKinds,  \* which predicates are used: "state", "seq"
          InitSeq,    \* the sequence the word starts from
          Backends    \* the wait implementations looked at

ASSUME NotifySystemAssumption ==
  /\ MaxBumps \in Nat
  /\ WaitKinds \subseteq {"state", "seq"}
  /\ InitSeq \in 0 .. (SeqMod - 1)
  /\ Backends \subseteq {"futex", "win32", "win32_poll", "os_sync", "ulock", "portable"}

VARIABLES published,  \* the state behind the predicate
          bpc,        \* where the bumper stands
          want        \* want[w]: what w waits for

vars == <<word, waiter, backend, published, bpc, want>>

\* pred(): TRUE while the wait is to go on.
Pred(w) ==
  IF want[w].kind = "seq" THEN notify_seq_value(word) = want[w].val
  ELSE published < want[w].val

Init ==
  /\ word = InitSeq
  /\ WaiterInit
  /\ backend \in Backends
  /\ published = 0
  /\ bpc = "idle"
  /\ want = [w \in Waiters |-> [kind |-> "state", val |-> 0]]

-----------------------------------------------------------------------------
Publish ==
  /\ bpc = "idle" /\ published < MaxBumps
  /\ published' = published + 1
  /\ bpc' = "bump"
  /\ UNCHANGED <<word, waiter, backend, want>>

\* Mutant: the flag in the previous word is not looked at.
BumpSilent ==
  /\ bpc = "bump"
  /\ Bump
  /\ bpc' = "idle"
  /\ UNCHANGED <<published, want>>

BumpWord ==
  /\ bpc = "bump"
  /\ Bump
  /\ bpc' = IF HasWaiter(word) THEN "notify" ELSE "idle"
  /\ UNCHANGED <<published, want>>

NotifyWaiters ==
  /\ bpc = "notify"
  /\ atomic_notify_all
  /\ bpc' = "idle"
  /\ UNCHANGED <<published, want>>

\* The snapshot of wait_for_seq_change is taken by the caller; it is the
\* sequence at some moment before the call.
Call(w) ==
  /\ \E timed \in BOOLEAN : WaitCall(w, timed)
  /\ \/ /\ "state" \in WaitKinds
        /\ \E n \in 1 .. MaxBumps : want' = [want EXCEPT ![w] = [kind |-> "state", val |-> n]]
     \/ /\ "seq" \in WaitKinds
        /\ want' = [want EXCEPT ![w] = [kind |-> "seq", val |-> notify_seq_value(word)]]
  /\ UNCHANGED <<published, bpc>>

WaiterStep(w) == WaitStep(w, Pred(w)) /\ UNCHANGED <<published, bpc, want>>

Environment(w) == (Expire(w) \/ SpuriousWake(w)) /\ UNCHANGED <<published, bpc, want>>

Next ==
  \/ Publish \/ BumpWord \/ NotifyWaiters
  \/ \E w \in Waiters : Call(w) \/ WaiterStep(w) \/ Environment(w)

Spec == Init /\ [][Next]_vars

\* A thread inside a call keeps running, and so does a bumper that has stored
\* its position; clocks advance.  Nobody has to publish, to call, or to be
\* interrupted.
Fairness ==
  /\ WF_vars(BumpWord) /\ WF_vars(NotifyWaiters)
  /\ \A w \in Waiters : WF_vars(WaiterStep(w))
  /\ \A w \in Waiters : WF_vars(Expire(w) /\ UNCHANGED <<published, bpc, want>>)

FairSpec == Spec /\ Fairness

-----------------------------------------------------------------------------
\* The word stays in its 32 bits through bumps, marks and clears, and the locals
\* of every call keep their types.
TypeOK ==
  /\ TypeOKWait /\ backend \in Backends
  /\ published \in 0 .. MaxBumps
  /\ bpc \in {"idle", "bump", "notify"}
  /\ want \in [Waiters -> [kind : {"state", "seq"}, val : Nat]]

\* No lost wakeup: a thread asleep in the kernel although its predicate has
\* turned false is about to be woken.  Either the bumper has read the flag and
\* is on its way to notify, or it has stored the state and will find the flag.
\* With ulock the notify may not arrive; there the sleep is only a slice.
NoLostWakeup ==
  \A w \in Waiters : At(w, "asleep") /\ ~Pred(w) =>
    bpc = "notify" \/ (bpc = "bump" /\ HasWaiter(word)) \/ backend = "ulock"

\* What a wait is about to return is true: TRUE only if the awaited progress
\* has been made (and, the state being monotonic, still holds), FALSE only when
\* no whole millisecond of the time is left, however early atomic_wait_for came
\* back ("true when pred() became false (progress observed), false on timeout").
ResultHonest ==
  \A w \in Waiters : At(w, "leave") =>
    IF waiter[w].result THEN ~Pred(w) ELSE waiter[w].expired

\* The inductive invariant behind NoLostWakeup, for one waiter and fewer bumps
\* than the sequence has values.  The sequence counts the bumps (SeqCounts).
\* While a call is registered the word carries the flag unless a bump came in
\* between, and what it found when it re-checked its predicate was no older
\* than its mark (MarkBook).  A sleeper is in a kernel that was told to wait
\* for the word as it is now, or is about to be woken (SleepBook).
Bumps == IF bpc = "bump" THEN published - 1 ELSE published
SeqAt(n) == (InitSeq + n) % SeqMod

Rechecked == {"timer", "load", "deadline", "block", "asleep", "last", "poll"}

SeqCounts == Bumps \in Nat /\ notify_seq_value(word) = SeqAt(Bumps)

\* The mark of w was made after k bumps.
MarkedAt(w, k) ==
  /\ notify_seq_value(waiter[w].marked) = SeqAt(k)
  /\ k = Bumps => word = SetWaiter(waiter[w].marked)
  /\ waiter[w].pc \in Rechecked =>
       IF want[w].kind = "seq" THEN \E r \in k .. Bumps : want[w].val = SeqAt(r)
       ELSE want[w].val > k

MarkBook ==
  \A w \in Waiters : waiter[w].pc \in Rechecked \cup {"recheck"} =>
    waiter[w].marked \in NotifyWords /\ \E k \in 0 .. Bumps : MarkedAt(w, k)

SleepBook ==
  \A w \in Waiters : At(w, "asleep") =>
    /\ backend \in {"futex", "win32", "os_sync", "ulock"}
    /\ backend = "ulock" \/ bpc = "notify" \/ word = waiter[w].marked

WakeupInv == TypeOK /\ SeqCounts /\ MarkBook /\ SleepBook

\* The inductive invariant behind ResultHonest, for any number of waiters.  A
\* snapshot is the sequence after some number of bumps, so a sequence that has
\* left it does not come back; a call that looks at the clock has found its
\* predicate true.
AnswerBook ==
  \A w \in Waiters :
    /\ want[w].kind = "seq" => \E r \in 0 .. Bumps : want[w].val = SeqAt(r)
    /\ At(w, "timer") => ~waiter[w].result

HonestInv == TypeOK /\ SeqCounts /\ AnswerBook /\ ResultHonest

\* Whoever waits for something that has happened returns from the wait.
ProgressReturns == \A w \in Waiters : ~At(w, "out") /\ ~Pred(w) ~> At(w, "out")

\* A timed call returns, whatever the bumper does.  On Windows a sleep ends,
\* but being woken for nothing over and over restarts its timeout.
TimedReturns ==
  \A w \in Waiters :
    /\ backend # "win32" => (waiter[w].timed ~> At(w, "out"))
    /\ backend = "win32" => ~<>[](At(w, "asleep") /\ waiter[w].timed)

=============================================================================

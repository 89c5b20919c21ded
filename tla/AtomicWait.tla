----------------------------- MODULE AtomicWait -----------------------------
(***************************************************************************)
(* Blocking on a 32-bit word: atomic_wait, atomic_wait_for and the two     *)
(* notifies of atomic_wait.hpp in all their implementations.  One action   *)
(* per function of a backend; the state of a call is a record of waiter.   *)
(* The module is open: who calls, who stores to the word and who notifies  *)
(* is up to the module that composes it.                                   *)
(*                                                                         *)
(*   futex       Linux                                                     *)
(*   win32       WaitOnAddress; win32_poll when it is not to be had        *)
(*   os_sync     macOS from 14.4 on; ulock before                          *)
(*   portable    any other platform                                        *)
(***************************************************************************)
EXTENDS Integers

CONSTANT Waiters

VARIABLES word,    \* the word waited on
          waiter,  \* waiter[w]: the call of thread w
          backend  \* the implementation this program runs on

\* load      about to compare the word with the expected value
\* deadline  about to look at the clock
\* block     about to enter the kernel
\* asleep    queued in the kernel
\* last      woken by the timeout, about to compare once more
\* poll      in a loop that only a change of the word ends
\* back      about to return result
BlockPC == {"load", "deadline", "block", "asleep", "last", "poll", "back"}

At(w, pc) == waiter[w].pc = pc
Is(w, b, call) == backend = b /\ waiter[w].call = call

-----------------------------------------------------------------------------
(* Which backend a program gets. *)

has_native_wait_api(found) == {"wait_on_address", "wake_one", "wake_all"} \subseteq found

has_os_sync(found) == "os_sync_wait_on_address" \in found

\* The dispatch of atomic_wait.hpp, found being the calls the system offers.
BackendOn(os, found) ==
  CASE os = "linux"   -> "futex"
    [] os = "windows" -> IF has_native_wait_api(found) THEN "win32" ELSE "win32_poll"
    [] os = "macos"   -> IF has_os_sync(found) THEN "os_sync" ELSE "ulock"
    [] OTHER          -> "portable"

-----------------------------------------------------------------------------
(* The pieces the implementations are made of. *)

Goto(w, pc) ==
  /\ waiter' = [waiter EXCEPT ![w].pc = pc]
  /\ UNCHANGED <<word, backend>>

Return(w, ok) ==
  /\ waiter' = [waiter EXCEPT ![w].pc = "back", ![w].result = ok]
  /\ UNCHANGED <<word, backend>>

\* while (atomic->load() == old): leave, or carry on at pc
Compare(w, pc) ==
  /\ At(w, "load")
  /\ IF word = waiter[w].marked THEN Goto(w, pc) ELSE Return(w, TRUE)

CheckDeadline(w, pc) ==
  /\ At(w, "deadline")
  /\ IF waiter[w].expired THEN Return(w, FALSE) ELSE Goto(w, pc)

\* The kernel returns: the futex version of atomic_wait_for reports "may have
\* changed", everything else compares again.
Woken(call) ==
  IF backend = "futex" /\ call.call = "wait_for"
  THEN [call EXCEPT !.pc = "back", !.result = TRUE]
  ELSE [call EXCEPT !.pc = "load"]

\* Comparing and queueing is one step of the kernel.
KernelWait(w) ==
  /\ At(w, "block")
  /\ waiter' = [waiter EXCEPT ![w] =
       IF word = @.marked THEN [@ EXCEPT !.pc = "asleep"] ELSE Woken(@)]
  /\ UNCHANGED <<word, backend>>

\* The kernel may also end a sleep for no reason.
SpuriousWake(w) ==
  /\ At(w, "asleep")
  /\ waiter' = [waiter EXCEPT ![w] = Woken(@)]
  /\ UNCHANGED <<word, backend>>

TimeoutFires(w) == At(w, "asleep") /\ waiter[w].timed /\ waiter[w].expired
SliceEnds(w) == At(w, "asleep") /\ Goto(w, "load")

\* The time of a timed call runs out, by the test its backend makes: os_sync and
\* portable ask whether the deadline has passed, ulock whether what remains is 0 in
\* whole milliseconds (up to 1 ms earlier), the kernels and win32_poll count the
\* timeout themselves.
Expire(w) ==
  /\ waiter[w].timed /\ ~waiter[w].expired /\ ~At(w, "out")
  /\ waiter' = [waiter EXCEPT ![w].expired = TRUE]
  /\ UNCHANGED <<word, backend>>

-----------------------------------------------------------------------------
(* Calls made directly, that is not through NotifyWord. *)

NoCall == [pc |-> "out", call |-> "wait", marked |-> 0, timed |-> FALSE,
           expired |-> FALSE, result |-> FALSE]

StartWait(w, call, timed, old) ==
  /\ At(w, "out")
  /\ waiter' = [waiter EXCEPT ![w] =
       [NoCall EXCEPT !.pc = "load", !.call = call, !.timed = timed, !.marked = old]]
  /\ UNCHANGED <<word, backend>>

EndWait(w) ==
  /\ At(w, "back")
  /\ waiter' = [waiter EXCEPT ![w] = NoCall]
  /\ UNCHANGED <<word, backend>>

\* atomic_backoff::wait: a timed wait and nothing else
backoff_wait(w, old) == StartWait(w, "wait_for", TRUE, old)

-----------------------------------------------------------------------------
(* futex *)

FutexAtomicWait(w) ==
  /\ Is(w, "futex", "wait")
  /\ Compare(w, "block") \/ KernelWait(w)

FutexWaitFor(w) ==
  /\ Is(w, "futex", "wait_for")
  /\ Compare(w, "block") \/ KernelWait(w) \/ (TimeoutFires(w) /\ Return(w, FALSE))

FutexNotify(targets) == targets

-----------------------------------------------------------------------------
(* win32 *)

\* Sleeps in slices of wait_timeout_ms.
Win32AtomicWait(w) ==
  /\ Is(w, "win32", "wait")
  /\ Compare(w, "block") \/ KernelWait(w) \/ SliceEnds(w)

\* Mutant: every return from WaitOnAddress taken for the timeout.
Win32WakeIsTimeout(w) ==
  /\ Is(w, "win32", "wait_for")
  /\ \/ Compare(w, "block") \/ KernelWait(w)
     \/ At(w, "asleep") /\ Goto(w, "last")
     \/ At(w, "last") /\ Return(w, word # waiter[w].marked)

\* Every sleep gets the whole timeout again; the timeout that fires is answered
\* with one more comparison.
Win32WaitFor(w) ==
  /\ Is(w, "win32", "wait_for")
  /\ \/ Compare(w, "block") \/ KernelWait(w)
     \/ TimeoutFires(w) /\ Goto(w, "last")
     \/ At(w, "last") /\ Return(w, word # waiter[w].marked)

polling_wait(w) ==
  /\ At(w, "poll") /\ word # waiter[w].marked
  /\ IF waiter[w].call = "wait" THEN Return(w, TRUE) ELSE Goto(w, "load")

Win32PollingWait(w) ==
  /\ backend = "win32_poll"
  /\ \/ Compare(w, IF waiter[w].timed THEN "deadline" ELSE "poll")
     \/ CheckDeadline(w, "poll")
     \/ polling_wait(w)

\* WakeByAddress reaches the threads of its own process: Waiters are those.
Win32Notify(targets) == IF backend = "win32" THEN targets ELSE {{}}

-----------------------------------------------------------------------------
(* os_sync and ulock *)

\* Mutant: ulock relies on being woken, as os_sync may.
DarwinWaitUnsliced(w) ==
  /\ backend \in {"os_sync", "ulock"} /\ ~waiter[w].timed
  /\ Compare(w, "block") \/ KernelWait(w)

\* atomic_wait, and atomic_wait_for with a negative timeout.  ulock sleeps in
\* slices of 50 ms.
DarwinAtomicWait(w) ==
  /\ backend \in {"os_sync", "ulock"} /\ ~waiter[w].timed
  /\ Compare(w, "block") \/ KernelWait(w) \/ (backend = "ulock" /\ SliceEnds(w))

OsSyncWaitFor(w) ==
  /\ backend = "os_sync" /\ waiter[w].timed
  /\ \/ Compare(w, "deadline") \/ CheckDeadline(w, "block") \/ KernelWait(w)
     \/ TimeoutFires(w) /\ Return(w, FALSE)

\* Mutants.  The end of a slice is taken for the timeout:
UlockSliceIsTimeout(w) ==
  /\ backend = "ulock" /\ waiter[w].timed
  /\ \/ Compare(w, "deadline") \/ CheckDeadline(w, "block") \/ KernelWait(w)
     \/ At(w, "asleep") /\ Return(w, FALSE)
\* the loop over the slices does not look at the deadline:
UlockNoDeadline(w) ==
  /\ backend = "ulock" /\ waiter[w].timed
  /\ Compare(w, "block") \/ KernelWait(w) \/ SliceEnds(w)

UlockWaitFor(w) ==
  /\ backend = "ulock" /\ waiter[w].timed
  /\ Compare(w, "deadline") \/ CheckDeadline(w, "block") \/ KernelWait(w) \/ SliceEnds(w)

\* A ulock wake does not reach the threads of other processes.
DarwinNotify(targets) == IF backend = "os_sync" THEN targets ELSE targets \cup {{}}

-----------------------------------------------------------------------------
(* portable *)

atomic_poll(w) ==
  /\ At(w, "poll") /\ word # waiter[w].marked
  /\ IF waiter[w].timed THEN Goto(w, "load") ELSE Return(w, TRUE)

PortableWaitFor(w) ==
  /\ backend = "portable"
  /\ \/ Compare(w, IF waiter[w].timed THEN "deadline" ELSE "poll")
     \/ CheckDeadline(w, "poll")
     \/ atomic_poll(w)

-----------------------------------------------------------------------------
(* atomic_wait.hpp *)

\* A step of a call inside atomic_wait or atomic_wait_for.
BlockStep(w) ==
  \/ FutexAtomicWait(w) \/ FutexWaitFor(w)
  \/ Win32AtomicWait(w) \/ Win32WaitFor(w) \/ Win32PollingWait(w)
  \/ DarwinAtomicWait(w) \/ OsSyncWaitFor(w) \/ UlockWaitFor(w)
  \/ PortableWaitFor(w)

Sleepers == {w \in Waiters : At(w, "asleep")}

\* Wakes one of the sets of threads in targets, if the wake gets through.
Notify(targets) ==
  /\ \E woken \in CASE backend = "futex" -> FutexNotify(targets)
                     [] backend \in {"win32", "win32_poll"} -> Win32Notify(targets)
                     [] backend \in {"os_sync", "ulock"} -> DarwinNotify(targets)
                     [] OTHER -> {{}} :
       waiter' = [w \in Waiters |-> IF w \in woken THEN Woken(waiter[w]) ELSE waiter[w]]
  /\ UNCHANGED <<word, backend>>

atomic_notify_one == Notify(IF Sleepers = {} THEN {{}} ELSE {{w} : w \in Sleepers})

atomic_notify_all == Notify({Sleepers})

=============================================================================

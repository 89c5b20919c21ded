----------------------------- MODULE NotifyBits -----------------------------
(***************************************************************************)
(* The packed 32-bit notify word of notify_word.hpp: a free-running wake   *)
(* sequence in the low bits and the waiter flag in the top bit.  SeqMod is *)
(* the weight of the waiter flag (2^31 in the code); the word itself wraps *)
(* at 2 * SeqMod, so a carry out of the sequence flips the flag exactly as *)
(* fetch_add(1) does.                                                      *)
(***************************************************************************)
EXTENDS Integers

CONSTANT SeqMod

ASSUME SeqModAssumption == SeqMod \in Nat \ {0}

NotifyWords == 0 .. (2 * SeqMod - 1)

notify_waiter_bit == SeqMod

HasWaiter(raw) == raw >= notify_waiter_bit

notify_seq_value(raw) == raw % SeqMod

\* Mutant: an addition for fetch_or.
AddWaiter(raw) == raw + notify_waiter_bit

\* The value fetch_add(1) leaves behind; the flag bumpers test is that of the
\* previous value, HasWaiter(raw).
bump_notify_word(raw) == (raw + 1) % (2 * SeqMod)

\* fetch_or(notify_waiter_bit) and fetch_and(~notify_waiter_bit)
SetWaiter(raw) == IF HasWaiter(raw) THEN raw ELSE raw + notify_waiter_bit
ClearWaiter(raw) == IF HasWaiter(raw) THEN raw - notify_waiter_bit ELSE raw

=============================================================================

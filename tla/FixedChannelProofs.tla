------------------------- MODULE FixedChannelProofs -------------------------
(***************************************************************************)
(* The blocking channel over the fixed ring, for every geometry and every  *)
(* interleaving of its two threads: neither sleeps through what it waits   *)
(* for, no waiter flag is left behind, and the messages go through as      *)
(* through a FIFO queue.  What a word and the call waiting on it know of   *)
(* each other (WaitBook) is the same for both words, and is treated once.  *)
(***************************************************************************)
EXTENDS FixedChannel, FixedRingProofs

\* The stream has fewer messages than the sequences have values, so that no
\* bump carries into the waiter flag.
SequenceSuffices == MaxPos + ItemSize <= SeqMod * ItemSize

-----------------------------------------------------------------------------
\* A bump that does not carry leaves the flag alone.
LEMMA BumpWithoutCarry ==
  ASSUME NEW raw \in NotifyWords, notify_seq_value(raw) + 1 < SeqMod
  PROVE  /\ notify_seq_value(bump_notify_word(raw)) = notify_seq_value(raw) + 1
         /\ HasWaiter(bump_notify_word(raw)) <=> HasWaiter(raw)
<1> DEFINE s == notify_seq_value(raw)
<1>0. SeqMod \in Nat \ {0}
  BY SeqModAssumption
<1>1. s \in Nat /\ s + 1 \in 0 .. (SeqMod - 1) /\ raw = s + (IF HasWaiter(raw) THEN SeqMod ELSE 0)
  BY <1>0, WordParts
<1>2. notify_seq_value(bump_notify_word(raw)) = s + 1
  <2>1. (s + 1) % SeqMod = s + 1
    <3> HIDE DEF s
    <3> QED BY <1>0, <1>1, SmallMod
  <2> QED BY <2>1, BumpCounts
<1>3. bump_notify_word(raw) = raw + 1
  <2>1. raw + 1 \in 0 .. (2 * SeqMod - 1) /\ 2 * SeqMod \in Nat \ {0}
    BY <1>0, <1>1
  <2> QED BY <2>1, SmallMod DEF bump_notify_word
<1>4. HasWaiter(raw + 1) <=> HasWaiter(raw)
  <2>1. CASE HasWaiter(raw)
    BY <1>0, <1>1, <2>1 DEF HasWaiter, notify_waiter_bit
  <2>2. CASE ~HasWaiter(raw)
    BY <1>0, <1>1, <2>2 DEF HasWaiter, notify_waiter_bit
  <2> QED BY <2>1, <2>2
<1> QED BY <1>2, <1>3, <1>4

\* Clearing the flag clears it.
LEMMA ClearedFlag ==
  ASSUME NEW raw \in NotifyWords
  PROVE  ~HasWaiter(ClearWaiter(raw))
  BY SeqModAssumption DEF ClearWaiter, HasWaiter, notify_waiter_bit, NotifyWords

\* Steps that touch neither the word nor the mark: those of the call itself,
\* and those of the two clients as long as a predicate turns false only with a
\* bump due and a notify due is not forgotten.
LEMMA QuietBook ==
  ASSUME NEW raw, NEW c, NEW c1, NEW bpc, NEW bpc1, NEW pred \in BOOLEAN, NEW pred1 \in BOOLEAN,
         WaitBook(raw, c, bpc, pred),
         c1.marked = c.marked, c1.registered = c.registered, c1.pc = "out" => c.pc = "out",
         c1.pc = "recheck" => c.pc = "recheck",
         c1.pc \in Rechecked => c.pc \in Rechecked \/ (c.pc = "recheck" /\ pred),
         c1.pc = "asleep" => c.pc = "asleep" \/ raw = c.marked,
         pred /\ c1.pc # "out" => pred1 \/ bpc1 = "bump",
         bpc = "bump" => bpc1 = "bump",
         bpc = "notify" => bpc1 = "notify" \/ c1.pc # "asleep"
  PROVE  WaitBook(raw, c1, bpc1, pred1)
  BY DEF WaitBook, Rechecked

\* fetch_or of the waiter bit.
LEMMA MarkBook ==
  ASSUME NEW raw \in NotifyWords, NEW c, NEW c1, NEW bpc, NEW pred \in BOOLEAN,
         WaitBook(raw, c, bpc, pred), c1.pc = "recheck", c1.marked = raw,
         c1.registered = (c.registered \/ ~HasWaiter(raw))
  PROVE  WaitBook(SetWaiter(raw), c1, bpc, pred)
<1>1. /\ notify_seq_value(SetWaiter(raw)) = notify_seq_value(raw) /\ HasWaiter(SetWaiter(raw))
      /\ notify_seq_value(raw) \in Int
  BY FlagKeepsSeq, WordParts, SeqModAssumption
<1>2. c1.registered
  BY Zenon DEF WaitBook
<1> QED BY <1>1, <1>2 DEF WaitBook, Rechecked

\* fetch_and of its complement, and the return.
LEMMA ReturnBook ==
  ASSUME NEW raw \in NotifyWords, NEW c, NEW c1, NEW bpc, NEW pred \in BOOLEAN,
         WaitBook(raw, c, bpc, pred), c1.pc \in {"out", "check"}, c1.registered = FALSE
  PROVE  /\ c.registered => WaitBook(ClearWaiter(raw), c1, bpc, pred)
         /\ ~c.registered => WaitBook(raw, c1, bpc, pred)
<1>1. CASE c.registered
  BY <1>1, ClearedFlag DEF WaitBook, Rechecked
<1>2. CASE ~c.registered
  BY <1>2 DEF WaitBook, Rechecked
<1> QED BY <1>1, <1>2

\* The bump: it finds the flag of a sleeper, and makes every mark an old one.
LEMMA BumpBook ==
  ASSUME NEW raw \in NotifyWords, NEW c, NEW pred \in BOOLEAN,
         WaitBook(raw, c, "bump", pred), notify_seq_value(raw) + 1 < SeqMod
  PROVE  WaitBook(bump_notify_word(raw), c, IF HasWaiter(raw) THEN "notify" ELSE "idle", pred)
<1> DEFINE bumped == bump_notify_word(raw)
<1>0. /\ notify_seq_value(bumped) = notify_seq_value(raw) + 1
      /\ HasWaiter(bumped) <=> HasWaiter(raw)
      /\ notify_seq_value(raw) \in Nat
  BY BumpWithoutCarry, WordParts, SeqModAssumption
<1>1. ASSUME c.pc \in Rechecked \cup {"recheck"}
      PROVE  /\ c.marked \in NotifyWords
             /\ notify_seq_value(c.marked) <= notify_seq_value(bumped)
             /\ notify_seq_value(c.marked) # notify_seq_value(bumped)
  <2>1. c.marked \in NotifyWords /\ notify_seq_value(c.marked) <= notify_seq_value(raw)
    BY <1>1 DEF WaitBook
  <2>2. notify_seq_value(c.marked) \in Nat
    BY <2>1, WordParts, SeqModAssumption
  <2> QED BY <1>0, <2>1, <2>2
<1>2. ASSUME c.pc = "asleep" PROVE HasWaiter(raw)
  <2>1. raw = c.marked /\ c.pc \in Rechecked
    BY <1>2 DEF WaitBook, Rechecked
  <2>2. raw = SetWaiter(raw)
    BY <2>1 DEF WaitBook
  <2> QED BY <2>2, FlagKeepsSeq
<1> HIDE DEF bumped
<1>3. WaitBook(bumped, c, IF HasWaiter(raw) THEN "notify" ELSE "idle", pred)
  BY <1>0, <1>1, <1>2 DEF WaitBook
<1> QED BY <1>3 DEF bumped

\* A sequence that is not ahead of the write position has values left.
LEMMA SequenceHasRoom ==
  ASSUME SequenceSuffices, NEW s \in Nat, NEW p \in Nat, ItemSize * s <= p, p < MaxPos + ItemSize
  PROVE  s < SeqMod
<1>0. ItemSize \in Nat \ {0} /\ SeqMod \in Nat /\ MaxPos \in Nat
  BY FixedRingAssumption, SeqModAssumption
<1>1. SUFFICES ASSUME SeqMod <= s PROVE FALSE
  BY <1>0
<1>2. ItemSize * SeqMod <= ItemSize * s
  BY <1>0, <1>1, FactorMono
<1>3. ItemSize * SeqMod = SeqMod * ItemSize /\ ItemSize * SeqMod \in Nat /\ ItemSize * s \in Nat
  BY <1>0
<1> QED BY <1>0, <1>2, <1>3 DEF SequenceSuffices

-----------------------------------------------------------------------------
(* The steps of a call.  Both words are waited on through futex. *)

CallStates == CWait!WaiterStates

\* A move within a call, from the word raw.
Moves(raw, c, c1, pred) ==
  /\ c1 \in CallStates
  /\ c1.marked = c.marked /\ c1.registered = c.registered
  /\ c1.pc # "out" /\ c.pc # "out"
  /\ c1.pc = "recheck" => c.pc = "recheck"
  /\ c1.pc \in Rechecked => c.pc \in Rechecked \/ (c.pc = "recheck" /\ pred)
  /\ c1.pc = "asleep" => c.pc = "asleep" \/ raw = c.marked

\* Every step of a wait keeps what its word and its call know of each other, and
\* changes of the word at most the flag.  First the consumer's wait:
LEMMA ConsumerCallBook ==
  ASSUME cwaiter \in [{"consumer"} -> CallStates], commit_seq \in NotifyWords, NEW pred \in BOOLEAN,
         WaitBook(commit_seq, cwaiter["consumer"], wpc, pred),
         CWait!WaitStep("consumer", pred) \/ CWait!Expire("consumer") \/ CWait!SpuriousWake("consumer")
  PROVE  /\ cwaiter' \in [{"consumer"} -> CallStates] /\ commit_seq' \in NotifyWords
         /\ notify_seq_value(commit_seq') = notify_seq_value(commit_seq)
         /\ commit_seq' \in {commit_seq, SetWaiter(commit_seq), ClearWaiter(commit_seq)}
         /\ WaitBook(commit_seq', cwaiter'["consumer"], wpc, pred)
         /\ ~CWait!At("consumer", "out")
<1> DEFINE c == cwaiter["consumer"]  c1 == cwaiter'["consumer"]
<1>0. c \in CallStates
  OBVIOUS
<1>1. ASSUME Moves(commit_seq, c, c1, pred), commit_seq' = commit_seq, cwaiter' \in [{"consumer"} -> CallStates]
      PROVE  /\ WaitBook(commit_seq', c1, wpc, pred) /\ ~CWait!At("consumer", "out")
             /\ commit_seq' \in NotifyWords /\ notify_seq_value(commit_seq') = notify_seq_value(commit_seq)
  <2>1. ~CWait!At("consumer", "out")
    BY <1>1 DEF Moves, CWait!At
  <2> HIDE DEF c, c1
  <2>2. WaitBook(commit_seq, c1, wpc, pred)
    BY <1>1, QuietBook DEF Moves, c
  <2> QED BY <1>1, <2>1, <2>2
<1>2. CASE \/ CWait!CheckPred("consumer", pred) \/ CWait!RecheckPred("consumer", pred)
           \/ CWait!CheckTimer("consumer")
  <2>1. Moves(commit_seq, c, c1, pred) /\ commit_seq' = commit_seq /\ cwaiter' \in [{"consumer"} -> CallStates]
    BY <1>2 DEF Moves, CallStates, CWait!WaiterStates, CWait!WaitPC, CWait!BlockPC, Rechecked,
      CWait!CheckPred, CWait!RecheckPred, CWait!CheckTimer, CWait!At, CWait!Goto
  <2> QED BY <1>1, <2>1
<1>3. CASE CWait!Expire("consumer")
  <2>1. Moves(commit_seq, c, c1, pred) /\ commit_seq' = commit_seq /\ cwaiter' \in [{"consumer"} -> CallStates]
    BY <1>3, Zenon DEF Moves, CallStates, CWait!WaiterStates, CWait!Expire, CWait!At
  <2> QED BY <1>1, <2>1
<1>4. CASE CWait!BlockStep("consumer") \/ CWait!EndsEarly("consumer") \/ CWait!SpuriousWake("consumer")
  <2>1. CWait!FutexWaitFor("consumer") \/ CWait!SpuriousWake("consumer")
    BY <1>4 DEF CallStates, CWait!WaiterStates, CWait!BlockStep, CWait!Is, CWait!FutexAtomicWait,
      CWait!Win32AtomicWait, CWait!Win32WaitFor, CWait!Win32PollingWait, CWait!DarwinAtomicWait,
      CWait!OsSyncWaitFor, CWait!UlockWaitFor, CWait!PortableWaitFor, CWait!EndsEarly
  <2>2. CWait!Woken(c) = [c EXCEPT !.pc = "back", !.result = TRUE]
    BY DEF CWait!Woken, CallStates, CWait!WaiterStates
  <2>3. /\ commit_seq' = commit_seq /\ c.pc \in Rechecked
        /\ \/ cwaiter' = [cwaiter EXCEPT !["consumer"] = [c EXCEPT !.pc = "block"]]
           \/ /\ cwaiter' = [cwaiter EXCEPT !["consumer"] = [c EXCEPT !.pc = "asleep"]]
              /\ commit_seq = c.marked
           \/ \E ok \in BOOLEAN :
                cwaiter' = [cwaiter EXCEPT !["consumer"] = [c EXCEPT !.pc = "back", !.result = ok]]
    <3>1. CASE CWait!Compare("consumer", "block")
      BY <3>1, Zenon DEF CWait!Compare, CWait!Goto, CWait!Return, CWait!At, Rechecked
    <3>2. CASE CWait!KernelWait("consumer")
      BY <2>2, <3>2, Zenon DEF CWait!KernelWait, CWait!At, Rechecked
    <3>3. CASE CWait!TimeoutFires("consumer") /\ CWait!Return("consumer", FALSE)
      BY <3>3, Zenon DEF CWait!TimeoutFires, CWait!Return, CWait!At, Rechecked
    <3>4. CASE CWait!SpuriousWake("consumer")
      BY <2>2, <3>4, Zenon DEF CWait!SpuriousWake, CWait!At, Rechecked
    <3> QED BY <2>1, <3>1, <3>2, <3>3, <3>4, Zenon DEF CWait!FutexWaitFor
  <2>4. Moves(commit_seq, c, c1, pred) /\ cwaiter' \in [{"consumer"} -> CallStates]
    <3> USE DEF Moves, CallStates, CWait!WaiterStates, CWait!WaitPC, CWait!BlockPC, Rechecked
    <3>1. CASE cwaiter' = [cwaiter EXCEPT !["consumer"] = [c EXCEPT !.pc = "block"]]
      BY <2>3, <3>1
    <3>2. CASE /\ cwaiter' = [cwaiter EXCEPT !["consumer"] = [c EXCEPT !.pc = "asleep"]]
               /\ commit_seq = c.marked
      BY <2>3, <3>2
    <3>3. ASSUME NEW ok \in BOOLEAN,
                 cwaiter' = [cwaiter EXCEPT !["consumer"] = [c EXCEPT !.pc = "back", !.result = ok]]
          PROVE  Moves(commit_seq, c, c1, pred) /\ cwaiter' \in [{"consumer"} -> CallStates]
      BY <2>3, <3>3, ZenonT(60)
    <3> QED BY <2>3, <3>1, <3>2, <3>3, Zenon
  <2> QED BY <1>1, <2>3, <2>4, Zenon
<1>5. CASE CWait!MarkWaiter("consumer")
  <2>1. commit_seq' = SetWaiter(commit_seq) /\ c.pc = "mark"
    BY <1>5 DEF CWait!MarkWaiter, CWait!At, CWait!SetWaiter, CWait!HasWaiter, CWait!notify_waiter_bit,
      SetWaiter, HasWaiter, notify_waiter_bit
  <2> DEFINE reg == c.registered \/ ~HasWaiter(commit_seq)
  <2>2. cwaiter' = [cwaiter EXCEPT !["consumer"] = [c EXCEPT !.pc = "recheck", !.marked = commit_seq,
                                                         !.registered = reg]]
    BY <1>5, Zenon DEF CallStates, CWait!WaiterStates, CWait!MarkWaiter, CWait!HasWaiter, HasWaiter,
      CWait!notify_waiter_bit, notify_waiter_bit
  <2>3. reg \in BOOLEAN
    BY DEF HasWaiter
  <2>4. commit_seq \in CWait!NotifyWords \cup {CWait!NoMark} /\ "recheck" \in CWait!WaitPC
    BY DEF CWait!NotifyWords, NotifyWords, CWait!WaitPC
  <2> HIDE DEF reg
  <2>5. /\ cwaiter' \in [{"consumer"} -> CallStates]
        /\ c1.pc = "recheck" /\ c1.marked = commit_seq /\ c1.registered = reg
    BY <1>0, <2>2, <2>3, <2>4, Zenon DEF CallStates, CWait!WaiterStates
  <2>6. WaitBook(SetWaiter(commit_seq), c1, wpc, pred)
    <3> HIDE DEF c, c1
    <3> QED BY <2>5, MarkBook DEF reg, c
  <2> QED BY <2>1, <2>5, <2>6, WordsClosed, FlagKeepsSeq DEF CWait!At
<1>6. CASE CWait!WaitReturn("consumer")
  <2>1. commit_seq' = (IF c.registered THEN ClearWaiter(commit_seq) ELSE commit_seq) /\ c.pc = "leave"
    BY <1>6 DEF CWait!WaitReturn, CWait!At, CWait!ClearWaiter, CWait!HasWaiter, CWait!notify_waiter_bit,
      ClearWaiter, HasWaiter, notify_waiter_bit
  <2>2. /\ cwaiter' \in [{"consumer"} -> CallStates] /\ c1.pc = "out" /\ c1.registered = FALSE
    BY <1>6 DEF CWait!WaitReturn, CWait!IdleWaiter, CWait!NoMark, CallStates, CWait!WaiterStates,
      CWait!WaitPC, CWait!NoMark
  <2>3. WaitBook(commit_seq', c1, wpc, pred)
    <3> HIDE DEF c1
    <3>1. WaitBook(commit_seq, c, wpc, pred)
      OBVIOUS
    <3> HIDE DEF c
    <3>2. c1.pc \in {"out", "check"} /\ c1.registered = FALSE
      BY <2>2
    <3>3. /\ c.registered => WaitBook(ClearWaiter(commit_seq), c1, wpc, pred)
          /\ ~c.registered => WaitBook(commit_seq, c1, wpc, pred)
      BY <3>1, <3>2, ReturnBook, Zenon
    <3> QED BY <2>1, <3>3
  <2> QED BY <2>1, <2>2, <2>3, WordsClosed, FlagKeepsSeq DEF CWait!At
<1> QED BY <1>2, <1>3, <1>4, <1>5, <1>6 DEF CWait!WaitStep

\* and the producer's, which is the same call on the other word:
LEMMA ProducerCallBook ==
  ASSUME pwaiter \in [{"producer"} -> CallStates], read_wake_seq \in NotifyWords, NEW pred \in BOOLEAN,
         WaitBook(read_wake_seq, pwaiter["producer"], rpc, pred),
         PWait!WaitStep("producer", pred) \/ PWait!Expire("producer") \/ PWait!SpuriousWake("producer")
  PROVE  /\ pwaiter' \in [{"producer"} -> CallStates] /\ read_wake_seq' \in NotifyWords
         /\ notify_seq_value(read_wake_seq') = notify_seq_value(read_wake_seq)
         /\ read_wake_seq' \in {read_wake_seq, SetWaiter(read_wake_seq), ClearWaiter(read_wake_seq)}
         /\ WaitBook(read_wake_seq', pwaiter'["producer"], rpc, pred)
         /\ ~PWait!At("producer", "out")
<1> DEFINE c == pwaiter["producer"]  c1 == pwaiter'["producer"]
<1>0. c \in CallStates
  OBVIOUS
<1>1. ASSUME Moves(read_wake_seq, c, c1, pred), read_wake_seq' = read_wake_seq, pwaiter' \in [{"producer"} -> CallStates]
      PROVE  /\ WaitBook(read_wake_seq', c1, rpc, pred) /\ ~PWait!At("producer", "out")
             /\ read_wake_seq' \in NotifyWords /\ notify_seq_value(read_wake_seq') = notify_seq_value(read_wake_seq)
  <2>1. ~PWait!At("producer", "out")
    BY <1>1 DEF Moves, PWait!At
  <2> HIDE DEF c, c1
  <2>2. WaitBook(read_wake_seq, c1, rpc, pred)
    BY <1>1, QuietBook DEF Moves, c
  <2> QED BY <1>1, <2>1, <2>2
<1>2. CASE \/ PWait!CheckPred("producer", pred) \/ PWait!RecheckPred("producer", pred)
           \/ PWait!CheckTimer("producer")
  <2>1. Moves(read_wake_seq, c, c1, pred) /\ read_wake_seq' = read_wake_seq /\ pwaiter' \in [{"producer"} -> CallStates]
    BY <1>2 DEF Moves, CallStates, CWait!WaiterStates, CWait!WaitPC, CWait!BlockPC, Rechecked,
      PWait!CheckPred, PWait!RecheckPred, PWait!CheckTimer, PWait!At, PWait!Goto
  <2> QED BY <1>1, <2>1
<1>3. CASE PWait!Expire("producer")
  <2>1. Moves(read_wake_seq, c, c1, pred) /\ read_wake_seq' = read_wake_seq /\ pwaiter' \in [{"producer"} -> CallStates]
    BY <1>3, Zenon DEF Moves, CallStates, CWait!WaiterStates, PWait!Expire, PWait!At
  <2> QED BY <1>1, <2>1
<1>4. CASE PWait!BlockStep("producer") \/ PWait!EndsEarly("producer") \/ PWait!SpuriousWake("producer")
  <2>1. PWait!FutexWaitFor("producer") \/ PWait!SpuriousWake("producer")
    BY <1>4 DEF CallStates, CWait!WaiterStates, PWait!BlockStep, PWait!Is, PWait!FutexAtomicWait,
      PWait!Win32AtomicWait, PWait!Win32WaitFor, PWait!Win32PollingWait, PWait!DarwinAtomicWait,
      PWait!OsSyncWaitFor, PWait!UlockWaitFor, PWait!PortableWaitFor, PWait!EndsEarly
  <2>2. PWait!Woken(c) = [c EXCEPT !.pc = "back", !.result = TRUE]
    BY DEF PWait!Woken, CallStates, CWait!WaiterStates
  <2>3. /\ read_wake_seq' = read_wake_seq /\ c.pc \in Rechecked
        /\ \/ pwaiter' = [pwaiter EXCEPT !["producer"] = [c EXCEPT !.pc = "block"]]
           \/ /\ pwaiter' = [pwaiter EXCEPT !["producer"] = [c EXCEPT !.pc = "asleep"]]
              /\ read_wake_seq = c.marked
           \/ \E ok \in BOOLEAN :
                pwaiter' = [pwaiter EXCEPT !["producer"] = [c EXCEPT !.pc = "back", !.result = ok]]
    <3>1. CASE PWait!Compare("producer", "block")
      BY <3>1, Zenon DEF PWait!Compare, PWait!Goto, PWait!Return, PWait!At, Rechecked
    <3>2. CASE PWait!KernelWait("producer")
      BY <2>2, <3>2, Zenon DEF PWait!KernelWait, PWait!At, Rechecked
    <3>3. CASE PWait!TimeoutFires("producer") /\ PWait!Return("producer", FALSE)
      BY <3>3, Zenon DEF PWait!TimeoutFires, PWait!Return, PWait!At, Rechecked
    <3>4. CASE PWait!SpuriousWake("producer")
      BY <2>2, <3>4, Zenon DEF PWait!SpuriousWake, PWait!At, Rechecked
    <3> QED BY <2>1, <3>1, <3>2, <3>3, <3>4, Zenon DEF PWait!FutexWaitFor
  <2>4. Moves(read_wake_seq, c, c1, pred) /\ pwaiter' \in [{"producer"} -> CallStates]
    <3> USE DEF Moves, CallStates, CWait!WaiterStates, CWait!WaitPC, CWait!BlockPC, Rechecked
    <3>1. CASE pwaiter' = [pwaiter EXCEPT !["producer"] = [c EXCEPT !.pc = "block"]]
      BY <2>3, <3>1
    <3>2. CASE /\ pwaiter' = [pwaiter EXCEPT !["producer"] = [c EXCEPT !.pc = "asleep"]]
               /\ read_wake_seq = c.marked
      BY <2>3, <3>2
    <3>3. ASSUME NEW ok \in BOOLEAN,
                 pwaiter' = [pwaiter EXCEPT !["producer"] = [c EXCEPT !.pc = "back", !.result = ok]]
          PROVE  Moves(read_wake_seq, c, c1, pred) /\ pwaiter' \in [{"producer"} -> CallStates]
      BY <2>3, <3>3, ZenonT(60)
    <3> QED BY <2>3, <3>1, <3>2, <3>3, Zenon
  <2> QED BY <1>1, <2>3, <2>4, Zenon
<1>5. CASE PWait!MarkWaiter("producer")
  <2>1. read_wake_seq' = SetWaiter(read_wake_seq) /\ c.pc = "mark"
    BY <1>5 DEF PWait!MarkWaiter, PWait!At, PWait!SetWaiter, PWait!HasWaiter, PWait!notify_waiter_bit,
      SetWaiter, HasWaiter, notify_waiter_bit
  <2> DEFINE reg == c.registered \/ ~HasWaiter(read_wake_seq)
  <2>2. pwaiter' = [pwaiter EXCEPT !["producer"] = [c EXCEPT !.pc = "recheck", !.marked = read_wake_seq,
                                                         !.registered = reg]]
    BY <1>5, Zenon DEF CallStates, CWait!WaiterStates, PWait!MarkWaiter, PWait!HasWaiter, HasWaiter,
      PWait!notify_waiter_bit, notify_waiter_bit
  <2>3. reg \in BOOLEAN
    BY DEF HasWaiter
  <2>4. read_wake_seq \in CWait!NotifyWords \cup {CWait!NoMark} /\ "recheck" \in CWait!WaitPC
    BY DEF CWait!NotifyWords, NotifyWords, CWait!WaitPC
  <2> HIDE DEF reg
  <2>5. /\ pwaiter' \in [{"producer"} -> CallStates]
        /\ c1.pc = "recheck" /\ c1.marked = read_wake_seq /\ c1.registered = reg
    BY <1>0, <2>2, <2>3, <2>4, Zenon DEF CallStates, CWait!WaiterStates
  <2>6. WaitBook(SetWaiter(read_wake_seq), c1, rpc, pred)
    <3> HIDE DEF c, c1
    <3> QED BY <2>5, MarkBook DEF reg, c
  <2> QED BY <2>1, <2>5, <2>6, WordsClosed, FlagKeepsSeq DEF PWait!At
<1>6. CASE PWait!WaitReturn("producer")
  <2>1. read_wake_seq' = (IF c.registered THEN ClearWaiter(read_wake_seq) ELSE read_wake_seq) /\ c.pc = "leave"
    BY <1>6 DEF PWait!WaitReturn, PWait!At, PWait!ClearWaiter, PWait!HasWaiter, PWait!notify_waiter_bit,
      ClearWaiter, HasWaiter, notify_waiter_bit
  <2>2. /\ pwaiter' \in [{"producer"} -> CallStates] /\ c1.pc = "out" /\ c1.registered = FALSE
    BY <1>6 DEF PWait!WaitReturn, PWait!IdleWaiter, PWait!NoMark, CallStates, CWait!WaiterStates,
      CWait!WaitPC, CWait!NoMark
  <2>3. WaitBook(read_wake_seq', c1, rpc, pred)
    <3> HIDE DEF c1
    <3>1. WaitBook(read_wake_seq, c, rpc, pred)
      OBVIOUS
    <3> HIDE DEF c
    <3>2. c1.pc \in {"out", "check"} /\ c1.registered = FALSE
      BY <2>2
    <3>3. /\ c.registered => WaitBook(ClearWaiter(read_wake_seq), c1, rpc, pred)
          /\ ~c.registered => WaitBook(read_wake_seq, c1, rpc, pred)
      BY <3>1, <3>2, ReturnBook, Zenon
    <3> QED BY <2>1, <3>3
  <2> QED BY <2>1, <2>2, <2>3, WordsClosed, FlagKeepsSeq DEF PWait!At
<1> QED BY <1>2, <1>3, <1>4, <1>5, <1>6 DEF PWait!WaitStep

\* Entering a wait.
LEMMA ConsumerEnters ==
  ASSUME cwaiter \in [{"consumer"} -> CallStates], commit_seq \in NotifyWords, NEW pred \in BOOLEAN,
         WaitBook(commit_seq, cwaiter["consumer"], wpc, pred),
         NEW timed \in BOOLEAN, CWait!WaitCall("consumer", timed)
  PROVE  /\ cwaiter' \in [{"consumer"} -> CallStates] /\ commit_seq' = commit_seq
         /\ WaitBook(commit_seq, cwaiter'["consumer"], wpc, pred)
         /\ cwaiter["consumer"].pc = "out"
<1> DEFINE c == cwaiter["consumer"]  c1 == cwaiter'["consumer"]
<1>1. /\ cwaiter' \in [{"consumer"} -> CallStates] /\ commit_seq' = commit_seq /\ c.pc = "out"
      /\ c1.pc \in {"out", "check"} /\ c1.registered = FALSE
  BY Zenon DEF CWait!WaitCall, CWait!At, CWait!IdleWaiter, CWait!NoMark, CallStates, CWait!WaiterStates,
    CWait!WaitPC, CWait!NoMark
<1>2. WaitBook(commit_seq, c, wpc, pred) /\ ~c.registered
  BY <1>1 DEF WaitBook
<1> HIDE DEF c, c1
<1>3. WaitBook(commit_seq, c1, wpc, pred)
  BY <1>1, <1>2, ReturnBook, Zenon
<1> QED BY <1>1, <1>3 DEF c, c1

\* The consumer asleep on commit_seq when commit notifies.
LEMMA ConsumerIsWoken ==
  ASSUME cwaiter \in [{"consumer"} -> CallStates], NEW pred \in BOOLEAN,
         WaitBook(commit_seq, cwaiter["consumer"], "notify", pred), CWait!atomic_notify_all
  PROVE  /\ cwaiter' \in [{"consumer"} -> CallStates] /\ commit_seq' = commit_seq
         /\ WaitBook(commit_seq, cwaiter'["consumer"], "idle", pred)
         /\ cwaiter'["consumer"].pc = "out" <=> cwaiter["consumer"].pc = "out"
<1> DEFINE c == cwaiter["consumer"]  c1 == cwaiter'["consumer"]
<1>1. /\ commit_seq' = commit_seq
      /\ cwaiter' = [w \in {"consumer"} |-> IF w \in CWait!Sleepers THEN CWait!Woken(cwaiter[w]) ELSE cwaiter[w]]
  BY DEF CWait!atomic_notify_all, CWait!Notify, CWait!FutexNotify
<1>2. c1 = (IF c.pc = "asleep" THEN [c EXCEPT !.pc = "back", !.result = TRUE] ELSE c)
  BY <1>1 DEF CWait!Sleepers, CWait!At, CWait!Woken, CallStates, CWait!WaiterStates
<1>3. /\ c1 \in CallStates /\ c1.marked = c.marked /\ c1.registered = c.registered
      /\ c1.pc = (IF c.pc = "asleep" THEN "back" ELSE c.pc)
  BY <1>2, Zenon DEF CallStates, CWait!WaiterStates, CWait!WaitPC, CWait!BlockPC
<1>4. cwaiter' \in [{"consumer"} -> CallStates]
  BY <1>1, <1>3
<1>5. WaitBook(commit_seq, c, "notify", pred)
  OBVIOUS
<1> HIDE DEF c, c1
<1>6. WaitBook(commit_seq, c1, "idle", pred)
  BY <1>3, <1>5 DEF WaitBook, Rechecked
<1> QED BY <1>1, <1>3, <1>4, <1>6 DEF c, c1

\* The producer entering its wait.
LEMMA ProducerEnters ==
  ASSUME pwaiter \in [{"producer"} -> CallStates], read_wake_seq \in NotifyWords, NEW pred \in BOOLEAN,
         WaitBook(read_wake_seq, pwaiter["producer"], rpc, pred),
         NEW timed \in BOOLEAN, PWait!WaitCall("producer", timed)
  PROVE  /\ pwaiter' \in [{"producer"} -> CallStates] /\ read_wake_seq' = read_wake_seq
         /\ WaitBook(read_wake_seq, pwaiter'["producer"], rpc, pred)
         /\ pwaiter["producer"].pc = "out"
<1> DEFINE c == pwaiter["producer"]  c1 == pwaiter'["producer"]
<1>1. /\ pwaiter' \in [{"producer"} -> CallStates] /\ read_wake_seq' = read_wake_seq /\ c.pc = "out"
      /\ c1.pc \in {"out", "check"} /\ c1.registered = FALSE
  BY Zenon DEF PWait!WaitCall, PWait!At, PWait!IdleWaiter, PWait!NoMark, CallStates, CWait!WaiterStates,
    CWait!WaitPC, CWait!NoMark
<1>2. WaitBook(read_wake_seq, c, rpc, pred) /\ ~c.registered
  BY <1>1 DEF WaitBook
<1> HIDE DEF c, c1
<1>3. WaitBook(read_wake_seq, c1, rpc, pred)
  BY <1>1, <1>2, ReturnBook, Zenon
<1> QED BY <1>1, <1>3 DEF c, c1

\* The producer asleep on read_wake_seq when read_advance notifies.
LEMMA ProducerIsWoken ==
  ASSUME pwaiter \in [{"producer"} -> CallStates], NEW pred \in BOOLEAN,
         WaitBook(read_wake_seq, pwaiter["producer"], "notify", pred), PWait!atomic_notify_all
  PROVE  /\ pwaiter' \in [{"producer"} -> CallStates] /\ read_wake_seq' = read_wake_seq
         /\ WaitBook(read_wake_seq, pwaiter'["producer"], "idle", pred)
         /\ pwaiter'["producer"].pc = "out" <=> pwaiter["producer"].pc = "out"
<1> DEFINE c == pwaiter["producer"]  c1 == pwaiter'["producer"]
<1>1. /\ read_wake_seq' = read_wake_seq
      /\ pwaiter' = [w \in {"producer"} |-> IF w \in PWait!Sleepers THEN PWait!Woken(pwaiter[w]) ELSE pwaiter[w]]
  BY DEF PWait!atomic_notify_all, PWait!Notify, PWait!FutexNotify
<1>2. c1 = (IF c.pc = "asleep" THEN [c EXCEPT !.pc = "back", !.result = TRUE] ELSE c)
  BY <1>1 DEF PWait!Sleepers, PWait!At, PWait!Woken, CallStates, CWait!WaiterStates
<1>3. /\ c1 \in CallStates /\ c1.marked = c.marked /\ c1.registered = c.registered
      /\ c1.pc = (IF c.pc = "asleep" THEN "back" ELSE c.pc)
  BY <1>2, Zenon DEF CallStates, CWait!WaiterStates, CWait!WaitPC, CWait!BlockPC
<1>4. pwaiter' \in [{"producer"} -> CallStates]
  BY <1>1, <1>3
<1>5. WaitBook(read_wake_seq, c, "notify", pred)
  OBVIOUS
<1> HIDE DEF c, c1
<1>6. WaitBook(read_wake_seq, c1, "idle", pred)
  BY <1>3, <1>5 DEF WaitBook, Rechecked
<1> QED BY <1>1, <1>3, <1>4, <1>6 DEF c, c1

-----------------------------------------------------------------------------
(* The channel is a ring with two clients. *)

\* The types of the waits, in terms of this module's words.
LEMMA ChannelTypes ==
  ChannelTypeOK =>
       /\ TypeOK /\ commit_seq \in NotifyWords /\ read_wake_seq \in NotifyWords
       /\ cwaiter \in [{"consumer"} -> CallStates] /\ pwaiter \in [{"producer"} -> CallStates]
       /\ pblocked \in BOOLEAN /\ cblocked \in BOOLEAN
  BY DEF ChannelTypeOK, TypeOK, CWait!TypeOKWait, PWait!TypeOKWait, CallStates, PWait!WaiterStates,
    CWait!WaiterStates, PWait!WaitPC, CWait!WaitPC, PWait!BlockPC, CWait!BlockPC, NotifyWords,
    PWait!NotifyWords, CWait!NotifyWords, PWait!NoMark, CWait!NoMark

\* The predicates are Boolean.
LEMMA Predicates == StillEmpty \in BOOLEAN /\ StillFull \in BOOLEAN
  BY DEF StillEmpty, StillFull

\* What a wait changes of the ring is a waiter flag.
LEMMA WaitsAreRingSteps ==
  ASSUME ChannelInv,
         \/ ProducerWait \/ ProducerWaitStep \/ ConsumerWait \/ ConsumerWaitStep \/ Clock
  PROVE  [Next]_vars /\ abandoned' = abandoned
<1>0. /\ cwaiter \in [{"consumer"} -> CallStates] /\ pwaiter \in [{"producer"} -> CallStates]
      /\ commit_seq \in NotifyWords /\ read_wake_seq \in NotifyWords
      /\ StillEmpty \in BOOLEAN /\ StillFull \in BOOLEAN
      /\ WaitBook(commit_seq, cwaiter["consumer"], wpc, StillEmpty)
      /\ WaitBook(read_wake_seq, pwaiter["producer"], rpc, StillFull)
  BY ChannelTypes, Predicates DEF ChannelInv
<1>1. ASSUME UNCHANGED AllButReadWakeSeq,
             read_wake_seq' \in {read_wake_seq, SetWaiter(read_wake_seq), ClearWaiter(read_wake_seq)}
      PROVE  [Next]_vars /\ abandoned' = abandoned
  BY <1>1 DEF AllButReadWakeSeq, Next, WaiterFlag, vars, sharedVars, writerVars, readerVars
<1>2. ASSUME UNCHANGED AllButCommitSeq,
             commit_seq' \in {commit_seq, SetWaiter(commit_seq), ClearWaiter(commit_seq)}
      PROVE  [Next]_vars /\ abandoned' = abandoned
  BY <1>2 DEF AllButCommitSeq, Next, WaiterFlag, vars, sharedVars, writerVars, readerVars
<1>3. CASE ProducerWait
  <2>1. read_wake_seq' = read_wake_seq /\ UNCHANGED AllButReadWakeSeq
    BY <1>3, Zenon DEF ProducerWait, PWait!WaitCall
  <2> QED BY <1>1, <2>1
<1>4. CASE ConsumerWait
  <2>1. commit_seq' = commit_seq /\ UNCHANGED AllButCommitSeq
    BY <1>4, Zenon DEF ConsumerWait, CWait!WaitCall
  <2> QED BY <1>2, <2>1
<1>5. CASE ProducerWaitStep \/ (Clock /\ UNCHANGED AllButReadWakeSeq /\ (PWait!Expire("producer") \/ PWait!SpuriousWake("producer")))
  BY <1>0, <1>1, <1>5, ProducerCallBook DEF ProducerWaitStep
<1>6. CASE ConsumerWaitStep \/ (Clock /\ UNCHANGED AllButCommitSeq /\ (CWait!Expire("consumer") \/ CWait!SpuriousWake("consumer")))
  BY <1>0, <1>2, <1>6, ConsumerCallBook DEF ConsumerWaitStep
<1> QED BY <1>3, <1>4, <1>5, <1>6 DEF Clock

\* Every other step is one of the ring's own.
LEMMA ChannelIsRing ==
  ASSUME ChannelInv, [ChannelNext]_channelVars
  PROVE  [Next]_vars /\ abandoned' = abandoned
<1>1. CASE \/ ProducerWait \/ ProducerWaitStep \/ ConsumerWait \/ ConsumerWaitStep \/ Clock
  BY <1>1, WaitsAreRingSteps
<1>2. CASE \/ ProducerReserve \/ ProducerReserved \/ ProducerCopy \/ ProducerBump \/ ProducerNotify
  <2>1. TryReserve \/ ReserveSlot \/ BeginCopy \/ EndCopy \/ Commit \/ CommitBump \/ CommitNotify
    BY <1>2 DEF ProducerReserve, ProducerReserved, ProducerCopy, ProducerBump, ProducerNotify
  <2>2. abandoned' = abandoned
    BY <2>1 DEF TryReserve, ReserveSlot, BeginCopy, EndCopy, Commit, CommitBump, CommitNotify
  <2> QED BY <2>1, <2>2 DEF Next, WriterNext
<1>3. CASE ConsumerRead \/ ConsumerAdvance \/ ConsumerBump \/ ConsumerNotify
  <2>1. TryRead \/ (\E n \in 1 .. item_count : ReadAdvance(n)) \/ AdvanceBump \/ AdvanceNotify
    BY <1>3 DEF ConsumerRead, ConsumerAdvance, ConsumerBump, ConsumerNotify
  <2>2. abandoned' = abandoned
    BY <2>1 DEF TryRead, ReadAdvance, AdvanceBump, AdvanceNotify, writerVars
  <2> QED BY <2>1, <2>2 DEF Next, ReaderNext
<1>4. CASE Finished \/ UNCHANGED channelVars
  BY <1>4 DEF Finished, channelVars, vars, writerVars
<1> QED BY <1>1, <1>2, <1>3, <1>4 DEF ChannelNext, ProducerStep, ConsumerStep

-----------------------------------------------------------------------------
(* How the steps of the ring bear on the waits *)

ConsumerBook == WaitBook(commit_seq, cwaiter["consumer"], wpc, StillEmpty)
ProducerBook == WaitBook(read_wake_seq, pwaiter["producer"], rpc, StillFull)
CommitCount == CountBook(commit_seq, wpc, commit_pos)
ReadCount == CountBook(read_wake_seq, rpc, read_pos)

\* The invariant, in the parts the steps below work on.
LEMMA InvariantParts ==
  ChannelInv <=> /\ ChannelTypeOK /\ IInv /\ NothingAbandoned /\ TurnBook
                 /\ ConsumerBook /\ ProducerBook /\ CommitCount /\ ReadCount
  BY DEF ChannelInv, ConsumerBook, ProducerBook, CommitCount, ReadCount

\* The ring keeps its own invariant.
LEMMA RingPart ==
  ASSUME ChannelInv, [ChannelNext]_channelVars
  PROVE  IInv' /\ TypeOK' /\ NothingAbandoned'
<1>1. [Next]_vars /\ abandoned' = abandoned
  BY ChannelIsRing
<1>2. IInv'
  BY <1>1, NextInvariant DEF ChannelInv
<1> QED BY <1>1, <1>2 DEF ChannelInv, IInv, NothingAbandoned

\* Steps that touch neither the words nor the calls.
LEMMA BooksKept ==
  ASSUME ConsumerBook, ProducerBook, UNCHANGED <<commit_seq, read_wake_seq, cwaiter, pwaiter>>,
         wpc \in {"bump", "notify"} => wpc' = wpc, rpc \in {"bump", "notify"} => rpc' = rpc,
         StillEmpty /\ ~ConsumerRuns => StillEmpty' \/ wpc' = "bump",
         StillFull /\ ~ProducerRuns => StillFull' \/ rpc' = "bump"
  PROVE  ConsumerBook' /\ ProducerBook'
<1> DEFINE c == cwaiter["consumer"]  p == pwaiter["producer"]
           empty == StillEmpty  empty1 == StillEmpty'  full == StillFull  full1 == StillFull'
<1>0. empty \in BOOLEAN /\ empty1 \in BOOLEAN /\ full \in BOOLEAN /\ full1 \in BOOLEAN
  BY DEF StillEmpty, StillFull
<1>1. /\ WaitBook(commit_seq, c, wpc, empty) /\ WaitBook(read_wake_seq, p, rpc, full)
      /\ empty /\ c.pc # "out" => empty1 \/ wpc' = "bump"
      /\ full /\ p.pc # "out" => full1 \/ rpc' = "bump"
  BY DEF ConsumerBook, ProducerBook, ConsumerRuns, ProducerRuns, CWait!At, PWait!At
<1> HIDE DEF c, p, empty, empty1, full, full1
<1>2. WaitBook(commit_seq, c, wpc', empty1)
  BY <1>0, <1>1 DEF WaitBook, Rechecked
<1>3. WaitBook(read_wake_seq, p, rpc', full1)
  BY <1>0, <1>1 DEF WaitBook, Rechecked
<1> QED BY <1>2, <1>3 DEF ConsumerBook, ProducerBook, c, p, empty1, full1

\* A store of a position, counted by the bump that is due.
LEMMA StoreCounts ==
  ASSUME NEW raw \in NotifyWords, NEW bpc, bpc # "bump", NEW p \in Nat, NEW q \in Nat,
         CountBook(raw, bpc, p), q >= p + ItemSize
  PROVE  CountBook(raw, "bump", q)
<1> DEFINE s == notify_seq_value(raw)
<1>1. s \in Nat /\ ItemSize \in Nat
  BY WordParts, SeqModAssumption, FixedRingAssumption
<1>2. ItemSize * s <= p
  BY DEF CountBook
<1> HIDE DEF s
<1>3. ItemSize * (s + 1) = ItemSize * s + ItemSize /\ ItemSize * s \in Nat
  BY <1>1
<1>4. ItemSize * (s + 1) <= q
  BY <1>1, <1>2, <1>3
<1> QED BY <1>4 DEF CountBook, s

\* The bump: the sequence has a value left for it, and counts it.
LEMMA BumpIsCounted ==
  ASSUME SequenceSuffices, NEW raw \in NotifyWords, NEW p \in Nat, p < MaxPos + ItemSize,
         CountBook(raw, "bump", p), NEW bpc, bpc # "bump"
  PROVE  notify_seq_value(raw) + 1 < SeqMod /\ CountBook(bump_notify_word(raw), bpc, p)
<1> DEFINE s == notify_seq_value(raw)
<1>1. s \in Nat /\ ItemSize * (s + 1) <= p
  BY WordParts, SeqModAssumption DEF CountBook
<1>2. s + 1 < SeqMod
  <2> HIDE DEF s
  <2>1. s + 1 \in Nat
    BY <1>1
  <2> QED BY <1>1, <2>1, SequenceHasRoom
<1>3. notify_seq_value(bump_notify_word(raw)) = s + 1
  BY <1>2, BumpWithoutCarry
<1> QED BY <1>1, <1>2, <1>3 DEF CountBook

-----------------------------------------------------------------------------
(* The steps of the channel *)

\* What the steps use of the invariant.
LEMMA ChannelFacts ==
  ASSUME ChannelInv
  PROVE  /\ write_pos \in Nat /\ commit_pos \in Nat /\ read_pos \in Nat
         /\ read_pos <= commit_pos /\ commit_pos <= write_pos
         /\ ItemSize \in Nat \ {0} /\ MaxPos \in Nat
         /\ commit_seq \in NotifyWords /\ read_wake_seq \in NotifyWords
         /\ cwaiter \in [{"consumer"} -> CallStates] /\ pwaiter \in [{"producer"} -> CallStates]
         /\ pblocked \in BOOLEAN /\ cblocked \in BOOLEAN
  BY ChannelTypes, FixedRingAssumption DEF ChannelInv, IInv, TypeOK, Positions, FrontsOrdered

\* What a step has to leave behind.
LEMMA InvariantAgain ==
  ASSUME IInv', NothingAbandoned', TurnBook', ConsumerBook', ProducerBook', CommitCount', ReadCount',
         cwaiter' \in [{"consumer"} -> CallStates], pwaiter' \in [{"producer"} -> CallStates],
         pblocked' \in BOOLEAN, cblocked' \in BOOLEAN
  PROVE  ChannelInv'
<1>1. TypeOK'
  BY DEF IInv
<1>2. CWait!TypeOKWait' /\ PWait!TypeOKWait'
  BY <1>1 DEF TypeOK, CWait!TypeOKWait, PWait!TypeOKWait, CallStates, PWait!WaiterStates,
    CWait!WaiterStates, PWait!WaitPC, CWait!WaitPC, PWait!BlockPC, CWait!BlockPC, NotifyWords,
    PWait!NotifyWords, CWait!NotifyWords, PWait!NoMark, CWait!NoMark
<1>3. ChannelTypeOK'
  BY <1>1, <1>2 DEF ChannelTypeOK
<1> QED BY <1>3 DEF ChannelInv, ConsumerBook, ProducerBook, CommitCount, ReadCount

\* try_reserve: the consumer's side does not see it.
LEMMA ReserveKeepsInv ==
  ASSUME ChannelInv, ProducerReserve \/ ProducerReserved
  PROVE  ChannelInv'
<1>0. IInv' /\ TypeOK' /\ NothingAbandoned'
  BY RingPart DEF ChannelNext, ProducerStep
<1>1. /\ UNCHANGED <<commit_pos, read_pos, commit_seq, read_wake_seq, rpc, cwaiter, pwaiter, cblocked>>
      /\ wpc \in {"idle", "reserve"} /\ wpc' \in {"idle", "reserve"} /\ ProducerRuns
  <2>1. CASE ProducerReserve
    BY <2>1 DEF ProducerReserve, TryReserve, sharedVars, readerVars, waitVars
  <2>2. CASE ProducerReserved
    BY <2>2 DEF ProducerReserved, ReserveSlot, readerVars, ChannelInv, TurnBook
  <2> QED BY <2>1, <2>2
<1>2. ConsumerBook' /\ ProducerBook'
  <2>1. StillEmpty' = StillEmpty
    BY <1>1 DEF StillEmpty
  <2> QED BY <1>1, <2>1, BooksKept, InvariantParts
<1>3. CommitCount' /\ ReadCount'
  BY <1>1, InvariantParts DEF CommitCount, ReadCount, CountBook
<1>4. TurnBook' /\ pblocked' \in BOOLEAN
  <2>0. ConsumerRuns' = ConsumerRuns /\ ProducerRuns'
    BY <1>1 DEF ConsumerRuns, CWait!At, ProducerRuns, PWait!At
  <2>1. CASE ProducerReserve
    <3>1. /\ ~pblocked /\ pblocked' = pblocked /\ write_pos' = write_pos
          /\ wpc' = "reserve" /\ write_pos < MaxPos
      BY <2>1 DEF ProducerReserve, TryReserve, sharedVars, waitVars
    <3> QED BY <1>1, <2>0, <3>1, ChannelFacts DEF TurnBook, ChannelInv
  <2>2. CASE ProducerReserved
    <3>1. /\ wpc = "reserve" /\ wpc' = "idle" /\ pblocked' = RingFull
          /\ RingFull => write_pos' = write_pos /\ pending' = pending
          /\ ~RingFull => write_pos' = write_pos + ItemSize
      BY <2>2 DEF ProducerReserved, ReserveSlot
    <3>2. write_pos < MaxPos /\ ~pending
      BY <3>1 DEF ChannelInv, TurnBook, IInv, WriterBook
    <3>3. write_pos' < MaxPos + ItemSize
      BY <3>1, <3>2, ChannelFacts
    <3>4. pblocked' \in BOOLEAN
      BY <3>1 DEF RingFull
    <3>5. pblocked' => ~pending'
      BY <3>1, <3>2
    <3> QED BY <1>1, <2>0, <3>1, <3>3, <3>4, <3>5, SMTT(30) DEF TurnBook, ChannelInv
  <2> QED BY <2>1, <2>2
<1> QED BY <1>0, <1>1, <1>2, <1>3, <1>4, InvariantAgain, ChannelFacts

\* Filling the slot and publishing it: commit stores commit_pos, then owes a bump.
LEMMA CopyKeepsInv ==
  ASSUME ChannelInv, ProducerCopy
  PROVE  ChannelInv'
<1>0. IInv' /\ TypeOK' /\ NothingAbandoned'
  BY RingPart DEF ChannelNext, ProducerStep
<1>1. /\ UNCHANGED <<write_pos, read_pos, commit_seq, read_wake_seq, rpc, cwaiter, pwaiter, cblocked, pblocked>>
      /\ wpc = "idle"
  BY DEF ProducerCopy, BeginCopy, EndCopy, Commit, readerVars, waitVars
<1>2. pending
  BY DEF ProducerCopy, BeginCopy, EndCopy, ChannelInv, IInv, WriterBook
<1>3. ~pblocked /\ ProducerRuns
  BY <1>2 DEF ChannelInv, TurnBook
<1>4. \/ wpc' = "idle" /\ commit_pos' = commit_pos
      \/ wpc' = "bump" /\ commit_pos' = write_pos /\ write_pos >= commit_pos + ItemSize
  BY <1>2, Zenon DEF ProducerCopy, BeginCopy, EndCopy, Commit, ChannelInv, IInv, WriterBook
<1>5. ConsumerBook' /\ ProducerBook'
  <2>1. StillFull' = StillFull /\ (StillEmpty => StillEmpty' \/ wpc' = "bump")
    BY <1>1, <1>4 DEF StillFull, StillEmpty
  <2> QED BY <1>1, <2>1, BooksKept, InvariantParts
<1>6. CommitCount' /\ ReadCount'
  <2>1. ReadCount' /\ CommitCount
    BY <1>1, InvariantParts DEF ReadCount, CountBook
  <2>2. CASE wpc' = "idle" /\ commit_pos' = commit_pos
    BY <1>1, <2>1, <2>2 DEF CommitCount, CountBook
  <2>3. CASE wpc' = "bump" /\ commit_pos' = write_pos /\ write_pos >= commit_pos + ItemSize
    BY <1>1, <2>1, <2>3, StoreCounts, ChannelFacts DEF CommitCount
  <2> QED BY <1>4, <2>1, <2>2, <2>3
<1>7. TurnBook'
  <2>1. ConsumerRuns' = ConsumerRuns /\ ProducerRuns'
    BY <1>1, <1>3 DEF ConsumerRuns, CWait!At, ProducerRuns, PWait!At
  <2> QED BY <1>1, <1>3, <1>4, <2>1 DEF TurnBook, ChannelInv
<1> QED BY <1>0, <1>1, <1>5, <1>6, <1>7, InvariantAgain, ChannelFacts

\* try_read and read_advance, which stores read_pos and then owes a bump.
LEMMA ReadKeepsInv ==
  ASSUME ChannelInv, ConsumerRead \/ ConsumerAdvance
  PROVE  ChannelInv'
<1>0. IInv' /\ TypeOK' /\ NothingAbandoned'
  BY RingPart DEF ChannelNext, ConsumerStep
<1>1. /\ UNCHANGED <<write_pos, commit_pos, commit_seq, read_wake_seq, wpc, pending, cwaiter, pwaiter, pblocked>>
      /\ rpc \in {"idle", "view"}
  BY DEF ConsumerRead, ConsumerAdvance, TryRead, ReadAdvance, sharedVars, writerVars, waitVars
<1>2. ConsumerRuns /\ ~cblocked
  BY DEF ConsumerRead, ConsumerAdvance, ReadAdvance, ChannelInv, TurnBook
<1>3. \/ /\ rpc' \in {"idle", "view"} /\ read_pos' = read_pos
         /\ cblocked' \in BOOLEAN /\ (cblocked' => rpc' = "idle")
      \/ rpc' = "bump" /\ read_pos' >= read_pos + ItemSize /\ cblocked' = cblocked
  <2>1. CASE ConsumerRead
    BY <2>1, ChannelFacts DEF ConsumerRead, TryRead, sharedVars
  <2>2. CASE ConsumerAdvance
    <3>1. PICK n \in 1 .. item_count : ReadAdvance(n) /\ UNCHANGED waitVars
      BY <2>2 DEF ConsumerAdvance
    <3>2. item_count \in Nat
      BY DivMod, FixedRingAssumption DEF item_count
    <3>3. n \in Nat /\ n >= 1 /\ n * ItemSize >= ItemSize
      BY <3>1, <3>2, FixedRingAssumption
    <3>4. rpc' = "bump" /\ read_pos' = read_pos + n * ItemSize
      BY <3>1 DEF ReadAdvance
    <3>5. n * ItemSize \in Nat
      BY <3>3, FixedRingAssumption
    <3> QED BY <3>1, <3>3, <3>4, <3>5, ChannelFacts DEF waitVars
  <2> QED BY <2>1, <2>2
<1>4. ConsumerBook' /\ ProducerBook'
  <2>1. StillFull => StillFull' \/ rpc' = "bump"
    BY <1>1, <1>3 DEF StillFull
  <2> QED BY <1>1, <1>2, <2>1, BooksKept, InvariantParts
<1>5. CommitCount' /\ ReadCount'
  <2>1. CommitCount' /\ ReadCount
    BY <1>1, InvariantParts DEF CommitCount, CountBook
  <2>2. CASE rpc' \in {"idle", "view"} /\ read_pos' = read_pos
    BY <1>1, <2>1, <2>2 DEF ReadCount, CountBook
  <2>3. CASE rpc' = "bump" /\ read_pos' >= read_pos + ItemSize
    <3>1. read_pos' \in Nat
      BY <1>0 DEF TypeOK, Positions
    <3> QED BY <1>1, <2>1, <2>3, <3>1, StoreCounts, ChannelFacts DEF ReadCount
  <2> QED BY <1>3, <2>1, <2>2, <2>3
<1>6. TurnBook' /\ cblocked' \in BOOLEAN
  <2>1. ConsumerRuns' /\ ProducerRuns' = ProducerRuns
    BY <1>1, <1>2 DEF ConsumerRuns, CWait!At, ProducerRuns, PWait!At
  <2> QED BY <1>1, <1>2, <1>3, <2>1, ChannelFacts DEF TurnBook, ChannelInv
<1> QED BY <1>0, <1>1, <1>4, <1>5, <1>6, InvariantAgain, ChannelFacts

\* commit bumps commit_seq: the marks on it are stale now and a flag owes a notify.
LEMMA CommitBumpKeepsInv ==
  ASSUME SequenceSuffices, ChannelInv, ProducerBump
  PROVE  ChannelInv'
<1>0. IInv' /\ TypeOK' /\ NothingAbandoned'
  BY RingPart DEF ChannelNext, ProducerStep
<1>1. /\ UNCHANGED <<write_pos, commit_pos, read_pos, read_wake_seq, rpc, pending,
                     cwaiter, pwaiter, cblocked, pblocked>>
      /\ wpc = "bump" /\ commit_seq' = bump_notify_word(commit_seq)
      /\ wpc' = (IF HasWaiter(commit_seq) THEN "notify" ELSE "idle")
  BY DEF ProducerBump, CommitBump, readerVars, waitVars
<1>2. /\ notify_seq_value(commit_seq) + 1 < SeqMod
      /\ CountBook(commit_seq', wpc', commit_pos)
  <2>1. CountBook(commit_seq, "bump", commit_pos) /\ commit_pos < MaxPos + ItemSize
    BY <1>1, ChannelFacts DEF ChannelInv, TurnBook
  <2>2. wpc' # "bump"
    BY <1>1
  <2> QED BY <1>1, <2>1, <2>2, BumpIsCounted, ChannelFacts, SMTT(30)
<1>3. ConsumerBook'
  <2> DEFINE c == cwaiter["consumer"]  empty == StillEmpty
  <2>1. empty \in BOOLEAN /\ WaitBook(commit_seq, c, "bump", empty)
    BY <1>1, Predicates DEF ChannelInv
  <2>2. StillEmpty' = empty
    BY <1>1 DEF StillEmpty
  <2> HIDE DEF c, empty
  <2>3. WaitBook(bump_notify_word(commit_seq), c, IF HasWaiter(commit_seq) THEN "notify" ELSE "idle", empty)
    BY <1>2, <2>1, BumpBook, ChannelFacts, SMTT(30)
  <2> QED BY <1>1, <2>2, <2>3, SMTT(30) DEF ConsumerBook, c
<1>4. ProducerBook' /\ ReadCount' /\ CommitCount'
  <2>1. StillFull' = StillFull
    BY <1>1 DEF StillFull
  <2> QED BY <1>1, <1>2, <2>1, InvariantParts DEF ProducerBook, ReadCount, CommitCount
<1>5. TurnBook'
  <2>1. ConsumerRuns' = ConsumerRuns /\ ProducerRuns' = ProducerRuns
    BY <1>1 DEF ConsumerRuns, CWait!At, ProducerRuns, PWait!At
  <2> QED BY <1>1, <2>1 DEF TurnBook, ChannelInv
<1> QED BY <1>0, <1>1, <1>3, <1>4, <1>5, InvariantAgain, ChannelFacts

\* read_advance bumps read_wake_seq, likewise.
LEMMA AdvanceBumpKeepsInv ==
  ASSUME SequenceSuffices, ChannelInv, ConsumerBump
  PROVE  ChannelInv'
<1>0. IInv' /\ TypeOK' /\ NothingAbandoned'
  BY RingPart DEF ChannelNext, ConsumerStep
<1>1. /\ UNCHANGED <<write_pos, commit_pos, read_pos, commit_seq, wpc, pending,
                     cwaiter, pwaiter, cblocked, pblocked>>
      /\ rpc = "bump" /\ read_wake_seq' = bump_notify_word(read_wake_seq)
      /\ rpc' = (IF HasWaiter(read_wake_seq) THEN "notify" ELSE "idle")
  BY DEF ConsumerBump, AdvanceBump, writerVars, waitVars
<1>2. /\ notify_seq_value(read_wake_seq) + 1 < SeqMod
      /\ CountBook(read_wake_seq', rpc', read_pos)
  <2>1. CountBook(read_wake_seq, "bump", read_pos) /\ read_pos < MaxPos + ItemSize
    BY <1>1, ChannelFacts DEF ChannelInv, TurnBook
  <2>2. rpc' # "bump"
    BY <1>1
  <2> QED BY <1>1, <2>1, <2>2, BumpIsCounted, ChannelFacts, SMTT(30)
<1>3. ProducerBook'
  <2> DEFINE c == pwaiter["producer"]  full == StillFull
  <2>1. full \in BOOLEAN /\ WaitBook(read_wake_seq, c, "bump", full)
    BY <1>1, Predicates DEF ChannelInv
  <2>2. StillFull' = full
    BY <1>1 DEF StillFull
  <2> HIDE DEF c, full
  <2>3. WaitBook(bump_notify_word(read_wake_seq), c, IF HasWaiter(read_wake_seq) THEN "notify" ELSE "idle", full)
    BY <1>2, <2>1, BumpBook, ChannelFacts
  <2> QED BY <1>1, <2>2, <2>3 DEF ProducerBook, c
<1>4. ConsumerBook' /\ ReadCount' /\ CommitCount'
  <2>1. StillEmpty' = StillEmpty
    BY <1>1 DEF StillEmpty
  <2> QED BY <1>1, <1>2, <2>1, InvariantParts DEF ConsumerBook, ReadCount, CommitCount
<1>5. TurnBook'
  <2>1. ConsumerRuns' = ConsumerRuns /\ ProducerRuns' = ProducerRuns
    BY <1>1 DEF ConsumerRuns, CWait!At, ProducerRuns, PWait!At
  <2> QED BY <1>1, <2>1 DEF TurnBook, ChannelInv
<1> QED BY <1>0, <1>1, <1>3, <1>4, <1>5, InvariantAgain, ChannelFacts

\* The notify that a bump owed wakes the sleeper.
LEMMA NotifyKeepsInv ==
  ASSUME ChannelInv, ProducerNotify \/ ConsumerNotify
  PROVE  ChannelInv'
<1>0. IInv' /\ TypeOK' /\ NothingAbandoned'
  BY RingPart DEF ChannelNext, ProducerStep, ConsumerStep
<1>1. /\ UNCHANGED <<write_pos, commit_pos, read_pos, commit_seq, read_wake_seq, pending, cblocked, pblocked>>
      /\ StillEmpty' = StillEmpty /\ StillFull' = StillFull
      /\ StillEmpty \in BOOLEAN /\ StillFull \in BOOLEAN
  BY DEF ProducerNotify, ConsumerNotify, CommitNotify, AdvanceNotify, sharedVars, writerVars,
    StillEmpty, StillFull
<1>2. CASE ProducerNotify
  <2>1. /\ wpc = "notify" /\ wpc' = "idle" /\ UNCHANGED <<rpc, pwaiter>> /\ CWait!atomic_notify_all
    BY <1>2 DEF ProducerNotify, CommitNotify, readerVars
  <2>2. /\ cwaiter' \in [{"consumer"} -> CallStates]
        /\ WaitBook(commit_seq, cwaiter'["consumer"], "idle", StillEmpty)
        /\ cwaiter'["consumer"].pc = "out" <=> cwaiter["consumer"].pc = "out"
    BY <1>1, <2>1, ConsumerIsWoken, ChannelFacts, SMTT(30) DEF ChannelInv
  <2>3. ConsumerBook' /\ ProducerBook' /\ CommitCount' /\ ReadCount'
    BY <1>1, <2>1, <2>2, InvariantParts, SMTT(30)
    DEF ConsumerBook, ProducerBook, CommitCount, ReadCount, CountBook
  <2>4. TurnBook'
    BY <1>1, <2>1, <2>2, SMTT(30) DEF TurnBook, ChannelInv, ConsumerRuns, CWait!At, ProducerRuns, PWait!At
  <2> QED BY <1>0, <1>1, <2>1, <2>2, <2>3, <2>4, InvariantAgain, ChannelFacts, SMTT(30)
<1>3. CASE ConsumerNotify
  <2>1. /\ rpc = "notify" /\ rpc' = "idle" /\ UNCHANGED <<wpc, cwaiter>> /\ PWait!atomic_notify_all
    BY <1>3 DEF ConsumerNotify, AdvanceNotify, writerVars
  <2>2. /\ pwaiter' \in [{"producer"} -> CallStates]
        /\ WaitBook(read_wake_seq, pwaiter'["producer"], "idle", StillFull)
        /\ pwaiter'["producer"].pc = "out" <=> pwaiter["producer"].pc = "out"
    BY <1>1, <2>1, ProducerIsWoken, ChannelFacts, SMTT(30) DEF ChannelInv
  <2>3. ConsumerBook' /\ ProducerBook' /\ CommitCount' /\ ReadCount'
    BY <1>1, <2>1, <2>2, InvariantParts, SMTT(30)
    DEF ConsumerBook, ProducerBook, CommitCount, ReadCount, CountBook
  <2>4. TurnBook'
    BY <1>1, <2>1, <2>2 DEF TurnBook, ChannelInv, ConsumerRuns, CWait!At, ProducerRuns, PWait!At
  <2> QED BY <1>0, <1>1, <2>1, <2>2, <2>3, <2>4, InvariantAgain, ChannelFacts
<1> QED BY <1>2, <1>3

\* A step of a wait: what the word and the call owe each other was shown above;
\* the other side and the positions are not touched.
LEMMA ProducerWaitKeepsInv ==
  ASSUME ChannelInv, UNCHANGED <<AllButReadWakeSeq, cwaiter, cblocked>>,
         \/ pblocked /\ ~pblocked' /\ pblocked' \in BOOLEAN
            /\ \E timed \in BOOLEAN : PWait!WaitCall("producer", timed)
         \/ /\ \/ PWait!WaitStep("producer", StillFull)
               \/ PWait!Expire("producer") \/ PWait!SpuriousWake("producer")
            /\ pblocked' = pblocked,
         IInv', NothingAbandoned'
  PROVE  ChannelInv'
<1>1. /\ UNCHANGED <<write_pos, commit_pos, read_pos, commit_seq, wpc, rpc, pending, cwaiter, cblocked>>
      /\ StillEmpty' = StillEmpty /\ StillFull' = StillFull
  BY SMTT(30) DEF AllButReadWakeSeq, writerVars, readerVars, StillEmpty, StillFull
<1>2. StillFull \in BOOLEAN /\ WaitBook(read_wake_seq, pwaiter["producer"], rpc, StillFull)
  BY Predicates DEF ChannelInv
<1>3. /\ pwaiter' \in [{"producer"} -> CallStates]
      /\ notify_seq_value(read_wake_seq') = notify_seq_value(read_wake_seq)
      /\ WaitBook(read_wake_seq', pwaiter'["producer"], rpc, StillFull)
      /\ (pblocked \/ ~ProducerRuns) /\ pblocked' \in BOOLEAN
  <2>1. CASE pblocked /\ pblocked' \in BOOLEAN /\ \E timed \in BOOLEAN : PWait!WaitCall("producer", timed)
    <3>1. PICK timed \in BOOLEAN : PWait!WaitCall("producer", timed)
      BY <2>1
    <3> QED BY <1>2, <2>1, <3>1, ProducerEnters, ChannelFacts, SMTT(30)
  <2>2. CASE /\ pblocked' = pblocked
             /\ \/ PWait!WaitStep("producer", StillFull)
                \/ PWait!Expire("producer") \/ PWait!SpuriousWake("producer")
    BY <1>2, <2>2, ProducerCallBook, ChannelFacts, SMTT(30) DEF ProducerRuns
  <2> QED BY <2>1, <2>2
<1>4. ConsumerBook' /\ ProducerBook' /\ CommitCount' /\ ReadCount'
  BY <1>1, <1>3, InvariantParts, SMTT(30) DEF ConsumerBook, ProducerBook, CommitCount, ReadCount, CountBook
<1>5. TurnBook'
  BY <1>1, <1>3 DEF ChannelInv, TurnBook, ConsumerRuns, CWait!At
<1> QED BY <1>1, <1>3, <1>4, <1>5, InvariantAgain, ChannelFacts

\* The consumer's wait, likewise.
LEMMA ConsumerWaitKeepsInv ==
  ASSUME ChannelInv, UNCHANGED <<AllButCommitSeq, pwaiter, pblocked>>,
         \/ cblocked /\ ~cblocked' /\ cblocked' \in BOOLEAN
            /\ \E timed \in BOOLEAN : CWait!WaitCall("consumer", timed)
         \/ /\ \/ CWait!WaitStep("consumer", StillEmpty)
               \/ CWait!Expire("consumer") \/ CWait!SpuriousWake("consumer")
            /\ cblocked' = cblocked,
         IInv', NothingAbandoned'
  PROVE  ChannelInv'
<1>1. /\ UNCHANGED <<write_pos, commit_pos, read_pos, read_wake_seq, wpc, rpc, pending, pwaiter, pblocked>>
      /\ StillEmpty' = StillEmpty /\ StillFull' = StillFull
  BY SMTT(30) DEF AllButCommitSeq, writerVars, readerVars, StillEmpty, StillFull
<1>2. StillEmpty \in BOOLEAN /\ WaitBook(commit_seq, cwaiter["consumer"], wpc, StillEmpty)
  BY Predicates DEF ChannelInv
<1>3. /\ cwaiter' \in [{"consumer"} -> CallStates]
      /\ notify_seq_value(commit_seq') = notify_seq_value(commit_seq)
      /\ WaitBook(commit_seq', cwaiter'["consumer"], wpc, StillEmpty)
      /\ (cblocked \/ ~ConsumerRuns) /\ cblocked' \in BOOLEAN
  <2>1. CASE cblocked /\ cblocked' \in BOOLEAN /\ \E timed \in BOOLEAN : CWait!WaitCall("consumer", timed)
    <3>1. PICK timed \in BOOLEAN : CWait!WaitCall("consumer", timed)
      BY <2>1
    <3> QED BY <1>2, <2>1, <3>1, ConsumerEnters, ChannelFacts
  <2>2. CASE /\ cblocked' = cblocked
             /\ \/ CWait!WaitStep("consumer", StillEmpty)
                \/ CWait!Expire("consumer") \/ CWait!SpuriousWake("consumer")
    BY <1>2, <2>2, ConsumerCallBook, ChannelFacts, SMTT(30) DEF ConsumerRuns
  <2> QED BY <2>1, <2>2
<1>4. ConsumerBook' /\ ProducerBook' /\ CommitCount' /\ ReadCount'
  BY <1>1, <1>3, InvariantParts, SMTT(30) DEF ConsumerBook, ProducerBook, CommitCount, ReadCount, CountBook
<1>5. TurnBook'
  BY <1>1, <1>3 DEF ChannelInv, TurnBook, ProducerRuns, PWait!At
<1> QED BY <1>1, <1>3, <1>4, <1>5, InvariantAgain, ChannelFacts

\* A step that changes nothing.
LEMMA StutterKeepsInv ==
  ASSUME ChannelInv, UNCHANGED channelVars
  PROVE  ChannelInv'
<1>0. IInv' /\ NothingAbandoned'
  BY RingPart
<1>1. UNCHANGED <<write_pos, commit_pos, read_pos, commit_seq, read_wake_seq, wpc, rpc, pending,
                  cwaiter, pwaiter, cblocked, pblocked>>
  BY DEF channelVars, waitVars, vars, sharedVars, writerVars, readerVars
<1>2. ConsumerBook' /\ ProducerBook' /\ CommitCount' /\ ReadCount' /\ TurnBook'
  BY <1>1, InvariantParts DEF ConsumerBook, ProducerBook, CommitCount, ReadCount, TurnBook,
    StillEmpty, StillFull, ConsumerRuns, ProducerRuns, CWait!At, PWait!At
<1> QED BY <1>0, <1>1, <1>2, InvariantAgain, ChannelFacts

\* Every step of the channel keeps the invariant.
LEMMA ChannelStepKeepsInv ==
  ASSUME SequenceSuffices, ChannelInv, [ChannelNext]_channelVars
  PROVE  ChannelInv'
<1>0. IInv' /\ NothingAbandoned'
  BY RingPart
<1>1. CASE ProducerReserve \/ ProducerReserved
  BY <1>1, ReserveKeepsInv
<1>2. CASE ProducerCopy
  BY <1>2, CopyKeepsInv
<1>3. CASE ConsumerRead \/ ConsumerAdvance
  BY <1>3, ReadKeepsInv
<1>4. CASE ProducerBump
  BY <1>4, CommitBumpKeepsInv
<1>5. CASE ConsumerBump
  BY <1>5, AdvanceBumpKeepsInv
<1>6. CASE ProducerNotify \/ ConsumerNotify
  BY <1>6, NotifyKeepsInv
<1>7. CASE \/ ProducerWait \/ ProducerWaitStep
           \/ /\ PWait!Expire("producer") \/ PWait!SpuriousWake("producer")
              /\ UNCHANGED <<AllButReadWakeSeq, cwaiter, pblocked, cblocked>>
  <2>1. /\ UNCHANGED <<AllButReadWakeSeq, cwaiter, cblocked>>
        /\ \/ pblocked /\ ~pblocked' /\ pblocked' \in BOOLEAN
              /\ \E timed \in BOOLEAN : PWait!WaitCall("producer", timed)
           \/ /\ \/ PWait!WaitStep("producer", StillFull)
                 \/ PWait!Expire("producer") \/ PWait!SpuriousWake("producer")
              /\ pblocked' = pblocked
    BY <1>7, Zenon DEF ProducerWait, ProducerWaitStep
  <2> QED BY <1>0, <2>1, ProducerWaitKeepsInv
<1>8. CASE \/ ConsumerWait \/ ConsumerWaitStep
           \/ /\ CWait!Expire("consumer") \/ CWait!SpuriousWake("consumer")
              /\ UNCHANGED <<AllButCommitSeq, pwaiter, pblocked, cblocked>>
  <2>1. /\ UNCHANGED <<AllButCommitSeq, pwaiter, pblocked>>
        /\ \/ cblocked /\ ~cblocked' /\ cblocked' \in BOOLEAN
              /\ \E timed \in BOOLEAN : CWait!WaitCall("consumer", timed)
           \/ /\ \/ CWait!WaitStep("consumer", StillEmpty)
                 \/ CWait!Expire("consumer") \/ CWait!SpuriousWake("consumer")
              /\ cblocked' = cblocked
    BY <1>8, Zenon DEF ConsumerWait, ConsumerWaitStep
  <2> QED BY <1>0, <2>1, ConsumerWaitKeepsInv
<1>9. CASE Finished \/ UNCHANGED channelVars
  BY <1>9, StutterKeepsInv DEF Finished
<1> QED BY <1>1, <1>2, <1>3, <1>4, <1>5, <1>6, <1>7, <1>8, <1>9
    DEF ChannelNext, ProducerStep, ConsumerStep, Clock

\* A channel starts with nobody waiting and nothing counted.
LEMMA ChannelInitInvariant ==
  ChannelInit => ChannelInv
<1> SUFFICES ASSUME ChannelInit PROVE ChannelInv
  OBVIOUS
<1>1. /\ write_pos = 0 /\ commit_pos = 0 /\ read_pos = 0 /\ commit_seq = 0 /\ read_wake_seq = 0
      /\ wpc = "idle" /\ rpc = "idle" /\ pending = FALSE /\ pblocked = FALSE /\ cblocked = FALSE
      /\ abandoned = {}
  BY DEF ChannelInit, Init
<1>2. IInv /\ TypeOK /\ NothingAbandoned
  BY <1>1, InitInvariant DEF ChannelInit, IInv, NothingAbandoned
<1>3. /\ cwaiter["consumer"].pc = "out" /\ cwaiter["consumer"].registered = FALSE
      /\ pwaiter["producer"].pc = "out" /\ pwaiter["producer"].registered = FALSE
      /\ CWait!TypeOKWait /\ PWait!TypeOKWait
  BY <1>2 DEF ChannelInit, CWait!WaiterInit, PWait!WaiterInit, CWait!IdleWaiter, PWait!IdleWaiter,
    TypeOK, NotifyWords, CWait!TypeOKWait, PWait!TypeOKWait, PWait!WaiterStates, CWait!WaiterStates,
    PWait!WaitPC, CWait!WaitPC, PWait!NotifyWords, CWait!NotifyWords, PWait!NoMark, CWait!NoMark
<1>4. ~HasWaiter(0) /\ notify_seq_value(0) = 0
  BY SeqModAssumption DEF HasWaiter, notify_seq_value, notify_waiter_bit
<1>5. ConsumerBook /\ ProducerBook
  BY <1>1, <1>3, <1>4 DEF ConsumerBook, ProducerBook, WaitBook, Rechecked
<1>6. CommitCount /\ ReadCount
  BY <1>1, <1>4, FixedRingAssumption DEF CommitCount, ReadCount, CountBook
<1>7. TurnBook
  BY <1>1, FixedRingAssumption DEF TurnBook
<1>8. ChannelTypeOK
  BY <1>1, <1>2, <1>3, Zenon DEF ChannelTypeOK
<1> QED BY <1>2, <1>5, <1>6, <1>7, <1>8, InvariantParts

-----------------------------------------------------------------------------
\* In every reachable state of a channel whose stream the sequence can count,
\* the two notify words, the waits on them and the positions agree as ChannelInv
\* says, for every capacity, item size and length of the stream.
THEOREM ChannelInvariantHolds ==
  ASSUME SequenceSuffices
  PROVE  ChannelSpec => []ChannelInv
<1>1. ChannelInv /\ [ChannelNext]_channelVars => ChannelInv'
  BY ChannelStepKeepsInv
<1> QED BY <1>1, ChannelInitInvariant, PTL DEF ChannelSpec

\* The ring and both waits keep their types while they share the two words.
THEOREM ChannelTypeCorrect ==
  ASSUME SequenceSuffices
  PROVE  ChannelSpec => []ChannelTypeOK
<1>1. ChannelInv => ChannelTypeOK
  BY SMTT(30) DEF ChannelInv
<1> QED BY <1>1, ChannelInvariantHolds, PTL

\* The waiter flag of a word is set only while somebody is inside
\* wait_on_notify_word(_for) on it: the call that set it clears it, whichever way
\* it ends, and no bump or store disturbs that.
THEOREM FlagsAreCleared ==
  ASSUME SequenceSuffices
  PROVE  ChannelSpec => []NoStrayFlag
<1>1. ChannelInv => NoStrayFlag
  BY DEF ChannelInv, NoStrayFlag, WaitBook, ConsumerRuns, ProducerRuns, CWait!At, PWait!At
<1> QED BY <1>1, ChannelInvariantHolds, PTL

\* What a sleeper knows: it sleeps on the word as it is, so the flag is up, and
\* its predicate holds or the bump is due.
LEMMA SleeperIsSafe ==
  ASSUME NEW raw \in NotifyWords, NEW call \in CallStates, NEW bpc, NEW pred \in BOOLEAN,
         WaitBook(raw, call, bpc, pred), call.pc = "asleep", ~pred
  PROVE  bpc = "notify" \/ (bpc = "bump" /\ HasWaiter(raw))
<1> SUFFICES ASSUME bpc # "notify" PROVE bpc = "bump" /\ HasWaiter(raw)
  OBVIOUS
<1>1. raw = call.marked
  BY DEF WaitBook
<1>2. raw = SetWaiter(raw) /\ bpc = "bump"
  BY <1>1 DEF WaitBook, Rechecked
<1>3. HasWaiter(raw)
  BY <1>2, WordParts, SeqModAssumption, SMTT(30) DEF SetWaiter, HasWaiter, NotifyWords, notify_waiter_bit
<1> QED BY <1>2, <1>3

\* Nobody sleeps through what they wait for: no commit is missed by a consumer
\* asleep on commit_seq and no read_advance by a producer asleep on
\* read_wake_seq, at whichever step of the mark, the recheck and the futex call
\* the store and the bump fall.
THEOREM ProgressIsNeverSleptThrough ==
  ASSUME SequenceSuffices
  PROVE  ChannelSpec => []NobodySleepsThroughProgress
<1>1. ChannelInv => NobodySleepsThroughProgress
  <2> SUFFICES ASSUME ChannelInv PROVE NobodySleepsThroughProgress
    OBVIOUS
  <2>1. /\ WaitBook(commit_seq, cwaiter["consumer"], wpc, StillEmpty)
        /\ WaitBook(read_wake_seq, pwaiter["producer"], rpc, StillFull)
        /\ cwaiter["consumer"] \in CallStates /\ pwaiter["producer"] \in CallStates
    BY ChannelFacts DEF ChannelInv
  <2>2. ASSUME CWait!At("consumer", "asleep"), ~StillEmpty
        PROVE  wpc = "notify" \/ (wpc = "bump" /\ HasWaiter(commit_seq))
    BY <2>1, <2>2, SleeperIsSafe, ChannelFacts, Predicates, SMTT(30) DEF CWait!At
  <2>3. ASSUME PWait!At("producer", "asleep"), ~StillFull
        PROVE  rpc = "notify" \/ (rpc = "bump" /\ HasWaiter(read_wake_seq))
    BY <2>1, <2>3, SleeperIsSafe, ChannelFacts, Predicates DEF PWait!At
  <2> QED BY <2>2, <2>3 DEF NobodySleepsThroughProgress
<1> QED BY <1>1, ChannelInvariantHolds, PTL

\* A channel is a ring: whatever the two clients and their waits do, the ring sees
\* its own steps and nobody abandons a slot.  So the channel delivers the
\* messages as a FIFO queue does, for every capacity and item size.
THEOREM ChannelIsFifo ==
  ASSUME SequenceSuffices
  PROVE  ChannelSpec => ImplementsFifo
<1>1. ChannelInit => Init
  BY DEF ChannelInit
<1>2. ChannelInv /\ [ChannelNext]_channelVars => [Next]_vars
  BY ChannelIsRing
<1>3. ChannelInv => NothingAbandoned
  BY DEF ChannelInv
<1> QED BY <1>1, <1>2, <1>3, ChannelInvariantHolds, RingIsFifo, PTL DEF ChannelSpec, Spec

=============================================================================

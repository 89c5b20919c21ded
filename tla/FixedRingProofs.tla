-------------------------- MODULE FixedRingProofs --------------------------
(***************************************************************************)
(* FixedRing is correct for every geometry: the fronts stay ordered and    *)
(* within one lap, and every published slot is intact until it is          *)
(* released, also when either side dies in the middle of a call, up to the *)
(* slots a dead writer had reserved.                                       *)
(***************************************************************************)
EXTENDS FixedRing, NotifyBitsProofs, SequenceTheorems

\* Indexes are within the data region.
LEMMA IndexType ==
  ASSUME NEW p \in Nat
  PROVE  p % Capacity \in 0 .. (Capacity - 1)
  BY DivMod, FixedRingAssumption

\* A full test that fails leaves room for a whole slot: an index comparison
\* against a stale read_pos is enough.
LEMMA NotFullFits ==
  ASSUME NEW w \in Nat, NEW r \in Nat, r <= w, w <= r + Capacity,
         w % ItemSize = 0, r % ItemSize = 0,
         ~(w % Capacity = r % Capacity /\ w > r)
  PROVE  w + ItemSize <= r + Capacity
<1>0. Capacity \in Nat \ {0} /\ ItemSize \in Nat \ {0} /\ Capacity % ItemSize = 0
  BY FixedRingAssumption
<1>1. Capacity % Capacity = 0
  BY <1>0, ModMultiple, 1 * Capacity = Capacity
<1>2. (r + Capacity) % Capacity = r % Capacity
  BY <1>0, <1>1, ModAdd, Zenon
<1>3. w # r + Capacity
  BY <1>0, <1>2
<1>4. (r + Capacity) % ItemSize = r % ItemSize
  BY <1>0, ModAdd, Zenon
<1>5. ASSUME r + Capacity < w + ItemSize PROVE FALSE
  BY <1>0, <1>3, <1>4, <1>5, r + Capacity \in Nat, ModInjective, Zenon
<1> QED BY <1>0, <1>5

\* n slots further on from a slot boundary is a slot boundary.
LEMMA BoundaryAhead ==
  ASSUME NEW p \in Nat, p % ItemSize = 0, NEW n \in Nat
  PROVE  (p + n * ItemSize) % ItemSize = 0 /\ n * ItemSize \in Nat
<1>0. ItemSize \in Nat \ {0}
  BY FixedRingAssumption
<1>1. (n * ItemSize) % ItemSize = 0 /\ n * ItemSize \in Nat
  BY <1>0, ModMultiple
<1>2. (p + n * ItemSize) % ItemSize = p % ItemSize
  BY <1>0, <1>1, ModAdd, Zenon
<1> QED BY <1>1, <1>2

\* The slot after the last published one shares its index with no unread slot
\* as long as it ends within a lap of read_pos.
LEMMA NextSlotIsFree ==
  ASSUME NEW c \in Nat, NEW r \in Nat, c + ItemSize <= r + Capacity,
         NEW p \in Nat, r <= p, p < c
  PROVE  p % Capacity # c % Capacity
<1>0. Capacity \in Nat \ {0} /\ ItemSize \in Nat \ {0}
  BY FixedRingAssumption
<1>1. p <= c /\ c < p + Capacity /\ p # c
  BY <1>0
<1> QED BY <1>0, <1>1, ModInjective, Zenon

-----------------------------------------------------------------------------
\* A freshly initialised block satisfies the invariant.
LEMMA InitInvariant == Init => IInv
<1> SUFFICES ASSUME Init PROVE IInv
  OBVIOUS
<1>1. 0 % ItemSize = 0
  BY FixedRingAssumption, ModMultiple, 0 * ItemSize = 0
<1>2. 0 \in NotifyWords
  BY SeqModAssumption DEF NotifyWords
<1>3. TypeOK
  BY <1>2, FixedRingAssumption, Zenon DEF Init, TypeOK, Positions
<1>4. CommittedIntact
  BY DEF Init, CommittedIntact, Unread
<1>5. Gap = {}
  BY DEF Init, Gap
<1> QED
  BY <1>1, <1>3, <1>4, <1>5, FixedRingAssumption
  DEF Init, IInv, OnSlotBoundary, FrontsOrdered, WriterBook, LoadedPositions, FilledSlot

\* Steps that change neither a front nor the memory keep what is published.
LEMMA IntactUnchanged ==
  ASSUME CommittedIntact, UNCHANGED <<commit_pos, read_pos, data, abandoned>>
  PROVE  CommittedIntact'
  BY DEF CommittedIntact, Unread

\* The slot of a pending reservation: it ends at write_pos, behind everything
\* that is published.
LEMMA PendingSlot ==
  ASSUME IInv, pending
  PROVE  /\ write_pos - ItemSize \in Nat /\ reserved_end = write_pos
         /\ commit_pos <= write_pos - ItemSize
         /\ (write_pos - ItemSize) % ItemSize = 0
         /\ (write_pos - ItemSize) + ItemSize <= read_pos + Capacity
         /\ Slot = (write_pos - ItemSize) % Capacity
<1> USE FixedRingAssumption
<1>1. /\ write_pos \in Nat /\ commit_pos \in Nat /\ reserved_end = write_pos
      /\ commit_pos + ItemSize <= write_pos /\ write_pos % ItemSize = 0
      /\ write_pos <= read_pos + Capacity /\ read_pos \in Nat
  BY DEF IInv, TypeOK, Positions, WriterBook, OnSlotBoundary, FrontsOrdered
<1>2. write_pos - ItemSize \in Nat
  BY <1>1
<1> DEFINE s == write_pos - ItemSize
<1>3. s \in Nat /\ s + 1 * ItemSize = write_pos
  BY <1>1, <1>2
<1>4. (1 * ItemSize) % ItemSize = 0 /\ 1 * ItemSize \in Nat
  BY ModMultiple
<1>5. s % ItemSize = 0
  <2> HIDE DEF s
  <2>1. (s + 1 * ItemSize) % ItemSize = s % ItemSize
    BY <1>3, <1>4, ModAdd, Zenon
  <2> QED BY <1>1, <1>3, <2>1
<1> QED BY <1>1, <1>2, <1>5 DEF Slot

\* A slot boundary behind the published slots and before the end of a pending
\* reservation is that reservation or was left by a dead writer.
LEMMA UnpublishedSlot ==
  ASSUME IInv, pending, NEW p \in Nat,
         commit_pos <= p, p < write_pos, p % ItemSize = 0
  PROVE  p \in abandoned \/ p = write_pos - ItemSize
<1> USE FixedRingAssumption
<1>1. write_pos - ItemSize \in Nat /\ (write_pos - ItemSize) % ItemSize = 0
  BY PendingSlot
<1>2. write_pos \in Nat /\ commit_pos \in Nat
  BY DEF IInv, TypeOK, Positions
<1>3. CASE p < write_pos - ItemSize
  BY <1>1, <1>2, <1>3 DEF IInv, WriterBook, Gap
<1>4. CASE p >= write_pos - ItemSize
  <2> DEFINE s == write_pos - ItemSize
  <2>1. s \in Nat /\ s % ItemSize = 0 /\ s <= p /\ p < s + ItemSize
    BY <1>1, <1>2, <1>4
  <2> HIDE DEF s
  <2>2. p = s
    BY <2>1, ModInjective, Zenon
  <2> QED BY <2>2 DEF s
<1> QED BY <1>1, <1>3, <1>4

\* try_reserve that finds room moves write_pos by one slot, within a lap.
LEMMA ReserveInvariant == IInv /\ ReserveSlot => IInv'
<1> SUFFICES ASSUME IInv, ReserveSlot PROVE IInv'
  OBVIOUS
<1> USE FixedRingAssumption
<1>1. ~pending /\ fill = "none"
  BY DEF IInv, ReserveSlot, WriterBook, TypeOK
<1>2. CommittedIntact'
  BY IntactUnchanged DEF IInv, ReserveSlot
<1>3. CASE RingFull
  BY <1>1, <1>2, <1>3 DEF IInv, ReserveSlot, TypeOK, OnSlotBoundary, FrontsOrdered,
    WriterBook, LoadedPositions, FilledSlot, Gap, readerVars
<1>4. CASE ~RingFull
  <2>1. write_pos \in Nat /\ wread \in Nat /\ read_pos \in Nat /\ wread <= read_pos
        /\ wread <= write_pos /\ write_pos <= wread + Capacity
        /\ write_pos % ItemSize = 0 /\ wread % ItemSize = 0
    BY DEF IInv, ReserveSlot, TypeOK, Positions, OnSlotBoundary, FrontsOrdered, LoadedPositions
  <2>2. write_pos + ItemSize <= wread + Capacity
    BY <1>4, <2>1, NotFullFits, Zenon DEF RingFull
  <2>3. (write_pos + ItemSize) % ItemSize = 0
    <3>1. (write_pos + 1 * ItemSize) % ItemSize = 0
      BY <2>1, BoundaryAhead, SMTT(30)
    <3> QED BY <3>1
  <2>4. /\ write_pos' = write_pos + ItemSize /\ reserved_end' = write_pos + ItemSize
        /\ pending' = TRUE /\ fill' = "empty" /\ wpc' = "idle"
        /\ UNCHANGED <<commit_pos, read_pos, commit_seq, read_wake_seq, data, wread, rpc, rseen,
                       abandoned>>
    BY <1>4 DEF ReserveSlot, readerVars
  <2>5. TypeOK'
    BY <2>1, <2>4 DEF IInv, TypeOK, Positions
  <2>6. OnSlotBoundary'
    BY <2>3, <2>4 DEF IInv, OnSlotBoundary
  <2>7. FrontsOrdered'
    BY <2>1, <2>2, <2>4, <1>1 DEF IInv, FrontsOrdered, TypeOK, Positions
  <2>8. Gap' = Gap
    BY <1>1, <2>1, <2>4 DEF Gap
  <2>9. WriterBook'
    <3>1. commit_pos \in Nat /\ commit_pos <= write_pos
      BY DEF IInv, TypeOK, Positions, FrontsOrdered
    <3>2. Gap' \subseteq abandoned'
      BY <2>4, <2>8 DEF IInv, WriterBook
    <3>3. commit_pos' + ItemSize <= write_pos'
      BY <2>1, <2>4, <3>1
    <3> QED BY <2>4, <3>2, <3>3 DEF WriterBook
  <2>10. LoadedPositions' /\ FilledSlot'
    BY <1>1, <2>4 DEF IInv, LoadedPositions, FilledSlot
  <2> QED BY <1>2, <2>5, <2>6, <2>7, <2>9, <2>10 DEF IInv
<1> QED BY <1>3, <1>4

\* Copying into the reserved slot touches no slot the consumer may look at.
LEMMA CopyInvariant == IInv /\ (BeginCopy \/ EndCopy) => IInv'
<1> SUFFICES ASSUME IInv, BeginCopy \/ EndCopy PROVE IInv'
  OBVIOUS
<1> USE FixedRingAssumption
<1>1. /\ UNCHANGED <<write_pos, commit_pos, read_pos, commit_seq, read_wake_seq,
                     pending, reserved_end, wpc, wread, rpc, rseen, abandoned>>
      /\ wpc = "idle"
  BY DEF BeginCopy, EndCopy, readerVars
<1> DEFINE s == reserved_end - ItemSize
<1>2. /\ commit_pos \in Nat /\ read_pos \in Nat /\ pending
      /\ s \in Nat /\ commit_pos <= s /\ s + ItemSize <= read_pos + Capacity
      /\ Slot = s % Capacity
  <2>1. pending
    BY DEF IInv, WriterBook, BeginCopy, EndCopy, TypeOK
  <2> QED BY <2>1, PendingSlot DEF IInv, TypeOK, Positions
<1>3. Slot \in 0 .. (Capacity - 1)
  BY <1>2, IndexType
<1>4. PICK v \in Nat \cup {Junk} : /\ data' = [data EXCEPT ![Slot] = v]
                                   /\ fill' \in {"partial", "full"}
                                   /\ fill' = "full" => v = s
  BY <1>2, Zenon DEF BeginCopy, EndCopy
<1> HIDE DEF s
<1>5. data \in [0 .. (Capacity - 1) -> Nat \cup {Junk}]
  BY DEF IInv, TypeOK, Positions
<1>6. TypeOK'
  BY <1>1, <1>3, <1>4, <1>5 DEF IInv, TypeOK, Positions
<1>7. FilledSlot'
  BY <1>1, <1>3, <1>4, <1>5 DEF FilledSlot, Slot, s
<1>8. CommittedIntact'
  <2> SUFFICES ASSUME NEW p \in Unread, p \notin abandoned PROVE data'[p % Capacity] = p
    BY <1>1 DEF CommittedIntact, Unread
  <2>1. p \in Nat /\ read_pos <= p /\ p < s
    BY <1>2 DEF Unread
  <2>2. p % Capacity # Slot /\ p % Capacity \in 0 .. (Capacity - 1)
    BY <1>2, <2>1, NextSlotIsFree, IndexType, Zenon
  <2>3. data[p % Capacity] = p
    BY DEF IInv, CommittedIntact
  <2> QED BY <1>3, <1>4, <1>5, <2>2, <2>3
<1> QED
  BY <1>1, <1>2, <1>4, <1>6, <1>7, <1>8
  DEF IInv, OnSlotBoundary, FrontsOrdered, WriterBook, LoadedPositions, Gap

\* commit publishes exactly the slot that was filled.
LEMMA CommitInvariant == IInv /\ Commit => IInv'
<1> SUFFICES ASSUME IInv, Commit PROVE IInv'
  OBVIOUS
<1> USE FixedRingAssumption
<1>1. UNCHANGED <<write_pos, read_pos, commit_seq, read_wake_seq, data, reserved_end, wread, rpc, rseen,
                abandoned>>
  BY DEF Commit, readerVars
<1>2. CASE ~pending
  <2>1. UNCHANGED <<commit_pos, pending, wpc, fill>>
    BY <1>2 DEF Commit
  <2>2. CommittedIntact'
    BY <1>1, <2>1, IntactUnchanged DEF IInv
  <2> QED
    BY <1>1, <2>1, <2>2 DEF IInv, TypeOK, OnSlotBoundary, FrontsOrdered, WriterBook,
      LoadedPositions, FilledSlot, Slot, Gap
<1>3. CASE pending
  <2> DEFINE s == write_pos - ItemSize
  <2>1. /\ commit_pos' = write_pos /\ pending' = FALSE /\ fill' = "none" /\ wpc' = "bump"
        /\ fill = "full"
    BY <1>3 DEF Commit, IInv, WriterBook
  <2>2. /\ commit_pos \in Nat /\ read_pos \in Nat /\ write_pos \in Nat
        /\ commit_pos <= write_pos /\ write_pos % ItemSize = 0
        /\ data[s % Capacity] = s
    <3>1. Slot = s % Capacity /\ reserved_end = write_pos
      BY <1>3, PendingSlot
    <3> QED BY <2>1, <3>1 DEF IInv, TypeOK, Positions, OnSlotBoundary, FrontsOrdered, FilledSlot
  <2>3. CommittedIntact'
    <3> SUFFICES ASSUME NEW p \in Unread', p \notin abandoned PROVE data[p % Capacity] = p
      BY <1>1 DEF CommittedIntact
    <3>1. p \in Nat /\ read_pos <= p /\ p < write_pos /\ p % ItemSize = 0
      BY <1>1, <2>1, <2>2 DEF Unread
    <3>2. CASE p < commit_pos
      BY <2>2, <3>1, <3>2 DEF IInv, CommittedIntact, Unread
    <3>3. CASE p >= commit_pos
      <4>1. p = s
        BY <1>3, <2>2, <3>1, <3>3, UnpublishedSlot
      <4> QED BY <2>2, <4>1
    <3> QED BY <2>2, <3>1, <3>2, <3>3
  <2>4. TypeOK' /\ OnSlotBoundary'
    BY <1>1, <2>1, <2>2, Zenon DEF IInv, TypeOK, OnSlotBoundary
  <2>5. FrontsOrdered' /\ LoadedPositions'
    BY <1>1, <2>1, <2>2 DEF IInv, FrontsOrdered, LoadedPositions, TypeOK, Positions
  <2>6. Gap' = {}
    BY <1>1, <2>1, <2>2 DEF Gap
  <2>7. WriterBook' /\ FilledSlot'
    BY <1>1, <2>1, <2>6 DEF WriterBook, FilledSlot
  <2> QED BY <2>3, <2>4, <2>5, <2>7 DEF IInv
<1> QED BY <1>2, <1>3

\* read_advance releases published slots only; nothing new becomes readable.
LEMMA AdvanceInvariant ==
  ASSUME IInv, NEW n \in 1 .. item_count, ReadAdvance(n)
  PROVE  IInv'
<1> USE FixedRingAssumption
<1>0. item_count \in Nat /\ n \in Nat
  BY DivMod DEF item_count
<1>1. read_pos \in Nat /\ commit_pos \in Nat /\ write_pos \in Nat /\ rseen \in Nat
      /\ rseen <= commit_pos /\ read_pos % ItemSize = 0
  BY DEF ReadAdvance, IInv, TypeOK, Positions, LoadedPositions, OnSlotBoundary
<1>2. (read_pos + n * ItemSize) % ItemSize = 0 /\ n * ItemSize \in Nat
  BY <1>0, <1>1, BoundaryAhead, Zenon
<1>3. /\ read_pos' = read_pos + n * ItemSize /\ read_pos' <= commit_pos
      /\ read_pos' \in Nat /\ read_pos <= read_pos' /\ rpc' = "bump"
      /\ UNCHANGED <<write_pos, commit_pos, commit_seq, read_wake_seq, data, rseen,
                     pending, reserved_end, wpc, wread, fill, abandoned>>
  BY <1>1, <1>2 DEF ReadAdvance, writerVars
<1>4. CommittedIntact'
  <2> SUFFICES ASSUME NEW p \in Unread' PROVE p \in Unread
    BY <1>3 DEF CommittedIntact, IInv
  <2> QED BY <1>1, <1>3 DEF Unread
<1>5. OnSlotBoundary' /\ TypeOK'
  BY <1>2, <1>3 DEF IInv, OnSlotBoundary, TypeOK, Positions
<1>6. FrontsOrdered' /\ LoadedPositions'
  BY <1>1, <1>3 DEF IInv, FrontsOrdered, LoadedPositions, TypeOK, Positions
<1> QED
  BY <1>3, <1>4, <1>5, <1>6 DEF IInv, WriterBook, FilledSlot, Slot, Gap

\* A writer that dies leaves at most the slot it had reserved.
LEMMA ReattachInvariant == IInv /\ WriterReattach => IInv'
<1> SUFFICES ASSUME IInv, WriterReattach PROVE IInv'
  OBVIOUS
<1> USE FixedRingAssumption
<1>1. /\ UNCHANGED <<write_pos, commit_pos, read_pos, commit_seq, read_wake_seq, data, wread,
                     rpc, rseen>>
      /\ pending' = FALSE /\ reserved_end' = 0 /\ wpc' = "idle" /\ fill' = "none"
      /\ abandoned \subseteq abandoned'
      /\ pending => reserved_end - ItemSize \in abandoned'
      /\ ~pending => abandoned' = abandoned
  BY DEF WriterReattach, sharedVars, readerVars
<1>2. write_pos \in Nat /\ commit_pos \in Nat /\ read_pos \in Nat
  BY DEF IInv, TypeOK, Positions
<1>3. TypeOK'
  <2>1. abandoned' \in SUBSET Nat
    BY PendingSlot DEF WriterReattach, IInv, TypeOK, Positions
  <2> QED BY <1>1, <2>1, Zenon DEF IInv, TypeOK, Positions
<1>4. CommittedIntact'
  BY <1>1 DEF IInv, CommittedIntact, Unread
<1>5. Gap' \subseteq abandoned'
  <2> SUFFICES ASSUME NEW p \in Gap' PROVE p \in abandoned'
    OBVIOUS
  <2>1. p \in Nat /\ commit_pos <= p /\ p < write_pos /\ p % ItemSize = 0
    BY <1>1, <1>2 DEF Gap
  <2>2. CASE pending
    BY <1>1, <2>1, <2>2, UnpublishedSlot, PendingSlot
  <2>3. CASE ~pending
    BY <1>1, <1>2, <2>1, <2>3 DEF IInv, WriterBook, Gap
  <2> QED BY <2>2, <2>3
<1> QED
  BY <1>1, <1>3, <1>4, <1>5
  DEF IInv, OnSlotBoundary, FrontsOrdered, WriterBook, LoadedPositions, FilledSlot

\* The remaining steps leave the fronts and the memory alone.
LEMMA OtherStepsInvariant ==
  ASSUME IInv,
         \/ TryReserve \/ CommitBump \/ CommitNotify
         \/ TryRead \/ AdvanceBump \/ AdvanceNotify \/ ReaderReattach
         \/ WaiterFlag \/ UNCHANGED vars
  PROVE  IInv'
<1> USE FixedRingAssumption
<1>1. /\ UNCHANGED <<write_pos, commit_pos, read_pos, data, pending, fill, abandoned>>
      /\ pending => UNCHANGED <<reserved_end, wpc>>
  BY DEF TryReserve, CommitBump, CommitNotify, TryRead, AdvanceBump,
    AdvanceNotify, ReaderReattach, WaiterFlag, vars, sharedVars, writerVars, readerVars,
    IInv, WriterBook, TypeOK
<1>2. CommittedIntact'
  BY <1>1, IntactUnchanged DEF IInv
<1>3. TypeOK'
  BY <1>1, WordsClosed
  DEF TryReserve, CommitBump, CommitNotify, TryRead, AdvanceBump,
    AdvanceNotify, ReaderReattach, WaiterFlag, vars, sharedVars, writerVars, readerVars,
    IInv, TypeOK, Positions
<1>4. LoadedPositions'
  BY <1>1, SMTT(30) DEF TryReserve, CommitBump, CommitNotify, TryRead, AdvanceBump,
    AdvanceNotify, ReaderReattach, WaiterFlag, vars, sharedVars, writerVars, readerVars,
    IInv, TypeOK, Positions, LoadedPositions, FrontsOrdered, OnSlotBoundary
<1>5. WriterBook' /\ FilledSlot' /\ OnSlotBoundary' /\ FrontsOrdered'
  BY <1>1 DEF IInv, WriterBook, FilledSlot, OnSlotBoundary, FrontsOrdered, Slot, Gap
<1> QED BY <1>2, <1>3, <1>4, <1>5 DEF IInv

\* The invariant is inductive, crashes included.
LEMMA NextInvariant == IInv /\ [Next]_vars => IInv'
<1> SUFFICES ASSUME IInv, [Next]_vars PROVE IInv'
  OBVIOUS
<1>1. CASE ReserveSlot
  BY <1>1, ReserveInvariant
<1>2. CASE BeginCopy \/ EndCopy
  BY <1>2, CopyInvariant
<1>3. CASE Commit
  BY <1>3, CommitInvariant
<1>4. CASE \E n \in 1 .. item_count : ReadAdvance(n)
  BY <1>4, AdvanceInvariant
<1>5. CASE \/ TryReserve \/ CommitBump \/ CommitNotify
           \/ TryRead \/ AdvanceBump \/ AdvanceNotify \/ ReaderReattach
           \/ WaiterFlag \/ UNCHANGED vars
  BY <1>5, OtherStepsInvariant
<1>6. CASE WriterReattach
  BY <1>6, ReattachInvariant
<1> QED
  BY <1>1, <1>2, <1>3, <1>4, <1>5, <1>6 DEF Next, WriterNext, ReaderNext

\* Every reachable state satisfies the inductive invariant.
THEOREM InvariantHolds ==
  Spec => []IInv
<1>1. IInv /\ [Next]_vars => IInv'
  BY NextInvariant
<1> QED BY <1>1, InitInvariant, PTL DEF Spec

\* try_reserve, commit, try_read and read_advance keep every variable in its
\* type.
THEOREM TypeCorrect ==
  Spec => []TypeOK
<1>1. IInv => TypeOK
  BY DEF IInv
<1> QED BY <1>1, InvariantHolds, PTL

\* The producer never laps the consumer and the consumer never overtakes the
\* producer, for every capacity and item size.
THEOREM FrontsStayOrdered ==
  Spec => []FrontsOrdered
<1>1. IInv => FrontsOrdered
  BY DEF IInv
<1> QED BY <1>1, InvariantHolds, PTL

\* What the consumer may look at is complete and current, for every capacity
\* and item size: never half copied, never of another lap.
THEOREM PublishedStaysIntact ==
  Spec => []CommittedIntact
<1>1. IInv => CommittedIntact
  BY DEF IInv
<1> QED BY <1>1, InvariantHolds, PTL

\* The fronts never move back and commit_pos passes over nothing but abandoned
\* slots, for every capacity and item size, however reserve and commit are
\* called and wherever a writer dies.
THEOREM FrontsNeverMoveBack ==
  Spec => FrontsOnlyAdvance
<1> DEFINE Forward == /\ write_pos' >= write_pos
                      /\ read_pos' >= read_pos
                      /\ commit_pos' \in {commit_pos, write_pos}
                      /\ \A p \in commit_pos .. (commit_pos' - ItemSize - 1) :
                           p % ItemSize = 0 => p \in abandoned
<1>1. ASSUME IInv, [Next]_vars PROVE [Forward]_vars
  <2> USE FixedRingAssumption
  <2>0. write_pos \in Nat /\ read_pos \in Nat /\ commit_pos \in Nat
    BY <1>1 DEF IInv, TypeOK, Positions
  <2>1. CASE ReserveSlot
    BY <2>0, <2>1 DEF ReserveSlot
  <2>2. CASE Commit
    <3>1. UNCHANGED <<write_pos, read_pos>>
      BY <2>2 DEF Commit
    <3>2. CASE ~pending
      BY <2>0, <2>2, <3>1, <3>2 DEF Commit
    <3>3. CASE pending
      <4>1. commit_pos' = write_pos
        BY <1>1, <2>2, <3>3 DEF Commit, IInv, WriterBook
      <4>2. ASSUME NEW p \in commit_pos .. (commit_pos' - ItemSize - 1), p % ItemSize = 0
            PROVE  p \in abandoned
        BY <1>1, <2>0, <3>3, <4>1, <4>2 DEF IInv, WriterBook, Gap
      <4> QED BY <2>0, <3>1, <4>1, <4>2
    <3> QED BY <3>2, <3>3
  <2>3. ASSUME NEW n \in 1 .. item_count, ReadAdvance(n) PROVE Forward
    <3>0. item_count \in Nat /\ n \in Nat
      BY DivMod DEF item_count
    <3>1. n * ItemSize \in Nat
      BY <3>0
    <3> QED BY <2>0, <2>3, <3>1 DEF ReadAdvance
  <2>4. CASE \/ TryReserve \/ BeginCopy \/ EndCopy \/ CommitBump \/ CommitNotify
             \/ WriterReattach \/ TryRead \/ AdvanceBump \/ AdvanceNotify
             \/ ReaderReattach \/ WaiterFlag \/ UNCHANGED vars
    <3>1. UNCHANGED <<write_pos, commit_pos, read_pos>>
      BY <2>4 DEF TryReserve, BeginCopy, EndCopy, CommitBump, CommitNotify, WriterReattach,
        TryRead, AdvanceBump, AdvanceNotify, ReaderReattach, WaiterFlag, vars, sharedVars
    <3> QED BY <2>0, <3>1
  <2> QED
    BY <1>1, <2>1, <2>2, <2>3, <2>4 DEF Next, WriterNext, ReaderNext
<1> QED BY <1>1, InvariantHolds, PTL DEF Spec, FrontsOnlyAdvance

-----------------------------------------------------------------------------
(* The fixed ring implements BoundedFifo for every geometry, as long as no
   writer dies over a reserved slot.  The queue the memory spells out is the
   run of numbers from Released to Sent: this is where the invariant is needed.
   What is left are steps of two counters. *)

\* Slots released and published so far.
Released == read_pos \div ItemSize
Sent == commit_pos \div ItemSize

\* The queue between them: Numbers(r, s) is r, r + 1, ..., s - 1.
Numbers(r, s) == [i \in 1 .. (s - r) |-> r + i - 1]

-----------------------------------------------------------------------------
\* Dividing a multiple.
LEMMA DivMultiple ==
  ASSUME NEW n \in Nat \ {0}, NEW p \in Nat, p % n = 0
  PROVE  p \div n \in Nat /\ p = n * (p \div n)
  BY DivMod

\* The quotient is the only factor.
LEMMA FactorUnique ==
  ASSUME NEW n \in Nat \ {0}, NEW p \in Nat, p % n = 0, NEW k \in Nat, p = n * k
  PROVE  p \div n = k
<1> DEFINE q == p \div n
<1>1. q \in Nat /\ p = n * q
  BY DivMultiple
<1> HIDE DEF q
<1>2. n * q = n * k
  BY <1>1
<1>3. q = k
  <2>1. n * (q - k) = 0
    BY <1>1, <1>2
  <2>2. CASE q - k >= 1
    <3>1. n * (q - k) >= n
      BY <1>1, <2>2
    <3> QED BY <2>1, <3>1
  <2>3. CASE q - k <= -1
    <3>1. n * (q - k) <= -n
      BY <1>1, <2>3
    <3> QED BY <2>1, <3>1
  <2> QED BY <1>1, <2>2, <2>3
<1> QED BY <1>3 DEF q

\* Multiples of the same number are ordered as their factors.
LEMMA FactorOrder ==
  ASSUME NEW n \in Nat \ {0}, NEW a \in Nat, NEW b \in Nat
  PROVE  n * a <= n * b => a <= b
<1> SUFFICES ASSUME n * a <= n * b, a >= b + 1 PROVE FALSE
  OBVIOUS
<1>1. n * (a - b) >= n
  OBVIOUS
<1>2. n * (a - b) = n * a - n * b
  OBVIOUS
<1> QED BY <1>1, <1>2

\* A product grows with its factor.
LEMMA FactorMono ==
  ASSUME NEW n \in Nat \ {0}, NEW a \in Nat, NEW b \in Nat
  PROVE  /\ n * a \in Nat
         /\ a <= b => n * a <= n * b
         /\ a < b => n * a < n * b
<1>1. n * a \in Nat
  OBVIOUS
<1>2. ASSUME a <= b PROVE n * a <= n * b
  <2>1. n * (b - a) >= 0 /\ n * (b - a) = n * b - n * a
    BY <1>2
  <2> QED BY <2>1
<1>3. ASSUME a < b PROVE n * a < n * b
  <2>1. n * (b - a) >= n /\ n * (b - a) = n * b - n * a
    BY <1>3
  <2> QED BY <2>1
<1> QED BY <1>1, <1>2, <1>3

\* The two counters, and the fronts in terms of them.
Counted ==
  /\ Released \in Nat /\ Sent \in Nat /\ Released <= Sent
  /\ read_pos = ItemSize * Released /\ commit_pos = ItemSize * Sent
  /\ item_count \in Nat /\ Capacity = ItemSize * item_count

\* The fronts are multiples of the two counters.
LEMMA Counters == IInv => Counted
<1> SUFFICES ASSUME IInv PROVE Counted
  OBVIOUS
<1>0. ItemSize \in Nat \ {0} /\ Capacity \in Nat /\ Capacity % ItemSize = 0
  BY FixedRingAssumption
<1>1. /\ read_pos \in Nat /\ commit_pos \in Nat /\ read_pos <= commit_pos
      /\ read_pos % ItemSize = 0 /\ commit_pos % ItemSize = 0
  BY DEF IInv, TypeOK, Positions, OnSlotBoundary, FrontsOrdered
<1>2. Released \in Nat /\ read_pos = ItemSize * Released
  BY <1>0, <1>1, DivMultiple DEF Released
<1>3. Sent \in Nat /\ commit_pos = ItemSize * Sent
  BY <1>0, <1>1, DivMultiple DEF Sent
<1>4. item_count \in Nat /\ Capacity = ItemSize * item_count
  BY <1>0, DivMultiple DEF item_count
<1>5. Released <= Sent
  BY <1>0, <1>1, <1>2, <1>3, FactorOrder
<1> QED BY <1>2, <1>3, <1>4, <1>5 DEF Counted

\* The memory holds message k at the k-th slot, for every k in the queue.
LEMMA MessageInPlace ==
  ASSUME IInv, NothingAbandoned, NEW k \in Nat, Released <= k, k < Sent
  PROVE  MessageAt(ItemSize * k) = k
<1> DEFINE p == ItemSize * k
<1>0. ItemSize \in Nat \ {0} /\ Junk \notin Nat
  BY FixedRingAssumption
<1>1. /\ Released \in Nat /\ Sent \in Nat
      /\ read_pos = ItemSize * Released /\ commit_pos = ItemSize * Sent
  BY Counters DEF Counted
<1>2. p \in Nat /\ read_pos <= p /\ p < commit_pos
  BY <1>0, <1>1, FactorMono
<1>3. p % ItemSize = 0
  <2>1. (k * ItemSize) % ItemSize = 0
    BY <1>0, ModMultiple
  <2>2. k * ItemSize = ItemSize * k
    BY <1>0
  <2> QED BY <2>1, <2>2
<1>4. p \div ItemSize = k
  BY <1>0, <1>2, <1>3, FactorUnique
<1> HIDE DEF p
<1>5. p \in Unread
  BY <1>2, <1>3 DEF Unread, IInv, TypeOK, Positions
<1>6. data[p % Capacity] = p
  BY <1>5 DEF IInv, CommittedIntact, NothingAbandoned
<1>7. MessageAt(p) = k
  BY <1>0, <1>2, <1>4, <1>6 DEF MessageAt
<1> QED BY <1>7 DEF p

\* The queue, sent and view of the refinement mapping.
MappedQueue == [i \in 1 .. ((commit_pos - read_pos) \div ItemSize)
                  |-> MessageAt(read_pos + (i - 1) * ItemSize)]
MappedView == IF rpc = "view" THEN MessageAt(read_pos) ELSE Junk

\* What they are when the invariant holds.
Mapped ==
  /\ MappedQueue = Numbers(Released, Sent)
  /\ MappedView = IF rpc = "view" THEN Released ELSE Junk
  /\ rpc = "view" => Released < Sent

\* The memory spells out the messages from Released to Sent.
LEMMA MappedState == IInv /\ NothingAbandoned => Mapped
<1> SUFFICES ASSUME IInv, NothingAbandoned PROVE Mapped
  OBVIOUS
<1> DEFINE r == Released  s == Sent
<1>0. ItemSize \in Nat \ {0}
  BY FixedRingAssumption
<1>1. /\ r \in Nat /\ s \in Nat /\ r <= s
      /\ read_pos = ItemSize * r /\ commit_pos = ItemSize * s
  BY Counters DEF Counted
<1>2. ASSUME NEW k \in Nat, r <= k, k < s PROVE MessageAt(ItemSize * k) = k
  BY <1>2, MessageInPlace
<1> HIDE DEF r, s
<1>3. (commit_pos - read_pos) \div ItemSize = s - r
  <2> DEFINE d == commit_pos - read_pos  k == s - r
  <2>1. k \in Nat /\ d = ItemSize * k
    BY <1>0, <1>1
  <2>2. d \in Nat
    BY <1>0, <2>1, FactorMono
  <2>3. (k * ItemSize) % ItemSize = 0 /\ k * ItemSize = ItemSize * k
    <3> HIDE DEF k
    <3> QED BY <1>0, <2>1, ModMultiple
  <2> HIDE DEF d, k
  <2>4. d \div ItemSize = k
    BY <1>0, <2>1, <2>2, <2>3, FactorUnique
  <2> QED BY <2>4 DEF d, k
<1>4. ASSUME NEW i \in 1 .. (s - r) PROVE MessageAt(read_pos + (i - 1) * ItemSize) = r + i - 1
  <2> DEFINE k == r + i - 1
  <2>1. k \in Nat /\ r <= k /\ k < s
    BY <1>1
  <2>2. read_pos + (i - 1) * ItemSize = ItemSize * k
    BY <1>0, <1>1
  <2> QED BY <1>2, <2>1, <2>2
<1>5. MappedQueue = Numbers(r, s)
  BY <1>3, <1>4 DEF MappedQueue, Numbers
<1>6. ASSUME rpc = "view" PROVE r < s
  <2>1. read_pos < commit_pos
    BY <1>1, <1>6 DEF IInv, LoadedPositions, TypeOK, Positions
  <2>2. r # s
    BY <1>0, <1>1, <2>1
  <2> QED BY <1>1, <2>2
<1>7. rpc = "view" => MessageAt(read_pos) = r
  BY <1>1, <1>2, <1>6
<1> QED BY <1>5, <1>6, <1>7 DEF Mapped, MappedView, r, s

-----------------------------------------------------------------------------
\* The queue as a sequence: its length, head, and what the operations of
\* BoundedFifo make of it.
LEMMA NumbersSeq ==
  ASSUME NEW r \in Nat, NEW s \in Nat, r <= s
  PROVE  Numbers(r, s) \in Seq(Nat) /\ Len(Numbers(r, s)) = s - r
<1>1. s - r \in Nat /\ \A i \in 1 .. (s - r) : r + i - 1 \in Nat
  OBVIOUS
<1> QED BY <1>1 DEF Numbers

\* The oldest message is the first not yet released.
LEMMA NumbersHead ==
  ASSUME NEW r \in Nat, NEW s \in Nat, r < s
  PROVE  Numbers(r, s) # <<>> /\ Head(Numbers(r, s)) = r
<1>1. Numbers(r, s) \in Seq(Nat) /\ Len(Numbers(r, s)) = s - r
  BY NumbersSeq
<1>2. Numbers(r, s)[1] = r
  BY DEF Numbers
<1> QED BY <1>1, <1>2

\* Sending appends the next number.
LEMMA NumbersAppend ==
  ASSUME NEW r \in Nat, NEW s \in Nat, r <= s
  PROVE  Append(Numbers(r, s), s) = Numbers(r, s + 1)
<1> DEFINE q == Numbers(r, s)  t == Numbers(r, s + 1)
<1>1. q \in Seq(Nat) /\ Len(q) = s - r /\ t \in Seq(Nat) /\ Len(t) = s + 1 - r
  <2>1. q \in Seq(Nat) /\ Len(q) = s - r
    BY NumbersSeq
  <2> DEFINE z == s + 1
  <2>2. z \in Nat /\ r <= z
    OBVIOUS
  <2>3. t = Numbers(r, z)
    OBVIOUS
  <2> HIDE DEF z, q, t
  <2>4. t \in Seq(Nat) /\ Len(t) = z - r
    BY <2>2, <2>3, NumbersSeq, Zenon
  <2> QED BY <2>1, <2>4 DEF z
<1>2. \A i \in 1 .. (s - r) : q[i] = t[i]
  BY DEF Numbers
<1>3. t[s + 1 - r] = s
  BY DEF Numbers
<1> HIDE DEF q, t
<1>4. Append(q, s) \in Seq(Nat) /\ Len(Append(q, s)) = s + 1 - r
  BY <1>1, SMTT(30)
<1>5. \A i \in 1 .. (s + 1 - r) : Append(q, s)[i] = t[i]
  BY <1>1, <1>2, <1>3
<1>6. Append(q, s) = t
  BY <1>1, <1>4, <1>5, SeqEqual, SMTT(30)
<1> QED BY <1>6 DEF q, t

\* Releasing n messages drops the first n.
LEMMA NumbersRest ==
  ASSUME NEW r \in Nat, NEW s \in Nat, r <= s, NEW n \in 1 .. (s - r)
  PROVE  SubSeq(Numbers(r, s), n + 1, s - r) = Numbers(r + n, s)
<1> DEFINE q == Numbers(r, s)  t == Numbers(r + n, s)
<1>1. q \in Seq(Nat) /\ Len(q) = s - r /\ t \in Seq(Nat) /\ Len(t) = s - r - n
  <2>1. q \in Seq(Nat) /\ Len(q) = s - r
    BY NumbersSeq
  <2> DEFINE z == r + n
  <2>2. z \in Nat /\ z <= s
    OBVIOUS
  <2>3. t = Numbers(z, s)
    OBVIOUS
  <2> HIDE DEF z, q, t
  <2>4. t \in Seq(Nat) /\ Len(t) = s - z
    BY <2>2, <2>3, NumbersSeq, Zenon
  <2> QED BY <2>1, <2>4 DEF z
<1>2. \A i \in 1 .. (s - r - n) : q[n + i] = t[i]
  BY DEF Numbers
<1> HIDE DEF q, t
<1> DEFINE u == SubSeq(q, n + 1, s - r)
<1>3. u \in Seq(Nat) /\ Len(u) = s - r - n
  BY <1>1
<1>4. \A i \in 1 .. (s - r - n) : u[i] = q[n + i]
  BY <1>1
<1> HIDE DEF u
<1>5. u = t
  BY <1>1, <1>2, <1>3, <1>4, SeqEqual
<1> QED BY <1>5 DEF q, t, u

-----------------------------------------------------------------------------
\* A product determines its factor.
LEMMA FactorEqual ==
  ASSUME NEW n \in Nat \ {0}, NEW a \in Nat, NEW b \in Nat, n * a = n * b
  PROVE  a = b
<1>1. n * a \in Nat /\ n * a <= n * b /\ n * b <= n * a
  BY FactorMono
<1> QED BY <1>1, FactorOrder

\* commit publishes one more message, and there was room for it.
LEMMA CommitCounts ==
  ASSUME IInv, NothingAbandoned, Counted, Counted', Commit, pending
  PROVE  /\ Sent' = Sent + 1 /\ Released' = Released /\ rpc' = rpc
         /\ Sent - Released < item_count
<1>0. ItemSize \in Nat \ {0}
  BY FixedRingAssumption
<1>1. commit_pos' = write_pos /\ read_pos' = read_pos /\ rpc' = rpc
  BY DEF Commit, IInv, WriterBook, readerVars
<1>2. /\ write_pos \in Nat /\ commit_pos \in Nat /\ read_pos \in Nat
      /\ commit_pos + ItemSize <= write_pos /\ write_pos <= read_pos + Capacity
      /\ commit_pos % ItemSize = 0
  BY DEF IInv, TypeOK, Positions, WriterBook, FrontsOrdered, OnSlotBoundary
<1>3. commit_pos + ItemSize = write_pos
  <2> SUFFICES ASSUME commit_pos + ItemSize < write_pos PROVE FALSE
    BY <1>0, <1>2
  <2>1. commit_pos \in Gap
    BY <1>0, <1>2 DEF Gap
  <2> QED BY <2>1 DEF IInv, WriterBook, NothingAbandoned
<1> DEFINE r == Released  s == Sent  t == Sent'  c == item_count
<1>4. /\ r \in Nat /\ s \in Nat /\ t \in Nat /\ c \in Nat
      /\ read_pos = ItemSize * r /\ commit_pos = ItemSize * s /\ commit_pos' = ItemSize * t
      /\ Capacity = ItemSize * c
  BY DEF Counted
<1>5. Released' = Released
  BY <1>1 DEF Released
<1> HIDE DEF r, s, t, c
<1> DEFINE a == s + 1  b == r + c
<1>6. a \in Nat /\ b \in Nat /\ ItemSize * a = ItemSize * s + ItemSize
      /\ ItemSize * b = ItemSize * r + ItemSize * c
  BY <1>0, <1>4
<1> HIDE DEF a, b
<1>7. t = a
  BY <1>0, <1>1, <1>3, <1>4, <1>6, FactorEqual
<1>8. a <= b
  <2>1. ItemSize * a <= ItemSize * b
    BY <1>2, <1>3, <1>4, <1>6
  <2> QED BY <1>0, <1>6, <2>1, FactorOrder
<1>9. Sent' = Sent + 1 /\ Sent - Released < item_count
  BY <1>4, <1>7, <1>8 DEF r, s, t, c, a, b
<1> QED BY <1>1, <1>5, <1>9

\* read_advance(n) releases n messages.
LEMMA AdvanceCounts ==
  ASSUME IInv, Counted, Counted', NEW n \in 1 .. item_count, ReadAdvance(n)
  PROVE  Released' = Released + n /\ Sent' = Sent /\ n <= Sent - Released
<1>0. ItemSize \in Nat \ {0}
  BY FixedRingAssumption
<1>1. /\ commit_pos' = commit_pos /\ read_pos' = read_pos + n * ItemSize
      /\ read_pos' <= commit_pos
  <2>1. rseen \in Nat /\ commit_pos \in Nat /\ rseen <= commit_pos
    BY DEF ReadAdvance, IInv, TypeOK, Positions, LoadedPositions
  <2>2. read_pos + n * ItemSize \in Nat
    BY <1>0 DEF Counted, IInv, TypeOK, Positions
  <2> QED BY <2>1, <2>2 DEF ReadAdvance
<1> DEFINE r == Released  s == Sent  t == Released'
<1>2. /\ r \in Nat /\ s \in Nat /\ t \in Nat /\ item_count \in Nat
      /\ read_pos = ItemSize * r /\ commit_pos = ItemSize * s /\ read_pos' = ItemSize * t
  BY DEF Counted
<1>3. Sent' = Sent
  BY <1>1 DEF Sent
<1> HIDE DEF r, s, t
<1> DEFINE a == r + n
<1>4. a \in Nat /\ ItemSize * a = ItemSize * r + n * ItemSize
  BY <1>0, <1>2
<1> HIDE DEF a
<1>5. t = a
  BY <1>0, <1>1, <1>2, <1>4, FactorEqual
<1>6. t <= s
  BY <1>0, <1>1, <1>2, FactorOrder
<1> QED BY <1>2, <1>3, <1>5, <1>6 DEF r, s, t, a

\* The steps of the ring as steps of the two counters and of the reader's view.
Stutters  == Released' = Released /\ Sent' = Sent /\ (rpc = "view" <=> rpc' = "view")
Looks     == Released' = Released /\ Sent' = Sent /\ rpc' = "view"
LooksAway == Released' = Released /\ Sent' = Sent /\ rpc' # "view"
Publishes == /\ Released' = Released /\ Sent' = Sent + 1 /\ rpc' = rpc
             /\ Sent - Released < item_count
Releases(n) == /\ Released' = Released + n /\ Sent' = Sent /\ n <= Sent - Released
               /\ rpc = "view" /\ rpc' # "view"

\* Every step of the ring is one of these.
LEMMA StepShape ==
  ASSUME IInv, NothingAbandoned, Counted, Counted', [Next]_vars
  PROVE  Stutters \/ Looks \/ LooksAway \/ Publishes \/ \E n \in 1 .. item_count : Releases(n)
<1>1. CASE Commit
  <2>1. CASE pending
    BY <1>1, <2>1, CommitCounts DEF Publishes
  <2>2. CASE ~pending
    BY <1>1, <2>2 DEF Commit, Stutters, Released, Sent, readerVars
  <2> QED BY <2>1, <2>2
<1>2. ASSUME NEW n \in 1 .. item_count, ReadAdvance(n) PROVE Releases(n)
  <2>1. rpc = "view" /\ rpc' = "bump"
    BY <1>2 DEF ReadAdvance
  <2> QED BY <1>2, <2>1, AdvanceCounts DEF Releases
<1>3. CASE TryRead
  <2>1. UNCHANGED <<commit_pos, read_pos>> /\ (rpc' = rpc \/ rpc' = "view")
    BY <1>3 DEF TryRead, sharedVars
  <2> QED BY <2>1 DEF Looks, Stutters, Released, Sent
<1>4. CASE ReaderReattach
  BY <1>4 DEF ReaderReattach, sharedVars, LooksAway, Released, Sent
<1>5. CASE AdvanceBump \/ AdvanceNotify
  <2>1. UNCHANGED <<commit_pos, read_pos>> /\ rpc' # "view"
    BY <1>5 DEF AdvanceBump, AdvanceNotify, sharedVars
  <2> QED BY <2>1 DEF LooksAway, Released, Sent
<1>6. CASE \/ TryReserve \/ ReserveSlot \/ BeginCopy \/ EndCopy \/ CommitBump \/ CommitNotify
           \/ WriterReattach \/ WaiterFlag \/ UNCHANGED vars
  <2>1. UNCHANGED <<commit_pos, read_pos, rpc>>
    BY <1>6 DEF TryReserve, ReserveSlot, BeginCopy, EndCopy, CommitBump, CommitNotify,
      WriterReattach, WaiterFlag, vars, sharedVars, readerVars
  <2> QED BY <2>1 DEF Stutters, Released, Sent
<1> QED
  BY <1>1, <1>2, <1>3, <1>4, <1>5, <1>6 DEF Next, WriterNext, ReaderNext

\* Each of them is a step of the FIFO queue, or none.
LEMMA StepSimulated ==
  ASSUME IInv, NothingAbandoned, Counted, Counted', Mapped, Mapped', [Next]_vars
  PROVE  [Fifo!Next]_(Fifo!fifoVars)
<1> DEFINE r == Released  s == Sent  q == Numbers(Released, Sent)
<1>0. r \in Nat /\ s \in Nat /\ r <= s /\ item_count \in Nat /\ Junk \notin Nat
  BY FixedRingAssumption DEF Counted
<1>1. q \in Seq(Nat) /\ Len(q) = s - r
  BY <1>0, NumbersSeq
<1>2. /\ MappedQueue = q /\ MappedQueue' = Numbers(Released', Sent')
      /\ MappedView = (IF rpc = "view" THEN r ELSE Junk)
      /\ MappedView' = (IF rpc' = "view" THEN Released' ELSE Junk)
  BY DEF Mapped, Numbers
<1>3. CASE Stutters
  <2>1. MappedQueue' = MappedQueue /\ Sent' = Sent /\ MappedView' = MappedView
    BY <1>2, <1>3 DEF Stutters
  <2> QED BY <2>1 DEF Fifo!fifoVars, MappedQueue, MappedView, Sent
<1>4. CASE Looks
  <2>1. r < s
    BY <1>4 DEF Mapped, Looks
  <2>2. q # <<>> /\ Head(q) = r
    BY <1>0, <1>1, <2>1, NumbersHead
  <2>3. /\ MappedQueue # <<>> /\ MappedView' = Head(MappedQueue)
        /\ MappedQueue' = MappedQueue /\ Sent' = Sent
    BY <1>2, <1>4, <2>2 DEF Looks
  <2>4. Fifo!Look
    BY <2>3 DEF Fifo!Look, MappedQueue, MappedView, Sent
  <2> QED BY <2>4 DEF Fifo!Next
<1>5. CASE LooksAway
  <2>1. MappedView' = Junk /\ MappedQueue' = MappedQueue /\ Sent' = Sent
    BY <1>2, <1>5 DEF LooksAway
  <2>2. Fifo!LookAway
    BY <2>1 DEF Fifo!LookAway, MappedQueue, MappedView, Sent
  <2> QED BY <2>2 DEF Fifo!Next
<1>6. CASE Publishes
  <2>1. MappedQueue' = Append(q, s)
    BY <1>0, <1>2, <1>6, NumbersAppend, Zenon DEF Publishes
  <2>2. /\ Len(MappedQueue) < item_count /\ MappedQueue' = Append(MappedQueue, Sent)
        /\ Sent' = Sent + 1 /\ MappedView' = MappedView
    BY <1>1, <1>2, <1>6, <2>1 DEF Publishes
  <2>3. Fifo!Publish
    BY <2>2, Zenon DEF Fifo!Publish, MappedQueue, MappedView, Sent
  <2> QED BY <2>3 DEF Fifo!Next
<1>7. ASSUME NEW n \in 1 .. item_count, Releases(n) PROVE Fifo!Next
  <2>1. n \in Nat /\ n <= s - r
    BY <1>0, <1>7 DEF Releases
  <2>2. MappedQueue' = SubSeq(q, n + 1, s - r)
    BY <1>0, <1>2, <1>7, <2>1, NumbersRest DEF Releases
  <2>3. /\ MappedView # Junk /\ n <= Len(MappedQueue)
        /\ MappedQueue' = SubSeq(MappedQueue, n + 1, Len(MappedQueue))
        /\ MappedView' = Junk /\ Sent' = Sent
    BY <1>0, <1>1, <1>2, <1>7, <2>1, <2>2 DEF Releases
  <2>4. Fifo!Release(n)
    BY <2>3, Zenon DEF Fifo!Release, MappedQueue, MappedView, Sent
  <2> QED BY <2>4 DEF Fifo!Next
<1> QED
  BY <1>3, <1>4, <1>5, <1>6, <1>7, StepShape

\* As long as no writer dies over a slot it has reserved, what try_read and
\* read_advance see of try_reserve and commit is a FIFO queue of item_count
\* messages, for every capacity and item size: the memory spells out the
\* messages in order, complete, none lost, none twice.
THEOREM RingIsFifo ==
  Spec /\ []NothingAbandoned => ImplementsFifo
<1>1. Init => Fifo!Init
  <2> SUFFICES ASSUME Init PROVE Fifo!Init
    OBVIOUS
  <2>1. 0 \div ItemSize = 0 /\ 0 - 0 = 0
    BY FixedRingAssumption
  <2>2. commit_pos = 0 /\ read_pos = 0 /\ rpc = "idle"
    BY DEF Init
  <2>3. 1 .. ((commit_pos - read_pos) \div ItemSize) = {}
    BY <2>1, <2>2
  <2>4. MappedQueue = <<>>
    BY <2>3 DEF MappedQueue
  <2>5. Sent = 0 /\ MappedView = Junk
    BY <2>1, <2>2 DEF Sent, MappedView
  <2> QED BY <2>4, <2>5 DEF Fifo!Init, MappedQueue, MappedView, Sent
<1>2. /\ IInv /\ NothingAbandoned /\ Counted /\ Counted' /\ Mapped /\ Mapped'
      /\ [Next]_vars
      => [Fifo!Next]_(Fifo!fifoVars)
  BY StepSimulated
<1> QED
  BY <1>1, <1>2, InvariantHolds, Counters, MappedState, PTL
  DEF Spec, ImplementsFifo, Fifo!Spec

=============================================================================

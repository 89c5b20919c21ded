------------------------------ MODULE FixedRing ------------------------------
(***************************************************************************)
(* The fixed-size ring: one fixed_writer and one fixed_reader over a       *)
(* shared control block and data region.                                   *)
(*                                                                         *)
(* Positions are the byte offsets the code keeps; slot indexes are taken   *)
(* modulo the capacity as the code does.  A message is identified by the   *)
(* position it was reserved at, so data[i] = p says "the bytes at index i  *)
(* are the complete message of position p", and Junk stands for bytes that *)
(* are half copied or were never written.  Every access to a shared word   *)
(* that the other side may race with is a step of its own.                 *)
(***************************************************************************)
EXTENDS NotifyBits

CONSTANTS Capacity,   \* data_capacity
          ItemSize,   \* fixed_item_size
          MaxPos,     \* bound: no reservation starts at or beyond this offset
          Junk

ASSUME FixedRingAssumption ==
  /\ ItemSize \in Nat \ {0}
  /\ Capacity \in Nat \ {0}
  /\ Capacity % ItemSize = 0      \* is_valid_fixed_ring
  /\ MaxPos \in Nat
  /\ Junk \notin Nat

VARIABLES write_pos, commit_pos, read_pos,  \* the three fronts of meta
          commit_seq, read_wake_seq,        \* the two notify words
          data,                             \* the data region
          pending, reserved_end,            \* fixed_writer members
          wpc,      \* where the writer's call stands
          wread,    \* read_pos as try_reserve loaded it
          fill,     \* how much of the reserved slot the client has written
          rpc,      \* where the reader's call stands
          rseen,    \* commit_pos as try_read loaded it
          abandoned \* slots whose writer went away before commit (not in the code)

sharedVars == <<write_pos, commit_pos, read_pos, commit_seq, read_wake_seq, data>>
writerVars == <<pending, reserved_end, wpc, wread, fill, abandoned>>
readerVars == <<rpc, rseen>>
vars == <<sharedVars, writerVars, readerVars>>

item_count == Capacity \div ItemSize

\* data_ + write_index, the pointer try_reserve handed out last.
Slot == (reserved_end - ItemSize) % Capacity

\* init_control_block, then a writer and a reader constructed over the block.
\* The data region is whatever the memory held.
Init ==
  /\ write_pos = 0 /\ commit_pos = 0 /\ read_pos = 0
  /\ commit_seq = 0 /\ read_wake_seq = 0
  /\ data = [i \in 0 .. (Capacity - 1) |-> Junk]
  /\ pending = FALSE /\ reserved_end = 0
  /\ wpc = "idle" /\ wread = 0 /\ fill = "none"
  /\ rpc = "idle" /\ rseen = 0 /\ abandoned = {}

-----------------------------------------------------------------------------
(* fixed_writer *)

\* Mutants of this section.  No pending_ guard in try_reserve:
TryReserveTwice ==
  /\ wpc = "idle" /\ fill # "partial"
  /\ write_pos < MaxPos
  /\ wread' = read_pos
  /\ wpc' = "reserve"
  /\ UNCHANGED <<sharedVars, pending, reserved_end, fill, readerVars, abandoned>>
\* full only beyond a whole lap:
FullTooLate == write_pos > wread + Capacity
\* no pending_ guard in commit:
CommitUnguarded ==
  /\ wpc = "idle" /\ fill \in {"none", "full"}
  /\ commit_pos' = reserved_end
  /\ pending' = FALSE
  /\ fill' = "none"
  /\ wpc' = "bump"
  /\ UNCHANGED <<write_pos, read_pos, commit_seq, read_wake_seq, data,
                 reserved_end, wread, readerVars, abandoned>>
\* pending_ not reset by commit:
CommitStaysPending ==
  /\ wpc = "idle" /\ fill = "full" /\ pending
  /\ commit_pos' = reserved_end
  /\ fill' = "none"
  /\ wpc' = "bump"
  /\ UNCHANGED <<write_pos, read_pos, commit_seq, read_wake_seq, data, pending,
                 reserved_end, wread, readerVars, abandoned>>
\* the waiter flag not looked at:
CommitBumpSilent ==
  /\ wpc = "bump"
  /\ commit_seq' = bump_notify_word(commit_seq)
  /\ wpc' = "idle"
  /\ UNCHANGED <<write_pos, commit_pos, read_pos, read_wake_seq, data,
                 pending, reserved_end, wread, fill, readerVars, abandoned>>

\* try_reserve up to the load of read_pos.  A second reservation while one is
\* pending is refused and changes nothing.
TryReserve ==
  /\ wpc = "idle" /\ fill # "partial"
  /\ \/ /\ pending
        /\ UNCHANGED <<wpc, wread>>
     \/ /\ ~pending
        /\ write_pos < MaxPos
        /\ wread' = read_pos
        /\ wpc' = "reserve"
  /\ UNCHANGED <<sharedVars, pending, reserved_end, fill, readerVars, abandoned>>

\* The full test of try_reserve, on the write_pos of the writer and the
\* read_pos it loaded, which may be old by now.
RingFull == write_pos % Capacity = wread % Capacity /\ write_pos > wread

\* try_reserve from the full test on.
ReserveSlot ==
  /\ wpc = "reserve"
  /\ wpc' = "idle"
  /\ \/ /\ RingFull
        /\ UNCHANGED <<write_pos, reserved_end, pending, fill>>
     \/ /\ ~RingFull
        /\ reserved_end' = write_pos + ItemSize
        /\ write_pos' = write_pos + ItemSize
        /\ pending' = TRUE
        /\ fill' = "empty"
  /\ UNCHANGED <<commit_pos, read_pos, commit_seq, read_wake_seq, data, wread, readerVars, abandoned>>

\* The client copies its message into the slot: bytes change (BeginCopy)
\* before the message is complete (EndCopy).
BeginCopy ==
  /\ wpc = "idle" /\ fill = "empty"
  /\ data' = [data EXCEPT ![Slot] = Junk]
  /\ fill' = "partial"
  /\ UNCHANGED <<write_pos, commit_pos, read_pos, commit_seq, read_wake_seq,
                 pending, reserved_end, wpc, wread, readerVars, abandoned>>

EndCopy ==
  /\ wpc = "idle" /\ fill = "partial"
  /\ data' = [data EXCEPT ![Slot] = reserved_end - ItemSize]
  /\ fill' = "full"
  /\ UNCHANGED <<write_pos, commit_pos, read_pos, commit_seq, read_wake_seq,
                 pending, reserved_end, wpc, wread, readerVars, abandoned>>

\* commit up to the release store of commit_pos; a no-op without a pending
\* reservation.  The client commits a slot it has filled.
Commit ==
  /\ wpc = "idle" /\ fill \in {"none", "full"}
  /\ \/ /\ ~pending
        /\ UNCHANGED <<commit_pos, pending, wpc, fill>>
     \/ /\ pending
        /\ commit_pos' = reserved_end
        /\ pending' = FALSE
        /\ fill' = "none"
        /\ wpc' = "bump"
  /\ UNCHANGED <<write_pos, read_pos, commit_seq, read_wake_seq, data,
                 reserved_end, wread, readerVars, abandoned>>

CommitBump ==
  /\ wpc = "bump"
  /\ commit_seq' = bump_notify_word(commit_seq)
  /\ wpc' = IF HasWaiter(commit_seq) THEN "notify" ELSE "idle"
  /\ UNCHANGED <<write_pos, commit_pos, read_pos, read_wake_seq, data,
                 pending, reserved_end, wread, fill, readerVars, abandoned>>

\* atomic_notify_all(&commit_seq); whom it wakes is FixedChannel's business.
CommitNotify ==
  /\ wpc = "notify"
  /\ wpc' = "idle"
  /\ UNCHANGED <<sharedVars, pending, reserved_end, wread, fill, readerVars, abandoned>>

\* The writer goes away, also in the middle of a call (its process dies), and
\* a new one is constructed over the same block.  Only the objects are lost: a
\* slot reserved by then is never committed by its owner.
WriterReattach ==
  /\ abandoned' = IF pending THEN abandoned \cup {reserved_end - ItemSize} ELSE abandoned
  /\ pending' = FALSE /\ reserved_end' = 0
  /\ wpc' = "idle" /\ fill' = "none"
  /\ UNCHANGED <<sharedVars, wread, readerVars>>

-----------------------------------------------------------------------------
(* fixed_reader *)

\* Mutant: try_read chases the reservation front.
TryReadReserved ==
  /\ rpc \in {"idle", "view"}
  /\ \/ /\ write_pos <= read_pos
        /\ UNCHANGED <<rpc, rseen>>
     \/ /\ write_pos > read_pos
        /\ rpc' = "view"
        /\ rseen' = write_pos
  /\ UNCHANGED <<sharedVars, writerVars>>

\* try_read: the slot at read_pos is handed to the client when commit_pos is
\* ahead of it.  The client may call it again while it looks at the slot.
TryRead ==
  /\ rpc \in {"idle", "view"}
  /\ \/ /\ commit_pos <= read_pos
        /\ UNCHANGED <<rpc, rseen>>
     \/ /\ commit_pos > read_pos
        /\ rpc' = "view"
        /\ rseen' = commit_pos
  /\ UNCHANGED <<sharedVars, writerVars>>

\* read_advance(n) for slots the client knows to be published.
ReadAdvance(n) ==
  /\ rpc = "view"
  /\ read_pos + n * ItemSize <= rseen
  /\ read_pos' = read_pos + n * ItemSize
  /\ rpc' = "bump"
  /\ UNCHANGED <<write_pos, commit_pos, commit_seq, read_wake_seq, data, writerVars, rseen>>

AdvanceBump ==
  /\ rpc = "bump"
  /\ read_wake_seq' = bump_notify_word(read_wake_seq)
  /\ rpc' = IF HasWaiter(read_wake_seq) THEN "notify" ELSE "idle"
  /\ UNCHANGED <<write_pos, commit_pos, read_pos, commit_seq, data, writerVars, rseen>>

AdvanceNotify ==
  /\ rpc = "notify"
  /\ rpc' = "idle"
  /\ UNCHANGED <<sharedVars, writerVars, rseen>>

\* A reader keeps nothing of its own: a new one starts from read_pos, wherever
\* the old one was.
ReaderReattach ==
  /\ rpc' = "idle"
  /\ UNCHANGED <<sharedVars, writerVars, rseen>>

-----------------------------------------------------------------------------
\* Threads that wait on a notify word set and clear its waiter flag at any time
\* (wait_on_notify_word); NotifyWord says when, FixedChannel composes the two.
WaiterFlag ==
  /\ \/ /\ commit_seq' \in {SetWaiter(commit_seq), ClearWaiter(commit_seq)}
        /\ UNCHANGED read_wake_seq
     \/ /\ read_wake_seq' \in {SetWaiter(read_wake_seq), ClearWaiter(read_wake_seq)}
        /\ UNCHANGED commit_seq
  /\ UNCHANGED <<write_pos, commit_pos, read_pos, data, writerVars, readerVars>>

WriterNext == TryReserve \/ ReserveSlot \/ BeginCopy \/ EndCopy \/ Commit
              \/ CommitBump \/ CommitNotify \/ WriterReattach

ReaderNext == TryRead \/ (\E n \in 1 .. item_count : ReadAdvance(n))
              \/ AdvanceBump \/ AdvanceNotify \/ ReaderReattach

Next == WriterNext \/ ReaderNext \/ WaiterFlag

Spec == Init /\ [][Next]_vars

-----------------------------------------------------------------------------
Positions == Nat

\* Positions are natural numbers, notify words stay in their 32 bits, and each
\* index holds a message or junk.
TypeOK ==
  /\ write_pos \in Positions /\ commit_pos \in Positions /\ read_pos \in Positions
  /\ commit_seq \in NotifyWords /\ read_wake_seq \in NotifyWords
  /\ data \in [0 .. (Capacity - 1) -> Positions \cup {Junk}]
  /\ pending \in BOOLEAN /\ reserved_end \in Positions
  /\ wpc \in {"idle", "reserve", "bump", "notify"}
  /\ wread \in Positions
  /\ fill \in {"none", "empty", "partial", "full"}
  /\ rpc \in {"idle", "view", "bump", "notify"}
  /\ rseen \in Positions
  /\ abandoned \in SUBSET Positions

\* read_pos never overtakes commit_pos, commit_pos never overtakes write_pos,
\* and the producer never reserves more than one lap ahead of the consumer,
\* although its full test uses a read_pos loaded earlier and only compares
\* indexes (try_reserve, commit, read_advance).
FrontsOrdered ==
  /\ read_pos <= commit_pos
  /\ commit_pos <= write_pos
  /\ write_pos <= read_pos + Capacity

\* The slots the consumer is entitled to look at: published, not yet released.
Unread == {p \in read_pos .. (commit_pos - 1) : p % ItemSize = 0}

\* Every published, unreleased slot holds the complete message written for its
\* own position: it is neither half copied, nor left over from an earlier lap,
\* nor overwritten by a later one ("a reserved-but-unfinished slot is never
\* observable, and a recycled index (after wrap) is never confused with stale
\* content", control_block.hpp).  The exception are slots whose writer died
\* before commit, which the next commit publishes as they are; nothing else
\* suffers from the crash.
CommittedIntact == \A p \in Unread : p \in abandoned \/ data[p % Capacity] = p

\* No front ever moves back, and commit_pos passes over no slot but the one being
\* committed and those a dead writer left, also when reserve and commit are
\* called out of turn or a writer is replaced by another ("misuse can no longer
\* move commit_pos backward or skip an uncommitted slot", CHANGELOG.md).
FrontsOnlyAdvance ==
  [][/\ write_pos' >= write_pos
     /\ read_pos' >= read_pos
     /\ commit_pos' \in {commit_pos, write_pos}
     /\ \A p \in commit_pos .. (commit_pos' - ItemSize - 1) :
          p % ItemSize = 0 => p \in abandoned]_vars

\* The inductive invariant behind the properties above: what a pending
\* reservation and an idle writer say about the fronts (WriterBook), what
\* try_reserve and try_read may rely on in values they loaded earlier
\* (LoadedPositions), and that the slot being filled is the one try_reserve
\* handed out (FilledSlot).
OnSlotBoundary ==
  /\ write_pos % ItemSize = 0 /\ commit_pos % ItemSize = 0 /\ read_pos % ItemSize = 0

\* Reserved slots that nobody is going to fill any more.
Gap == {p \in commit_pos .. ((IF pending THEN write_pos - ItemSize ELSE write_pos) - 1) :
          p % ItemSize = 0}

WriterBook ==
  /\ pending => /\ reserved_end = write_pos /\ commit_pos + ItemSize <= write_pos
                /\ wpc = "idle" /\ fill # "none"
  /\ ~pending => fill = "none"
  /\ Gap \subseteq abandoned

LoadedPositions ==
  /\ wpc = "reserve" => wread <= read_pos /\ write_pos <= wread + Capacity /\ wread % ItemSize = 0
  /\ rpc = "view" => read_pos < rseen /\ rseen <= commit_pos

FilledSlot == fill = "full" => data[Slot] = reserved_end - ItemSize

\* Together with the types and the two safety properties, these parts are
\* preserved by every step of the writer, the reader and the waiters.
IInv ==
  /\ TypeOK /\ OnSlotBoundary /\ FrontsOrdered /\ WriterBook
  /\ LoadedPositions /\ FilledSlot /\ CommittedIntact

\* No writer died over a slot it had reserved.
NothingAbandoned == abandoned = {}

\* The number of the message found at byte offset p of the stream: what the
\* memory holds there, not what it should hold.
MessageAt(p) ==
  IF data[p % Capacity] = Junk THEN Junk ELSE data[p % Capacity] \div ItemSize

Fifo == INSTANCE BoundedFifo WITH
  MaxLen <- item_count,
  NoMsg <- Junk,
  queue <- [i \in 1 .. ((commit_pos - read_pos) \div ItemSize)
              |-> MessageAt(read_pos + (i - 1) * ItemSize)],
  sent <- commit_pos \div ItemSize,
  view <- IF rpc = "view" THEN MessageAt(read_pos) ELSE Junk

\* As long as no writer dies, the ring is a bounded FIFO: messages reach the
\* consumer complete, in order, none lost and none twice; what try_read points
\* at stays what it is until read_advance; and item_count messages fit.
ImplementsFifo == Fifo!Spec

=============================================================================

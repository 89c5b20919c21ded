----------------------------- MODULE VarlenRing -----------------------------
(***************************************************************************)
(* The variable-length ring: one varlen_writer and one varlen_reader over  *)
(* a shared control block and data region.                                 *)
(*                                                                         *)
(* The memory is kept byte by byte: every byte remembers the position of   *)
(* the slot it was written for, header bytes also the two sizes.  A model  *)
(* byte stands for a unit of at least 8 bytes, large enough to hold both   *)
(* size fields: with HeaderSize 2 (sizeof(varlen_slot_header) is 32) it is *)
(* 16 bytes, so Alignment 1 is data_alignment 16 and Alignment 2 is 32.    *)
(* num numbers the messages in the order the client reserved them; it      *)
(* travels in the header as message_meta does.                             *)
(***************************************************************************)
EXTENDS NotifyBits, Sequences

CONSTANTS Capacity,     \* data_capacity
          Alignment,    \* data_alignment
          HeaderSize,   \* varlen_slot_header_size
          U32,          \* 2^32: sizes are computed in uint32_t
          Payloads,     \* the payload sizes the client uses
          MaxPos,       \* bound: no new message is started at or beyond this offset
          Persistent,   \* TRUE: the client retries a message the ring had no room for
          MayDecline,   \* TRUE: the handler may return false
          Junk

ASSUME VarlenRingAssumption ==
  /\ Capacity \in Nat \ {0} /\ Alignment \in Nat \ {0} /\ HeaderSize \in Nat \ {0}
  /\ Capacity % Alignment = 0     \* init_control_block
  /\ U32 \in Nat \ {0} /\ U32 % Alignment = 0
  /\ Payloads \subseteq 0 .. (U32 - 1)
  /\ MaxPos \in Nat
  /\ Persistent \in BOOLEAN /\ MayDecline \in BOOLEAN
  /\ Junk \notin Nat

VARIABLES write_pos, commit_pos, read_pos, commit_seq, read_wake_seq,
          data,                    \* the data region
          overrun,                 \* something was written past its end
          pending, last_position,  \* varlen_writer members
          wpc, wread, whead,       \* the writer's call, its read_pos and its head (0: not loaded)
          wpay, wret,              \* payload_size in work, what the last try_reserve returned
          fill,                    \* how much of the payload the client has written
          serial,                  \* messages reserved so far
          orphaned,                \* history: a writer was replaced over a reserved slot
          rpc, rjunk               \* where the reader's call stands, see ParsesAs

sharedVars == <<write_pos, commit_pos, read_pos, commit_seq, read_wake_seq>>
memoryVars == <<data, overrun>>
writerVars == <<pending, last_position, wpc, wread, whead, wpay, wret, fill, serial,
                orphaned>>
readerVars == <<rpc, rjunk>>
vars == <<sharedVars, memoryVars, writerVars, readerVars>>

-----------------------------------------------------------------------------
\* (value + alignment - 1) & ~(alignment - 1) in uint32_t
align_up_u32(value) ==
  LET v == (value + Alignment - 1) % U32 IN v - (v % Alignment)

\* Mutant: the header forgotten.
PayloadOnly(payload) == align_up_u32(payload)

Needed(payload) == align_up_u32((HeaderSize + payload) % U32)

WrapPadding(head) == Capacity - (head % Capacity)

Cell(p, slot, payload, num) == [at |-> p, slot_size |-> slot, payload_size |-> payload, num |-> num]
MessageByte(p, num) == Cell(p, 0, 0, num)
JunkByte == Cell(Junk, 0, 0, Junk)

\* Stores n bytes at byte from of the region.
Store(from, n, cell) ==
  /\ data' = [i \in DOMAIN data |-> IF i >= from /\ i < from + n THEN cell ELSE data[i]]
  /\ overrun' = (overrun \/ from + n > Capacity)

HeaderAt(p) == data[p % Capacity]

Init ==
  /\ write_pos = 0 /\ commit_pos = 0 /\ read_pos = 0
  /\ commit_seq = 0 /\ read_wake_seq = 0
  /\ data = [i \in 0 .. (Capacity - 1) |-> JunkByte] /\ overrun = FALSE
  /\ pending = FALSE /\ last_position = 0
  /\ wpc = "idle" /\ wread = 0 /\ whead = 0 /\ wpay = 0 /\ wret = "none"
  /\ fill = "none" /\ serial = 0 /\ orphaned = FALSE
  /\ rpc = "idle" /\ rjunk = 0

-----------------------------------------------------------------------------
(* varlen_writer *)

\* Mutants of this section.  No pending_ guard in try_reserve:
TryReserveTwice(n) ==
  /\ wpc = "idle" /\ fill # "partial"
  /\ write_pos < MaxPos
  /\ Needed(n) <= Capacity
  /\ wpay' = n
  /\ whead' = write_pos
  /\ wpc' = "load"
  /\ UNCHANGED <<sharedVars, memoryVars, pending, last_position, wread, wret, fill, serial, orphaned, readerVars>>
\* the new slot not counted in the capacity test:
FitsBefore == whead - wread <= Capacity
\* padding with slot_size 0:
PadHeaderZero ==
  /\ wpc = "pad"
  /\ Store(whead % Capacity, HeaderSize, Cell(whead, 0, 0, Junk))
  /\ wpc' = "padpublish"
  /\ UNCHANGED <<sharedVars, pending, last_position, wread, whead, wpay, wret, fill, serial, orphaned, readerVars>>
\* head not moved behind the padding:
PadBumpKeepsHead ==
  /\ wpc = "padbump"
  /\ commit_seq' = bump_notify_word(commit_seq)
  /\ wpc' = IF HasWaiter(commit_seq) THEN "padnotify" ELSE "load"
  /\ UNCHANGED <<write_pos, commit_pos, read_pos, read_wake_seq, memoryVars,
                 pending, last_position, wread, whead, wpay, wret, fill, serial, orphaned, readerVars>>
\* any position accepted by commit:
CommitAnywhere(position) ==
  /\ wpc = "idle" /\ fill \in {"none", "full"}
  /\ pending
  /\ commit_pos' = position + HeaderAt(position).slot_size
  /\ pending' = FALSE
  /\ fill' = "none" /\ wpay' = 0
  /\ wpc' = "bump"
  /\ UNCHANGED <<write_pos, read_pos, commit_seq, read_wake_seq, memoryVars,
                 last_position, wread, whead, wret, serial, orphaned, readerVars>>

\* try_reserve up to the load of write_pos.  Refused while a reservation is
\* pending; message_too_large when the slot could never fit.
TryReserve(n) ==
  /\ wpc = "idle" /\ fill # "partial"
  /\ \/ /\ pending
        /\ UNCHANGED <<wpc, whead, wpay, wret>>
     \/ /\ ~pending
        /\ IF wret = "full" /\ Persistent THEN n = wpay ELSE write_pos < MaxPos
        /\ \/ /\ Needed(n) > Capacity
              /\ wret' = "message_too_large"
              /\ UNCHANGED <<wpc, wpay, whead>>
           \/ /\ Needed(n) <= Capacity
              /\ wpay' = n
              /\ whead' = write_pos
              /\ wpc' = "load"
              /\ UNCHANGED wret
  /\ UNCHANGED <<sharedVars, memoryVars, pending, last_position, wread, fill, serial, orphaned, readerVars>>

LoadReadPos ==
  /\ wpc = "load"
  /\ wread' = read_pos
  /\ wpc' = "place"
  /\ UNCHANGED <<sharedVars, memoryVars, pending, last_position, whead, wpay, wret, fill, serial, orphaned, readerVars>>

\* used + needed <= data_capacity
Fits == (whead - wread) + Needed(wpay) <= Capacity

\* compare_exchange_strong(head, end): claims the bytes up to end; when write_pos
\* is not head any more, head is loaded again and the loop starts over.
Claim(end, next) ==
  IF write_pos = whead
  THEN write_pos' = end /\ wpc' = next /\ UNCHANGED whead
  ELSE whead' = write_pos /\ wpc' = "load" /\ UNCHANGED write_pos

\* The capacity test, then the CAS that claims a slot, or the rest of the lap
\* when the slot does not fit before the ring end.
Place ==
  /\ wpc = "place"
  /\ \/ /\ ~Fits
        /\ wret' = "full"
        /\ wpc' = "idle" /\ whead' = 0
        /\ UNCHANGED write_pos
     \/ /\ Fits /\ WrapPadding(whead) < Needed(wpay)
        /\ Claim(whead + WrapPadding(whead), "pad")
        /\ UNCHANGED wret
     \/ /\ Fits /\ WrapPadding(whead) >= Needed(wpay)
        /\ Claim(whead + Needed(wpay), "header")
        /\ UNCHANGED wret
  /\ wread' = 0
  /\ UNCHANGED <<commit_pos, read_pos, commit_seq, read_wake_seq, memoryVars,
                 pending, last_position, wpay, fill, serial, orphaned, readerVars>>

\* The dummy header: a whole varlen_slot_header at head_index, the padding cast
\* to uint32_t.
PadHeader ==
  /\ wpc = "pad"
  /\ Store(whead % Capacity, HeaderSize, Cell(whead, WrapPadding(whead) % U32, 0, Junk))
  /\ wpc' = "padpublish"
  /\ UNCHANGED <<sharedVars, pending, last_position, wread, whead, wpay, wret, fill, serial,
                 orphaned, readerVars>>

PadPublish ==
  /\ wpc = "padpublish"
  /\ commit_pos' = whead + WrapPadding(whead)
  /\ wpc' = "padbump"
  /\ UNCHANGED <<write_pos, read_pos, commit_seq, read_wake_seq, memoryVars,
                 pending, last_position, wread, whead, wpay, wret, fill, serial, orphaned, readerVars>>

\* After the bump (and the notify) the loop starts over from the new head.
PadBump ==
  /\ wpc = "padbump"
  /\ commit_seq' = bump_notify_word(commit_seq)
  /\ whead' = whead + WrapPadding(whead)
  /\ wpc' = IF HasWaiter(commit_seq) THEN "padnotify" ELSE "load"
  /\ UNCHANGED <<write_pos, commit_pos, read_pos, read_wake_seq, memoryVars,
                 pending, last_position, wread, wpay, wret, fill, serial, orphaned, readerVars>>

PadNotify ==
  /\ wpc = "padnotify"
  /\ wpc' = "load"
  /\ UNCHANGED <<sharedVars, memoryVars, pending, last_position, wread, whead,
                 wpay, wret, fill, serial, orphaned, readerVars>>

\* The slot's own header; try_reserve returns ok.  A zero-length message needs
\* no copy and gets no number: the reader cannot tell it from padding.
SlotHeader ==
  /\ wpc = "header"
  /\ Store(whead % Capacity, HeaderSize,
           Cell(whead, Needed(wpay), wpay, IF wpay = 0 THEN Junk ELSE serial))
  /\ pending' = TRUE /\ last_position' = whead
  /\ serial' = IF wpay = 0 THEN serial ELSE serial + 1
  /\ fill' = IF wpay = 0 THEN "full" ELSE "empty"
  /\ wret' = "ok"
  /\ wpc' = "idle" /\ whead' = 0
  /\ UNCHANGED <<sharedVars, wread, wpay, orphaned, readerVars>>

\* The client copies wpay bytes behind the header.
BeginCopy ==
  /\ wpc = "idle" /\ fill = "empty"
  /\ Store((last_position % Capacity) + HeaderSize, wpay, JunkByte)
  /\ fill' = "partial"
  /\ UNCHANGED <<sharedVars, pending, last_position, wpc, wread, whead, wpay, wret, serial, orphaned, readerVars>>

EndCopy ==
  /\ wpc = "idle" /\ fill = "partial"
  /\ Store((last_position % Capacity) + HeaderSize, wpay, MessageByte(last_position, serial - 1))
  /\ fill' = "full"
  /\ UNCHANGED <<sharedVars, pending, last_position, wpc, wread, whead, wpay, wret, serial, orphaned, readerVars>>

\* commit(position) up to the store of commit_pos: a no-op without a pending
\* reservation or for another position.  The client commits its slot filled.
Commit(position) ==
  /\ wpc = "idle" /\ fill # "partial"
  /\ fill = "empty" => position # last_position
  /\ \/ /\ ~pending \/ position # last_position
        /\ UNCHANGED <<commit_pos, pending, wpc, wpay, fill>>
     \/ /\ pending /\ position = last_position
        /\ commit_pos' = position + HeaderAt(position).slot_size
        /\ pending' = FALSE
        /\ fill' = "none" /\ wpay' = 0
        /\ wpc' = "bump"
  /\ UNCHANGED <<write_pos, read_pos, commit_seq, read_wake_seq, memoryVars,
                 last_position, wread, whead, wret, serial, orphaned, readerVars>>

CommitBump ==
  /\ wpc = "bump"
  /\ commit_seq' = bump_notify_word(commit_seq)
  /\ wpc' = IF HasWaiter(commit_seq) THEN "notify" ELSE "idle"
  /\ UNCHANGED <<write_pos, commit_pos, read_pos, read_wake_seq, memoryVars,
                 pending, last_position, wread, whead, wpay, wret, fill, serial, orphaned, readerVars>>

CommitNotify ==
  /\ wpc = "notify"
  /\ wpc' = "idle"
  /\ UNCHANGED <<sharedVars, memoryVars, pending, last_position, wread, whead,
                 wpay, wret, fill, serial, orphaned, readerVars>>

\* The writer goes away, also in the middle of a call, and a new one is
\* constructed over the same block.  A slot that was reserved and not committed
\* is left where it is: the new writer reserves behind it, and its first commit
\* publishes both.
WriterReattach ==
  /\ pending' = FALSE /\ last_position' = 0
  /\ wpc' = "idle" /\ wread' = 0 /\ whead' = 0 /\ wpay' = 0 /\ wret' = "none" /\ fill' = "none"
  /\ orphaned' = (orphaned \/ write_pos # commit_pos)
  /\ UNCHANGED <<sharedVars, memoryVars, serial, readerVars>>

-----------------------------------------------------------------------------
(* varlen_reader *)

\* The sizes a reader finds in the bytes at read_pos.  Bytes that are no header (a
\* payload, or what the memory held before) may look like any; all slot sizes
\* beyond commit_pos are like the first.
ParsesAs(c) ==
  IF c.slot_size > 0 THEN {[slot_size |-> c.slot_size, payload_size |-> c.payload_size]}
  ELSE [slot_size : 0 .. (commit_pos - read_pos + 1), payload_size : {0, 1}]

\* One round of the loop of read() up to its decision: commit_pos and the
\* header at read_pos are loaded; nothing is published, or the slot is
\* skipped, or the handler is called.  rjunk keeps the slot size that bytes
\* which are no header were taken for.
Read ==
  /\ rpc \in {"idle", "loop"}
  /\ \/ /\ commit_pos <= read_pos
        /\ rpc' = "idle" /\ rjunk' = 0
     \/ /\ commit_pos > read_pos
        /\ \E slot \in ParsesAs(HeaderAt(read_pos)) :
             IF slot.slot_size = 0 \/ commit_pos - read_pos < slot.slot_size
             THEN rpc' = "idle" /\ rjunk' = 0
             ELSE /\ rpc' = IF slot.payload_size = 0 THEN "skip" ELSE "handler"
                  /\ rjunk' = IF HeaderAt(read_pos).slot_size > 0 THEN 0 ELSE slot.slot_size
  /\ UNCHANGED <<sharedVars, memoryVars, writerVars>>

\* slot->slot_size, loaded again.
SlotSize == IF HeaderAt(read_pos).slot_size > 0 THEN HeaderAt(read_pos).slot_size ELSE rjunk

\* read_pos moves past padding, or past a message the handler accepted.
Advance(from, to) ==
  /\ rpc = from
  /\ read_pos' = read_pos + SlotSize
  /\ rpc' = to /\ rjunk' = 0
  /\ UNCHANGED <<write_pos, commit_pos, commit_seq, read_wake_seq, memoryVars, writerVars>>

SkipPadding == Advance("skip", "skipbump")
HandlerAccepts == Advance("handler", "bump")

\* The handler returns false (or the caller's buffer is too small).
HandlerDeclines ==
  /\ MayDecline /\ rpc = "handler"
  /\ rpc' = "idle" /\ rjunk' = 0
  /\ UNCHANGED <<sharedVars, memoryVars, writerVars>>

AdvanceBump ==
  /\ rpc \in {"bump", "skipbump"}
  /\ read_wake_seq' = bump_notify_word(read_wake_seq)
  /\ rpc' = IF HasWaiter(read_wake_seq)
            THEN (IF rpc = "bump" THEN "notify" ELSE "skipnotify")
            ELSE (IF rpc = "bump" THEN "idle" ELSE "loop")
  /\ UNCHANGED <<write_pos, commit_pos, read_pos, commit_seq, memoryVars, writerVars, rjunk>>

AdvanceNotify ==
  /\ rpc \in {"notify", "skipnotify"}
  /\ rpc' = IF rpc = "notify" THEN "idle" ELSE "loop"
  /\ UNCHANGED <<sharedVars, memoryVars, writerVars, rjunk>>

\* A new reader starts from read_pos, wherever the old one was.
ReaderReattach ==
  /\ rpc' = "idle" /\ rjunk' = 0
  /\ UNCHANGED <<sharedVars, memoryVars, writerVars>>

-----------------------------------------------------------------------------
\* Threads waiting on a word set and clear its flag (see NotifyWord).
WaiterFlag ==
  /\ \/ /\ commit_seq' \in {SetWaiter(commit_seq), ClearWaiter(commit_seq)}
        /\ UNCHANGED read_wake_seq
     \/ /\ read_wake_seq' \in {SetWaiter(read_wake_seq), ClearWaiter(read_wake_seq)}
        /\ UNCHANGED commit_seq
  /\ UNCHANGED <<write_pos, commit_pos, read_pos, memoryVars, writerVars, readerVars>>

WriterStep ==
  \/ \E n \in Payloads : TryReserve(n)
  \/ LoadReadPos \/ Place \/ PadHeader \/ PadPublish \/ PadBump \/ PadNotify
  \/ SlotHeader \/ BeginCopy \/ EndCopy
  \/ \E position \in {last_position, read_pos, commit_pos} : Commit(position)
  \/ CommitBump \/ CommitNotify

ReaderStep ==
  Read \/ SkipPadding \/ HandlerAccepts \/ AdvanceBump \/ AdvanceNotify

Next == WriterStep \/ ReaderStep \/ HandlerDeclines
        \/ WriterReattach \/ ReaderReattach \/ WaiterFlag

Spec == Init /\ [][Next]_vars

\* A producer that keeps retrying and a consumer that keeps polling and declines
\* nothing, each on a thread that is scheduled, over one writer and one reader.
LiveNext == WriterStep \/ ReaderStep

LiveSpec == Init /\ [][LiveNext]_vars /\ WF_vars(WriterStep) /\ WF_vars(ReaderStep)

-----------------------------------------------------------------------------
Cells == [at : Nat \cup {Junk}, slot_size : Nat, payload_size : Nat, num : Nat \cup {Junk}]

\* Positions are natural numbers, notify words stay in their 32 bits, and every
\* unit of memory carries a header or a message byte.
TypeOK ==
  /\ write_pos \in Nat /\ commit_pos \in Nat /\ read_pos \in Nat
  /\ commit_seq \in NotifyWords /\ read_wake_seq \in NotifyWords
  /\ data \in [0 .. (Capacity - 1) -> Cells] /\ overrun \in BOOLEAN
  /\ pending \in BOOLEAN /\ last_position \in Nat
  /\ wpc \in {"idle", "load", "place", "pad", "padpublish", "padbump", "padnotify",
              "header", "bump", "notify"}
  /\ wread \in Nat /\ whead \in Nat /\ wpay \in Payloads \cup {0}
  /\ wret \in {"none", "ok", "full", "message_too_large"}
  /\ fill \in {"none", "empty", "partial", "full"} /\ serial \in Nat
  /\ orphaned \in BOOLEAN /\ rjunk \in Nat
  /\ rpc \in {"idle", "loop", "skip", "handler", "bump", "skipbump", "notify", "skipnotify"}

\* The fronts stay ordered and within one lap, padding included, and also when
\* a writer died over a reserved slot and the reader parses what it left.
FrontsOrdered ==
  /\ read_pos <= commit_pos
  /\ commit_pos <= write_pos
  /\ write_pos <= read_pos + Capacity

\* The slots that start in [read_pos, commit_pos): a byte that carries its own
\* position starts a slot.
Starts == {p \in read_pos .. (commit_pos - 1) : HeaderAt(p).at = p /\ HeaderAt(p).slot_size > 0}

\* All bytes of the message at p are those written for p: the header and the
\* payload, in one piece before the ring end.
MessageIntact(p) ==
  LET h == HeaderAt(p) IN
    /\ (p % Capacity) + HeaderSize + h.payload_size <= Capacity
    /\ HeaderSize + h.payload_size <= h.slot_size
    /\ \A k \in 0 .. (HeaderSize + h.payload_size - 1) :
         data[(p % Capacity) + k].at = p /\ data[(p % Capacity) + k].num = h.num

\* What is published parses: the consumer finds a slot at read_pos, every slot
\* leads to the next or to commit_pos, and every message it finds is complete,
\* current and contiguous ("the consumer can chase the producer across the
\* wrap without per-position checks", varlen_writer.hpp).  Not after a writer
\* was replaced over a reserved slot: then commit_pos jumps over bytes that
\* nobody finished.
Parses ==
  /\ read_pos < commit_pos => read_pos \in Starts
  /\ \A p \in Starts :
       /\ p + HeaderAt(p).slot_size \in Starts \cup {commit_pos}
       /\ HeaderAt(p).payload_size > 0 => MessageIntact(p)

CommittedIntact == ~orphaned => Parses

Messages == {p \in Starts : HeaderAt(p).payload_size > 0}

\* How many messages were committed so far.
Sent == IF pending /\ wpay > 0 THEN serial - 1 ELSE serial

\* The messages a consumer will find are the last ones committed, consecutive
\* and in the order they were reserved: none is lost, none comes twice, however
\* many padding slots and zero-length messages lie in between, which side is
\* replaced (the writer with nothing reserved) and whatever the handler declines.
InOrder ==
  \A p \in Messages :
    /\ HeaderAt(p).num \in 0 .. (Sent - 1)
    /\ \A q \in Messages : p < q => HeaderAt(p).num < HeaderAt(q).num
    /\ \A m \in HeaderAt(p).num .. (Sent - 1) : \E q \in Messages : HeaderAt(q).num = m

MessagesInOrder == ~orphaned => InOrder

\* Headers and payloads are written inside the data region ("commits a padding
\* slot up to the ring boundary", varlen_header.hpp).
InsideRegion == ~overrun

\* The head that the CAS compares with is never stale, padding and replaced
\* writers included: nobody else moves write_pos and the CAS never fails.
CasNeverLoses == wpc = "place" => write_pos = whead

\* A reserved slot is as large as its header and payload ("Total slot size is
\* align_up(sizeof(varlen_slot_header) + payload_bytes)", varlen_header.hpp).
\* The uint32_t sum of try_reserve wraps for payload sizes near 2^32, and a slot
\* smaller than its header is reserved for them.
SlotHoldsMessage == pending => Needed(wpay) >= HeaderSize + wpay

\* The inductive invariant behind the properties above.  The writer's head is
\* write_pos until it claims something; what it has claimed ends at write_pos
\* and starts at or behind commit_pos, and a message does not reach over the
\* ring end.  Unless a writer died over a reserved slot, there is nothing
\* between commit_pos and what it has claimed (WriterBook).
WriterBook ==
  /\ wpc \in {"load", "place", "padnotify"} => whead = write_pos
  /\ wpc \in {"pad", "padpublish", "header"} => commit_pos <= whead
  /\ wpc \in {"pad", "padpublish", "padbump"} => write_pos = whead + WrapPadding(whead)
  /\ wpc = "pad" => WrapPadding(whead) < Needed(wpay) /\ whead % Alignment = 0
  /\ wpc = "header" => write_pos = whead + Needed(wpay) /\ Needed(wpay) <= WrapPadding(whead)
  /\ wpc = "place" => wread <= read_pos
  /\ pending => /\ wpc = "idle" /\ commit_pos <= last_position
                /\ write_pos = last_position + Needed(wpay)
                /\ Needed(wpay) <= WrapPadding(last_position)
                /\ wpay > 0 => serial > 0
  /\ pending <=> fill # "none"
  /\ fill \in {"empty", "partial"} => wpay > 0
  /\ ~orphaned =>
       /\ wpc \in {"pad", "padpublish", "header"} => whead = commit_pos
       /\ ~pending /\ wpc \notin {"pad", "padpublish", "header"} => write_pos = commit_pos
       /\ pending => last_position = commit_pos

\* The headers of the slot in flight stay what try_reserve made them while the
\* client copies, and a slot that is ready holds its message (FlightBook).
FlightBook ==
  /\ wpc = "padpublish" => HeaderAt(whead) = Cell(whead, WrapPadding(whead), 0, Junk)
  /\ pending => \A k \in 0 .. (HeaderSize - 1) :
       data[(last_position % Capacity) + k] =
         Cell(last_position, Needed(wpay), wpay, IF wpay = 0 THEN Junk ELSE serial - 1)
  /\ fill = "full" => \A k \in HeaderSize .. (HeaderSize + wpay - 1) :
       data[(last_position % Capacity) + k] = MessageByte(last_position, serial - 1)

\* No byte claims to start a slot that was not reserved yet, so nothing that an
\* earlier lap left behind commit_pos can be taken for one.
SlotsAreOld ==
  \A i \in 0 .. (Capacity - 1) :
    data[i].at # Junk => data[i].at <= commit_pos /\ data[i].at < write_pos

\* The reader moves over published bytes only, whatever it took for a header.
ReaderBook ==
  rpc \in {"skip", "handler"} => SlotSize > 0 /\ read_pos + SlotSize <= commit_pos

OnAlignment == write_pos % Alignment = 0 /\ commit_pos % Alignment = 0

\* All of it together is preserved by every step.
VarlenInv ==
  /\ TypeOK /\ FrontsOrdered /\ WriterBook /\ FlightBook /\ ReaderBook /\ OnAlignment
  /\ ~orphaned => SlotsAreOld /\ Parses

\* Any message that fits into the ring at all is accepted in the end: a full
\* result is temporary, although a large message may need the lap to be padded,
\* the padding to be skipped and the ring to be empty ("arbitrary sizes up to
\* the ring capacity", README.md).
FullIsTemporary == wret = "full" ~> wret = "ok"

\* The message the memory holds at p, if it is intact.
MessageAt(p) == IF MessageIntact(p) THEN HeaderAt(p).num ELSE Junk

\* The messages a consumer parsing from read_pos finds up to commit_pos.
Published ==
  LET from[p \in read_pos .. commit_pos] ==
        LET h == HeaderAt(p) IN
          IF p = commit_pos THEN <<>>
          ELSE IF h.slot_size = 0 \/ p + h.slot_size > commit_pos THEN <<Junk>>
          ELSE (IF h.payload_size = 0 THEN <<>> ELSE <<MessageAt(p)>>) \o from[p + h.slot_size]
  IN  from[read_pos]

Fifo == INSTANCE BoundedFifo WITH
  MaxLen <- Capacity \div HeaderSize,
  NoMsg <- Junk,
  queue <- Published,
  sent <- Sent,
  view <- IF rpc = "handler" THEN MessageAt(read_pos) ELSE Junk

\* The ring is a FIFO of its non-empty messages: padding and zero-length
\* messages are invisible, a declined message stays first in line, the one
\* being handled does not change under the handler.  This holds up to the first
\* writer that is replaced over a reserved slot.
ImplementsFifo == Fifo!Init /\ [][orphaned' \/ Fifo!Next]_vars

=============================================================================

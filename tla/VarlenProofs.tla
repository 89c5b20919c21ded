---------------------------- MODULE VarlenProofs ----------------------------
(***************************************************************************)
(* The variable-length ring keeps VarlenInv, for every capacity, alignment *)
(* and header size, as long as payload sizes stay clear of the 32-bit wrap *)
(* of try_reserve's size arithmetic.  The fronts, the alignment and what   *)
(* the reader steps over are covered also after a writer was replaced over *)
(* a reserved slot; what the bytes hold only up to that moment.            *)
(***************************************************************************)
EXTENDS VarlenRing, NotifyBitsProofs

\* align_up_u32(varlen_slot_header_size + payload_size) does not wrap.
PayloadsFit == \A n \in Payloads \cup {0} : HeaderSize + n + Alignment <= U32

\* What the validation of the control block says of the geometry.
LEMMA Constants ==
  /\ Capacity \in Nat \ {0} /\ Alignment \in Nat \ {0} /\ HeaderSize \in Nat \ {0}
  /\ U32 \in Nat \ {0} /\ Capacity % Alignment = 0 /\ Junk \notin Nat
  /\ Payloads \cup {0} \subseteq Nat
  BY VarlenRingAssumption

-----------------------------------------------------------------------------
(* Sizes and indexes *)

\* align_up_u32 rounds up to a multiple of the alignment, unless it wraps.
LEMMA AlignUp ==
  ASSUME NEW v \in Nat, v + Alignment <= U32
  PROVE  /\ align_up_u32(v) \in Nat /\ align_up_u32(v) >= v /\ align_up_u32(v) < U32
         /\ align_up_u32(v) % Alignment = 0
<1> DEFINE w == v + Alignment - 1  q == w \div Alignment
<1>0. Alignment \in Nat \ {0} /\ U32 \in Nat \ {0}
  BY Constants
<1>1. w \in 0 .. (U32 - 1) /\ w \in Nat
  BY <1>0
<1>2. w % U32 = w
  <2> HIDE DEF w
  <2> QED BY <1>0, <1>1, SmallMod
<1>3. align_up_u32(v) = w - (w % Alignment)
  BY <1>2 DEF align_up_u32
<1>4. w % Alignment \in 0 .. (Alignment - 1) /\ q \in Nat /\ w = Alignment * q + (w % Alignment)
  <2> HIDE DEF w
  <2> QED BY <1>0, <1>1, DivMod, Zenon
<1>5. align_up_u32(v) \in Nat /\ align_up_u32(v) >= v /\ align_up_u32(v) < U32
  BY <1>0, <1>3, <1>4
<1> HIDE DEF w, q
<1>6. align_up_u32(v) = q * Alignment
  BY <1>0, <1>1, <1>3, <1>4
<1> QED BY <1>0, <1>4, <1>5, <1>6, ModMultiple

\* A slot has room for its header and payload and keeps the alignment.
LEMMA NeededFacts ==
  ASSUME PayloadsFit, NEW n \in Payloads \cup {0}
  PROVE  /\ Needed(n) \in Nat /\ Needed(n) >= HeaderSize + n /\ Needed(n) < U32
         /\ Needed(n) % Alignment = 0
<1> DEFINE v == HeaderSize + n
<1>1. v \in Nat /\ v + Alignment <= U32 /\ v \in 0 .. (U32 - 1) /\ U32 \in Nat \ {0}
  BY Constants DEF PayloadsFit
<1>2. Needed(n) = align_up_u32(v % U32)
  BY DEF Needed
<1> HIDE DEF v
<1>3. v % U32 = v
  BY <1>1, SmallMod
<1>4. /\ align_up_u32(v) \in Nat /\ align_up_u32(v) >= v /\ align_up_u32(v) < U32
      /\ align_up_u32(v) % Alignment = 0
  BY <1>1, AlignUp
<1> QED BY <1>2, <1>3, <1>4 DEF v

\* The padding leads from a position to the start of the next lap.
LEMMA WrapFacts ==
  ASSUME NEW h \in Nat
  PROVE  /\ h % Capacity \in 0 .. (Capacity - 1)
         /\ WrapPadding(h) \in 1 .. Capacity
         /\ (h % Capacity) + WrapPadding(h) = Capacity
<1>1. Capacity \in Nat \ {0} /\ h % Capacity \in 0 .. (Capacity - 1)
  BY Constants, DivMod
<1> QED BY <1>1 DEF WrapPadding

\* On a ring whose capacity is a multiple of the alignment, padding from an
\* aligned position is aligned and not smaller than the alignment.
LEMMA WrapAligned ==
  ASSUME NEW h \in Nat, h % Alignment = 0
  PROVE  (h + WrapPadding(h)) % Alignment = 0 /\ WrapPadding(h) >= Alignment
<1> DEFINE q == h \div Capacity  c == Capacity \div Alignment  w == WrapPadding(h)
<1>0. Capacity \in Nat \ {0} /\ Alignment \in Nat \ {0}
  BY Constants
<1>1. q \in Nat /\ h = Capacity * q + (h % Capacity)
  BY <1>0, DivMod
<1>2. c \in Nat /\ Capacity = Alignment * c
  BY <1>0, Constants, DivMod
<1>3. /\ w \in 1 .. Capacity /\ w \in Nat
      /\ (h % Capacity) + w = Capacity /\ h % Capacity \in Nat
  <2>1. /\ h % Capacity \in 0 .. (Capacity - 1) /\ w \in 1 .. Capacity
        /\ (h % Capacity) + w = Capacity
    BY WrapFacts
  <2> HIDE DEF w
  <2> QED BY <1>0, <2>1
<1> HIDE DEF q, c, w
<1> DEFINE m == c * (q + 1)
<1>4. m \in Nat /\ h + w = Capacity * (q + 1)
  BY <1>0, <1>1, <1>2, <1>3
<1>5. h + w = m * Alignment
  BY <1>0, <1>1, <1>2, <1>4
<1> HIDE DEF m
<1>6. (h + w) % Alignment = 0
  BY <1>0, <1>4, <1>5, ModMultiple
<1>7. (w + h) % Alignment = w % Alignment
  BY <1>0, <1>3, ModAdd, Zenon
<1>8. w % Alignment = 0
  BY <1>3, <1>6, <1>7
<1> DEFINE d == w \div Alignment
<1>9. d \in Nat /\ w = Alignment * d
  BY <1>0, <1>3, <1>8, DivMod
<1> HIDE DEF d
<1>10. d >= 1
  BY <1>0, <1>3, <1>9
<1>11. w >= Alignment
  BY <1>0, <1>9, <1>10
<1> QED BY <1>6, <1>11 DEF w

\* Within a lap, offsets from a position are offsets from its index.
LEMMA IndexOffset ==
  ASSUME NEW p \in Nat, NEW k \in Nat, (p % Capacity) + k < Capacity
  PROVE  (p + k) % Capacity = (p % Capacity) + k
<1> DEFINE q == p \div Capacity  r == p % Capacity  s == r + k
<1>1. Capacity \in Nat \ {0} /\ q \in Nat /\ r \in 0 .. (Capacity - 1) /\ p = Capacity * q + r
  BY Constants, DivMod, Zenon
<1>2. s \in 0 .. (Capacity - 1)
  BY <1>1
<1> HIDE DEF q, r
<1>3. p + k = Capacity * q + s
  BY <1>1
<1> HIDE DEF s
<1>4. (Capacity * q + s) % Capacity = s
  BY <1>1, <1>2, ModUnique
<1> QED BY <1>3, <1>4 DEF s, r

-----------------------------------------------------------------------------
(* The memory *)

\* What the writer stores are units of memory.
LEMMA CellType ==
  ASSUME NEW p \in Nat \cup {Junk}, NEW size \in Nat, NEW payload \in Nat, NEW num \in Nat \cup {Junk}
  PROVE  Cell(p, size, payload, num) \in Cells
  BY DEF Cell, Cells

\* Whatever a side reads at a position is a unit with its fields.
LEMMA ReadCell ==
  ASSUME TypeOK, NEW p \in Nat
  PROVE  /\ p % Capacity \in 0 .. (Capacity - 1) /\ HeaderAt(p) \in Cells
         /\ HeaderAt(p).at \in Nat \cup {Junk} /\ HeaderAt(p).slot_size \in Nat
         /\ HeaderAt(p).payload_size \in Nat /\ HeaderAt(p).num \in Nat \cup {Junk}
<1>1. p % Capacity \in 0 .. (Capacity - 1)
  BY Constants, DivMod
<1>2. HeaderAt(p) \in Cells
  BY <1>1 DEF TypeOK, HeaderAt
<1> QED BY <1>1, <1>2 DEF Cells

\* A store keeps the memory in its type.
LEMMA StoreType ==
  ASSUME TypeOK, NEW from, NEW n, NEW cell \in Cells, Store(from, n, cell)
  PROVE  data' \in [0 .. (Capacity - 1) -> Cells] /\ overrun' \in BOOLEAN
<1>1. data' \in [0 .. (Capacity - 1) -> Cells]
  BY DEF TypeOK, Store
<1>2. overrun' \in BOOLEAN
  BY DEF Store
<1> QED BY <1>1, <1>2

\* What a store does to one cell of the region.
LEMMA StoredCell ==
  ASSUME TypeOK, NEW from \in Nat, NEW n \in Nat, NEW cell, Store(from, n, cell),
         NEW i \in 0 .. (Capacity - 1)
  PROVE  data'[i] = IF i >= from /\ i < from + n THEN cell ELSE data[i]
  BY DEF TypeOK, Store

\* A step leaves every published byte alone.
PublishedKept ==
  \A p \in read_pos .. (commit_pos - 1) : data'[p % Capacity] = data[p % Capacity]

\* Storing into the slot in flight, which starts at h, touches nothing that is
\* published.
LEMMA StoreKeepsPublished ==
  ASSUME TypeOK, FrontsOrdered, NEW h \in Nat, commit_pos <= h, NEW d \in Nat, NEW n \in Nat,
         NEW cell, Store((h % Capacity) + d, n, cell),
         \A j \in d .. (d + n - 1) : (h % Capacity) + j < Capacity => h + j < write_pos
  PROVE  PublishedKept
<1> SUFFICES ASSUME NEW p \in read_pos .. (commit_pos - 1)
             PROVE  data'[p % Capacity] = data[p % Capacity]
  BY DEF PublishedKept
<1> DEFINE c == h % Capacity  i == p % Capacity
<1>0. /\ Capacity \in Nat \ {0} /\ p \in Nat /\ commit_pos \in Nat /\ read_pos \in Nat
      /\ write_pos \in Nat /\ read_pos <= p /\ p < commit_pos /\ write_pos <= read_pos + Capacity
  BY Constants DEF TypeOK, FrontsOrdered
<1>1. c \in 0 .. (Capacity - 1) /\ i \in 0 .. (Capacity - 1)
  BY <1>0, DivMod
<1>2. data'[i] = IF i >= c + d /\ i < c + d + n THEN cell ELSE data[i]
  <2>1. c + d \in Nat
    BY <1>1
  <2> QED BY <1>1, <2>1, StoredCell
<1>3. ASSUME i >= c + d, i < c + d + n PROVE FALSE
  <2> DEFINE j == i - c  b == h + j
  <2>1. j \in d .. (d + n - 1) /\ j \in Nat /\ c + j < Capacity /\ c + j = i
    BY <1>0, <1>1, <1>3
  <2>2. b < write_pos
    BY <2>1
  <2>3. b % Capacity = i
    <3> HIDE DEF j
    <3> QED BY <1>0, <2>1, IndexOffset, Zenon
  <2>4. b \in Nat /\ p < b /\ b < p + Capacity
    BY <1>0, <2>1, <2>2
  <2> HIDE DEF b
  <2>5. p = b
    <3>1. p <= b /\ p % Capacity = b % Capacity
      BY <1>0, <2>3, <2>4
    <3> QED BY <1>0, <2>4, <3>1, ModInjective, Zenon
  <2> QED BY <1>0, <2>4, <2>5
<1> QED BY <1>2, <1>3

\* The bytes of a published message lie between read_pos and commit_pos.
LEMMA MessageSpan ==
  ASSUME TypeOK, Parses, NEW p \in Starts, HeaderAt(p).payload_size > 0,
         NEW k \in 0 .. (HeaderSize + HeaderAt(p).payload_size - 1)
  PROVE  p + k \in read_pos .. (commit_pos - 1) /\ (p + k) % Capacity = (p % Capacity) + k
<1> DEFINE h == HeaderAt(p)
<1>0. /\ read_pos \in Nat /\ commit_pos \in Nat /\ p \in Nat /\ read_pos <= p /\ HeaderSize \in Nat
  BY Constants DEF TypeOK, Starts
<1>1. h.slot_size \in Nat /\ h.payload_size \in Nat /\ p % Capacity \in Nat /\ Capacity \in Nat
  BY <1>0, Constants, ReadCell
<1>2. p + h.slot_size <= commit_pos
  <2>1. p + h.slot_size \in Starts \cup {commit_pos}
    BY DEF Parses
  <2> QED BY <1>0, <1>1, <2>1 DEF Starts
<1>3. (p % Capacity) + HeaderSize + h.payload_size <= Capacity
      /\ HeaderSize + h.payload_size <= h.slot_size
  BY DEF Parses, MessageIntact
<1> HIDE DEF h
<1>4. k \in Nat /\ k < HeaderSize + h.payload_size
  BY <1>0, <1>1 DEF h
<1>5. (p % Capacity) + k < Capacity /\ p + k < commit_pos
  BY <1>0, <1>1, <1>2, <1>3, <1>4
<1> QED BY <1>0, <1>4, <1>5, IndexOffset

\* Published slots stay intact as long as their bytes do.
LEMMA KeptIntact ==
  ASSUME TypeOK, Parses, UNCHANGED <<read_pos, commit_pos>>, PublishedKept
  PROVE  Parses'
<1>0. \A p \in read_pos .. (commit_pos - 1) : HeaderAt(p)' = HeaderAt(p)
  BY DEF HeaderAt, PublishedKept
<1>1. Starts' = Starts
  BY <1>0 DEF Starts
<1>2. \A p \in Starts : p \in read_pos .. (commit_pos - 1)
  BY DEF Starts
<1>3. read_pos' < commit_pos' => read_pos' \in Starts'
  BY <1>1 DEF Parses
<1>4. ASSUME NEW p \in Starts'
      PROVE  p + HeaderAt(p)'.slot_size \in Starts' \cup {commit_pos'}
  <2>1. p \in Starts /\ HeaderAt(p)' = HeaderAt(p)
    BY <1>0, <1>1, <1>2, <1>4
  <2> QED BY <1>1, <2>1 DEF Parses
<1>5. ASSUME NEW p \in Starts', HeaderAt(p)'.payload_size > 0
      PROVE  MessageIntact(p)'
  <2>1. p \in Starts /\ HeaderAt(p)' = HeaderAt(p)
    BY <1>0, <1>1, <1>2, <1>5
  <2>2. HeaderAt(p).payload_size > 0 /\ MessageIntact(p)
    BY <1>5, <2>1 DEF Parses
  <2>3. ASSUME NEW k \in 0 .. (HeaderSize + HeaderAt(p).payload_size - 1)
        PROVE  data'[(p % Capacity) + k] = data[(p % Capacity) + k]
    <3>1. p + k \in read_pos .. (commit_pos - 1) /\ (p + k) % Capacity = (p % Capacity) + k
      BY <2>1, <2>2, MessageSpan
    <3>2. data'[(p + k) % Capacity] = data[(p + k) % Capacity]
      BY <3>1 DEF PublishedKept
    <3> QED BY <3>1, <3>2
  <2> QED BY <2>1, <2>2, <2>3 DEF MessageIntact
<1> QED BY <1>3, <1>4, <1>5 DEF Parses

\* read_pos moves on to the next slot, or to the end of what is published.
LEMMA AdvanceIntact ==
  ASSUME TypeOK, Parses, read_pos < commit_pos, UNCHANGED <<data, commit_pos>>,
         read_pos' = read_pos + HeaderAt(read_pos).slot_size
  PROVE  /\ Parses' /\ Starts' = {p \in Starts : p >= read_pos'} /\ read_pos' \in Nat
         /\ read_pos <= read_pos' /\ read_pos' <= commit_pos
<1> DEFINE h == HeaderAt(read_pos)
<1>0. \A p : HeaderAt(p)' = HeaderAt(p) /\ MessageIntact(p)' = MessageIntact(p)
  BY DEF HeaderAt, MessageIntact
<1>1. read_pos \in Nat /\ commit_pos \in Nat /\ h.slot_size \in Nat
  BY ReadCell DEF TypeOK
<1>2. read_pos' \in Starts \cup {commit_pos}
  BY DEF Parses
<1>3. read_pos' \in Nat /\ read_pos <= read_pos' /\ read_pos' <= commit_pos
  <2> HIDE DEF h
  <2> QED BY <1>1, <1>2 DEF Starts, h
<1>4. Starts' = {p \in Starts : p >= read_pos'}
  <2>1. \A p : p \in Starts' <=> p \in Starts /\ p >= read_pos'
    BY <1>0, <1>1, <1>3 DEF Starts
  <2> QED BY <2>1
<1>5. read_pos' < commit_pos' => read_pos' \in Starts'
  BY <1>1, <1>2, <1>3, <1>4
<1>6. ASSUME NEW p \in Starts'
      PROVE  /\ p + HeaderAt(p)'.slot_size \in Starts' \cup {commit_pos'}
             /\ HeaderAt(p)'.payload_size > 0 => MessageIntact(p)'
  <2>1. p \in Starts /\ p >= read_pos' /\ p \in Nat
    BY <1>1, <1>4, <1>6 DEF Starts
  <2>2. HeaderAt(p).slot_size \in Nat
    BY <2>1, ReadCell
  <2>3. /\ p + HeaderAt(p).slot_size \in Starts \cup {commit_pos}
        /\ HeaderAt(p).payload_size > 0 => MessageIntact(p)
    BY <2>1 DEF Parses
  <2>4. p + HeaderAt(p).slot_size >= read_pos'
    BY <1>3, <2>1, <2>2
  <2> QED BY <1>0, <1>4, <2>3, <2>4
<1> QED BY <1>3, <1>4, <1>5, <1>6 DEF Parses

\* The slot in flight joins what is published: it is the only new start, for no
\* byte behind it claims to start a slot of its own.
LEMMA PublishStarts ==
  ASSUME TypeOK, FrontsOrdered, SlotsAreOld, UNCHANGED <<data, read_pos>>,
         commit_pos < write_pos, commit_pos' = write_pos,
         HeaderAt(commit_pos).at = commit_pos,
         commit_pos + HeaderAt(commit_pos).slot_size = write_pos
  PROVE  Starts' = Starts \cup {commit_pos}
<1>0. \A p : HeaderAt(p)' = HeaderAt(p)
  BY DEF HeaderAt
<1>1. /\ read_pos \in Nat /\ commit_pos \in Nat /\ write_pos \in Nat /\ read_pos <= commit_pos
      /\ HeaderAt(commit_pos).slot_size \in Nat
  BY ReadCell DEF TypeOK, FrontsOrdered
<1>2. HeaderAt(commit_pos).slot_size > 0
  BY <1>1
<1>3. ASSUME NEW p \in Nat, HeaderAt(p).at = p PROVE p <= commit_pos
  <2>1. p % Capacity \in 0 .. (Capacity - 1) /\ p # Junk
    BY Constants, ReadCell
  <2> QED BY <1>3, <2>1 DEF SlotsAreOld, HeaderAt
<1>4. \A p : p \in Starts' <=> p \in Starts \cup {commit_pos}
  BY <1>0, <1>1, <1>2, <1>3 DEF Starts
<1> QED BY <1>4

\* Moving commit_pos over the one unpublished slot keeps what is published parsing
\* if that slot carries its own size and, unless empty, its whole message.
LEMMA PublishIntact ==
  ASSUME TypeOK, FrontsOrdered, Parses, SlotsAreOld, UNCHANGED <<data, read_pos>>,
         commit_pos < write_pos, commit_pos' = write_pos,
         HeaderAt(commit_pos).at = commit_pos,
         commit_pos + HeaderAt(commit_pos).slot_size = write_pos,
         HeaderAt(commit_pos).payload_size > 0 => MessageIntact(commit_pos)
  PROVE  Parses'
<1>0. \A p : HeaderAt(p)' = HeaderAt(p) /\ MessageIntact(p)' = MessageIntact(p)
  BY DEF HeaderAt, MessageIntact
<1>1. Starts' = Starts \cup {commit_pos}
  BY PublishStarts
<1>2. read_pos' < commit_pos' => read_pos' \in Starts'
  BY <1>1 DEF Parses, FrontsOrdered, TypeOK
<1>3. ASSUME NEW p \in Starts'
      PROVE  /\ p + HeaderAt(p)'.slot_size \in Starts' \cup {commit_pos'}
             /\ HeaderAt(p)'.payload_size > 0 => MessageIntact(p)'
  BY <1>0, <1>1, <1>3 DEF Parses
<1> QED BY <1>2, <1>3 DEF Parses

-----------------------------------------------------------------------------
(* Types *)

\* The numbers the writer computes with, and their bounds.
LEMMA InvTypes ==
  ASSUME PayloadsFit, VarlenInv
  PROVE  /\ write_pos \in Nat /\ commit_pos \in Nat /\ read_pos \in Nat /\ whead \in Nat
         /\ last_position \in Nat /\ serial \in Nat /\ wread \in Nat
         /\ wpay \in Payloads \cup {0} /\ wpay \in Nat
         /\ Needed(wpay) \in Nat /\ Needed(wpay) >= HeaderSize + wpay /\ Needed(wpay) < U32
         /\ Needed(wpay) % Alignment = 0
         /\ WrapPadding(whead) \in 1 .. Capacity /\ WrapPadding(last_position) \in 1 .. Capacity
         /\ whead % Capacity \in 0 .. (Capacity - 1)
         /\ last_position % Capacity \in 0 .. (Capacity - 1)
         /\ (whead % Capacity) + WrapPadding(whead) = Capacity
         /\ (last_position % Capacity) + WrapPadding(last_position) = Capacity
<1>1. /\ write_pos \in Nat /\ commit_pos \in Nat /\ read_pos \in Nat /\ whead \in Nat
      /\ last_position \in Nat /\ serial \in Nat /\ wread \in Nat /\ wpay \in Payloads \cup {0}
  BY DEF VarlenInv, TypeOK
<1>2. wpay \in Nat
  BY <1>1, Constants
<1> QED BY <1>1, <1>2, NeededFacts, WrapFacts, Zenon

\* The two notify words.
LEMMA WordsTyped ==
  ASSUME TypeOK
  PROVE  /\ bump_notify_word(commit_seq) \in NotifyWords
         /\ bump_notify_word(read_wake_seq) \in NotifyWords
         /\ SetWaiter(commit_seq) \in NotifyWords /\ ClearWaiter(commit_seq) \in NotifyWords
         /\ SetWaiter(read_wake_seq) \in NotifyWords /\ ClearWaiter(read_wake_seq) \in NotifyWords
  BY WordsClosed DEF TypeOK

\* Every step of the writer keeps the types.
LEMMA WriterTypes ==
  ASSUME PayloadsFit, VarlenInv, WriterStep \/ WriterReattach
  PROVE  TypeOK'
<1> USE DEF sharedVars, memoryVars, writerVars, readerVars
<1>0. TypeOK
  BY DEF VarlenInv
<1>1. ASSUME NEW n \in Payloads, TryReserve(n) PROVE TypeOK'
  BY <1>0, <1>1 DEF TryReserve, TypeOK
<1>2. CASE LoadReadPos
  BY <1>0, <1>2 DEF LoadReadPos, TypeOK
<1>3. CASE Place
  <2>1. write_pos' \in Nat /\ whead' \in Nat
    BY <1>3, InvTypes, Constants DEF Place, Claim
  <2>2. /\ wpc' \in {"idle", "pad", "header", "load"} /\ wret' \in {wret, "full"} /\ wread' = 0
        /\ UNCHANGED <<commit_pos, read_pos, commit_seq, read_wake_seq, memoryVars,
                       pending, last_position, wpay, fill, serial, orphaned, rpc, rjunk>>
    BY <1>3 DEF Place, Claim
  <2> QED BY <1>0, <2>1, <2>2 DEF TypeOK
<1>4. CASE PadHeader
  <2>1. Cell(whead, WrapPadding(whead) % U32, 0, Junk) \in Cells
    <3>0. WrapPadding(whead) \in Nat /\ whead \in Nat /\ U32 \in Nat \ {0}
      BY InvTypes, Constants
    <3>1. WrapPadding(whead) % U32 \in Nat /\ whead \in Nat
      <4> DEFINE w == WrapPadding(whead)
      <4> HIDE DEF w
      <4>1. w % U32 \in 0 .. (U32 - 1)
        BY <3>0, DivMod DEF w
      <4> QED BY <3>0, <4>1 DEF w
    <3> QED BY <3>1, CellType, Zenon
  <2>2. data' \in [0 .. (Capacity - 1) -> Cells] /\ overrun' \in BOOLEAN
    BY <1>0, <1>4, <2>1, StoreType DEF PadHeader
  <2>3. /\ wpc' = "padpublish"
        /\ UNCHANGED <<sharedVars, pending, last_position, wread, whead, wpay, wret, fill, serial, orphaned, rpc, rjunk>>
    BY <1>4 DEF PadHeader
  <2> QED BY <1>0, <2>2, <2>3 DEF TypeOK
<1>5. CASE PadPublish
  <2>1. commit_pos' \in Nat
    BY <1>5, InvTypes, Constants DEF PadPublish
  <2> QED BY <1>0, <1>5, <2>1 DEF PadPublish, TypeOK
<1>6. CASE PadBump
  <2>1. whead' \in Nat
    BY <1>6, InvTypes, Constants DEF PadBump
  <2> QED BY <1>0, <1>6, <2>1, WordsTyped DEF PadBump, TypeOK
<1>7. CASE PadNotify
  BY <1>0, <1>7 DEF PadNotify, TypeOK
<1>8. CASE SlotHeader
  <2>1. Cell(whead, Needed(wpay), wpay, IF wpay = 0 THEN Junk ELSE serial) \in Cells
    BY InvTypes, CellType, Zenon
  <2>2. data' \in [0 .. (Capacity - 1) -> Cells] /\ overrun' \in BOOLEAN
    BY <1>0, <1>8, <2>1, StoreType DEF SlotHeader
  <2>3. /\ wpc' = "idle" /\ wret' = "ok" /\ fill' \in {"full", "empty"} /\ pending' = TRUE
        /\ last_position' = whead /\ serial' \in {serial, serial + 1} /\ whead' = 0
        /\ UNCHANGED <<sharedVars, wread, wpay, orphaned, rpc, rjunk>>
    BY <1>8 DEF SlotHeader
  <2> QED BY <1>0, <2>2, <2>3 DEF TypeOK
<1>9. CASE BeginCopy
  <2>1. JunkByte \in Cells
    BY CellType, Zenon DEF JunkByte
  <2>2. data' \in [0 .. (Capacity - 1) -> Cells] /\ overrun' \in BOOLEAN
    BY <1>0, <1>9, <2>1, StoreType DEF BeginCopy
  <2>3. /\ fill' = "partial"
        /\ UNCHANGED <<sharedVars, pending, last_position, wpc, wread, whead, wpay, wret, serial, orphaned, rpc, rjunk>>
    BY <1>9 DEF BeginCopy
  <2> QED BY <1>0, <2>2, <2>3 DEF TypeOK
<1>10. CASE EndCopy
  <2>1. serial - 1 \in Nat
    BY <1>10, InvTypes DEF EndCopy, VarlenInv, WriterBook
  <2>2. MessageByte(last_position, serial - 1) \in Cells
    BY <2>1, InvTypes, CellType, SMTT(30) DEF MessageByte
  <2>3. data' \in [0 .. (Capacity - 1) -> Cells] /\ overrun' \in BOOLEAN
    BY <1>0, <1>10, <2>2, StoreType DEF EndCopy
  <2>4. /\ fill' = "full"
        /\ UNCHANGED <<sharedVars, pending, last_position, wpc, wread, whead, wpay, wret, serial, orphaned, rpc, rjunk>>
    BY <1>10 DEF EndCopy
  <2> QED BY <1>0, <2>3, <2>4 DEF TypeOK
<1>11. ASSUME NEW position \in {last_position, read_pos, commit_pos}, Commit(position)
       PROVE  TypeOK'
  <2>1. position \in Nat /\ HeaderAt(position).slot_size \in Nat
    BY <1>0, InvTypes, ReadCell, Zenon
  <2>2. commit_pos' \in Nat
    BY <1>11, <2>1, InvTypes DEF Commit
  <2> QED BY <1>0, <1>11, <2>2, ZenonT(40) DEF Commit, TypeOK
<1>12. CASE CommitBump
  BY <1>0, <1>12, WordsTyped DEF CommitBump, TypeOK
<1>13. CASE CommitNotify
  BY <1>0, <1>13 DEF CommitNotify, TypeOK
<1>14. CASE WriterReattach
  BY <1>0, <1>14, Zenon DEF WriterReattach, TypeOK
<1> QED
  BY <1>1, <1>2, <1>3, <1>4, <1>5, <1>6, <1>7, <1>8, <1>9, <1>10, <1>11, <1>12, <1>13, <1>14
  DEF WriterStep

\* What the reader takes for a slot size is a number.
LEMMA SlotSizeType ==
  ASSUME TypeOK
  PROVE  SlotSize \in Nat
<1>1. read_pos \in Nat /\ rjunk \in Nat
  BY DEF TypeOK
<1>2. HeaderAt(read_pos).slot_size \in Nat
  BY <1>1, ReadCell
<1> QED BY <1>1, <1>2 DEF SlotSize

\* What read() decides: a slot that it goes on with is not empty and ends where
\* commit_pos was, or before.
LEMMA ReadDecision ==
  ASSUME TypeOK, Read
  PROVE  /\ rpc' \in {"idle", "skip", "handler"} /\ rjunk' \in Nat
         /\ UNCHANGED <<sharedVars, memoryVars, writerVars>>
         /\ rpc' # "idle" => SlotSize' > 0 /\ read_pos + SlotSize' <= commit_pos
<1>0. read_pos \in Nat /\ commit_pos \in Nat /\ HeaderAt(read_pos).slot_size \in Nat
  BY ReadCell DEF TypeOK
<1>1. UNCHANGED <<sharedVars, memoryVars, writerVars>>
  BY DEF Read
<1>2. HeaderAt(read_pos)' = HeaderAt(read_pos)
  BY <1>1 DEF HeaderAt, sharedVars, memoryVars
<1>3. CASE rpc' = "idle" /\ rjunk' = 0
  BY <1>1, <1>3
<1>4. CASE ~(rpc' = "idle" /\ rjunk' = 0)
  <2>1. PICK slot \in ParsesAs(HeaderAt(read_pos)) :
          /\ commit_pos > read_pos
          /\ ~(slot.slot_size = 0 \/ commit_pos - read_pos < slot.slot_size)
          /\ rpc' = IF slot.payload_size = 0 THEN "skip" ELSE "handler"
          /\ rjunk' = IF HeaderAt(read_pos).slot_size > 0 THEN 0 ELSE slot.slot_size
    BY <1>4 DEF Read
  <2>2. /\ slot.slot_size \in Nat
        /\ HeaderAt(read_pos).slot_size > 0 => slot.slot_size = HeaderAt(read_pos).slot_size
    BY <1>0, <2>1 DEF ParsesAs
  <2>3. SlotSize' = slot.slot_size
    BY <1>0, <1>2, <2>1, <2>2 DEF SlotSize
  <2> QED BY <1>0, <1>1, <2>1, <2>2, <2>3
<1> QED BY <1>3, <1>4

\* Every step of the reader keeps the types.
LEMMA ReaderTypes ==
  ASSUME VarlenInv, ReaderStep \/ HandlerDeclines \/ ReaderReattach \/ WaiterFlag \/ UNCHANGED vars
  PROVE  TypeOK'
<1> USE DEF sharedVars, memoryVars, writerVars, readerVars
<1>0. TypeOK
  BY DEF VarlenInv
<1>1. CASE Read
  <2>1. /\ rpc' \in {"idle", "skip", "handler"} /\ rjunk' \in Nat
        /\ UNCHANGED <<sharedVars, memoryVars, writerVars>>
    BY <1>0, <1>1, ReadDecision
  <2> QED BY <1>0, <2>1 DEF TypeOK
<1>2. CASE SkipPadding \/ HandlerAccepts
  <2>1. /\ read_pos' = read_pos + SlotSize /\ rpc' \in {"skipbump", "bump"} /\ rjunk' = 0
        /\ UNCHANGED <<write_pos, commit_pos, commit_seq, read_wake_seq, memoryVars, writerVars>>
    BY <1>2 DEF SkipPadding, HandlerAccepts, Advance
  <2>2. read_pos \in Nat /\ SlotSize \in Nat
    BY <1>0, SlotSizeType DEF TypeOK
  <2>3. read_pos' \in Nat
    BY <2>1, <2>2
  <2> QED BY <1>0, <2>1, <2>3 DEF TypeOK
<1>3. CASE AdvanceBump
  BY <1>0, <1>3, WordsTyped DEF AdvanceBump, TypeOK
<1>4. CASE AdvanceNotify \/ HandlerDeclines \/ ReaderReattach
  BY <1>0, <1>4, SMTT(30) DEF AdvanceNotify, HandlerDeclines, ReaderReattach, TypeOK
<1>5. CASE WaiterFlag
  BY <1>0, <1>5, WordsTyped DEF WaiterFlag, TypeOK
<1>6. CASE UNCHANGED vars
  BY <1>0, <1>6 DEF vars, TypeOK
<1> QED
  BY <1>1, <1>2, <1>3, <1>4, <1>5, <1>6 DEF ReaderStep

-----------------------------------------------------------------------------
(* Steps that leave the fronts and the memory alone *)

\* What is about the fronts and the memory only survives a step that changes
\* neither.
LEMMA Quiet ==
  ASSUME VarlenInv, UNCHANGED <<write_pos, commit_pos, read_pos, data>>
  PROVE  FrontsOrdered' /\ OnAlignment' /\ (~orphaned => SlotsAreOld' /\ Parses')
<1>1. FrontsOrdered' /\ OnAlignment'
  BY DEF VarlenInv, FrontsOrdered, OnAlignment
<1>2. ~orphaned => SlotsAreOld'
  BY DEF VarlenInv, SlotsAreOld
<1>3. ~orphaned => Parses'
  BY KeptIntact DEF VarlenInv, PublishedKept
<1> QED BY <1>1, <1>2, <1>3

\* The slot the reader is at stays what it is while the writer works elsewhere.
LEMMA ReaderUndisturbed ==
  ASSUME VarlenInv, UNCHANGED <<read_pos, rpc, rjunk>>, PublishedKept,
         commit_pos' \in Nat, commit_pos <= commit_pos'
  PROVE  ReaderBook'
<1> SUFFICES ASSUME rpc \in {"skip", "handler"}
             PROVE  SlotSize' > 0 /\ read_pos + SlotSize' <= commit_pos'
  BY DEF ReaderBook
<1>1. read_pos \in Nat /\ commit_pos \in Nat /\ SlotSize \in Nat
  BY SlotSizeType DEF VarlenInv, TypeOK
<1>2. SlotSize > 0 /\ read_pos + SlotSize <= commit_pos
  BY DEF VarlenInv, ReaderBook
<1>3. read_pos \in read_pos .. (commit_pos - 1)
  BY <1>1, <1>2
<1>4. HeaderAt(read_pos)' = HeaderAt(read_pos)
  BY <1>3 DEF PublishedKept, HeaderAt
<1>5. SlotSize' = SlotSize
  BY <1>4 DEF SlotSize
<1> QED BY <1>1, <1>2, <1>5

\* The reader's steps do not touch the writer's book.
LEMMA WriterUntouched ==
  ASSUME VarlenInv, UNCHANGED <<write_pos, commit_pos, data, writerVars>>,
         read_pos \in Nat, read_pos' \in Nat, read_pos <= read_pos'
  PROVE  WriterBook' /\ FlightBook'
<1>1. UNCHANGED <<pending, last_position, wpc, wread, whead, wpay, wret, fill, serial, orphaned>>
  BY DEF writerVars
<1>2. WriterBook'
  <2>1. wread \in Nat
    BY DEF VarlenInv, TypeOK
  <2>2. wpc = "place" => wread <= read_pos'
    BY <2>1 DEF VarlenInv, WriterBook
  <2> QED BY <1>1, <2>2 DEF VarlenInv, WriterBook
<1>3. FlightBook'
  BY <1>1 DEF VarlenInv, FlightBook, HeaderAt
<1> QED BY <1>2, <1>3

\* The reader keeps the invariant: it moves over published bytes only, and as
\* long as they parse, from one slot start to the next.
LEMMA ReaderKeepsInv ==
  ASSUME VarlenInv, ReaderStep \/ HandlerDeclines \/ ReaderReattach \/ WaiterFlag \/ UNCHANGED vars
  PROVE  VarlenInv'
<1>0. TypeOK' /\ TypeOK /\ read_pos \in Nat /\ commit_pos \in Nat /\ write_pos \in Nat
  BY ReaderTypes DEF VarlenInv, TypeOK
<1>1. CASE SkipPadding \/ HandlerAccepts
  <2>1. /\ rpc \in {"skip", "handler"} /\ rpc' \in {"skipbump", "bump"}
        /\ read_pos' = read_pos + SlotSize
        /\ UNCHANGED <<write_pos, commit_pos, data, writerVars>>
    BY <1>1 DEF SkipPadding, HandlerAccepts, Advance, memoryVars
  <2>2. SlotSize \in Nat /\ SlotSize > 0 /\ read_pos + SlotSize <= commit_pos
    BY <2>1, SlotSizeType DEF VarlenInv, ReaderBook
  <2>3. read_pos < commit_pos /\ read_pos' \in Nat /\ read_pos <= read_pos' /\ read_pos' <= commit_pos
    BY <1>0, <2>1, <2>2
  <2>4. ~orphaned => Parses'
    <3> SUFFICES ASSUME ~orphaned PROVE Parses'
      OBVIOUS
    <3>1. Parses
      BY DEF VarlenInv
    <3>2. SlotSize = HeaderAt(read_pos).slot_size
      BY <2>3, <3>1 DEF Parses, Starts, SlotSize
    <3> QED BY <1>0, <2>1, <2>3, <3>1, <3>2, AdvanceIntact
  <2>5. FrontsOrdered'
    BY <1>0, <2>1, <2>3, Constants DEF VarlenInv, FrontsOrdered
  <2>6. WriterBook' /\ FlightBook'
    BY <1>0, <2>1, <2>3, WriterUntouched
  <2>7. OnAlignment' /\ (~orphaned => SlotsAreOld')
    BY <2>1 DEF VarlenInv, SlotsAreOld, OnAlignment
  <2>8. ReaderBook' /\ orphaned' = orphaned
    BY <2>1 DEF ReaderBook, writerVars
  <2> QED BY <1>0, <2>4, <2>5, <2>6, <2>7, <2>8 DEF VarlenInv
<1>2. CASE Read \/ AdvanceBump \/ AdvanceNotify \/ HandlerDeclines \/ ReaderReattach
           \/ WaiterFlag \/ UNCHANGED vars
  <2>1. UNCHANGED <<write_pos, commit_pos, read_pos, data, writerVars>>
    BY <1>2 DEF Read, AdvanceBump, AdvanceNotify, HandlerDeclines, ReaderReattach, WaiterFlag,
      vars, sharedVars, memoryVars
  <2>2. WriterBook' /\ FlightBook'
    BY <1>0, <2>1, WriterUntouched
  <2>3. ReaderBook'
    <3>1. CASE Read
      <4>1. rpc' # "idle" => SlotSize' > 0 /\ read_pos + SlotSize' <= commit_pos
        BY <1>0, <3>1, ReadDecision
      <4> QED BY <2>1, <4>1 DEF ReaderBook
    <3>2. CASE UNCHANGED <<rpc, rjunk>>
      BY <1>0, <2>1, <3>2, ReaderUndisturbed DEF PublishedKept
    <3>3. CASE rpc' \notin {"skip", "handler"}
      BY <3>3 DEF ReaderBook
    <3> QED BY <1>2, <3>1, <3>2, <3>3 DEF AdvanceBump, AdvanceNotify, HandlerDeclines, ReaderReattach,
          WaiterFlag, vars, readerVars
  <2>4. orphaned' = orphaned
    BY <2>1 DEF writerVars
  <2> QED BY <1>0, <2>1, <2>2, <2>3, <2>4, Quiet DEF VarlenInv
<1> QED BY <1>1, <1>2 DEF ReaderStep

\* The writer's steps that move no front and store nothing in the ring.
LEMMA WriterQuietKeepsInv ==
  ASSUME PayloadsFit, VarlenInv,
         \/ \E n \in Payloads : TryReserve(n)
         \/ LoadReadPos \/ PadBump \/ PadNotify \/ CommitBump \/ CommitNotify \/ WriterReattach
  PROVE  VarlenInv'
<1>0. TypeOK' /\ read_pos \in Nat /\ commit_pos \in Nat /\ orphaned \in BOOLEAN
  BY WriterTypes DEF WriterStep, VarlenInv, TypeOK
<1>1. UNCHANGED <<write_pos, commit_pos, read_pos, data, rpc, rjunk>>
  BY DEF TryReserve, LoadReadPos, PadBump, PadNotify, CommitBump, CommitNotify, WriterReattach,
    sharedVars, memoryVars, readerVars
<1>2. FrontsOrdered' /\ OnAlignment' /\ (~orphaned => SlotsAreOld' /\ Parses')
  BY <1>1, Quiet
<1>3. ReaderBook'
  BY <1>0, <1>1, ReaderUndisturbed DEF PublishedKept
<1>4. WriterBook /\ FlightBook
  BY DEF VarlenInv
<1>5. WriterBook' /\ FlightBook' /\ (orphaned => orphaned')
  <2>1. ASSUME NEW n \in Payloads, TryReserve(n)
        PROVE  WriterBook' /\ FlightBook' /\ (orphaned => orphaned')
    <3>1. CASE pending
      <4>1. UNCHANGED <<wpc, whead, wpay, wret, pending, last_position, wread, fill, serial, orphaned>>
        BY <2>1, <3>1 DEF TryReserve
      <4> QED BY <1>1, <1>4, <4>1 DEF WriterBook, FlightBook, HeaderAt
    <3>2. CASE ~pending
      <4>1. /\ UNCHANGED <<pending, last_position, wread, fill, serial, orphaned>> /\ wpc = "idle"
            /\ \/ wpc' = "idle"
               \/ wpc' = "load" /\ whead' = write_pos
        BY <2>1, <3>2 DEF TryReserve
      <4>2. fill = "none"
        BY <1>4, <3>2 DEF WriterBook
      <4> QED BY <1>1, <1>4, <3>2, <4>1, <4>2 DEF WriterBook, FlightBook
    <3> QED BY <3>1, <3>2
  <2>2. CASE LoadReadPos
    <3>1. /\ UNCHANGED <<pending, last_position, whead, wpay, wret, fill, serial, orphaned>>
          /\ wpc = "load" /\ wpc' = "place" /\ wread' = read_pos
      BY <2>2 DEF LoadReadPos
    <3>2. ~pending /\ fill = "none"
      BY <1>4, <3>1 DEF WriterBook
    <3> QED BY <1>0, <1>1, <1>4, <3>1, <3>2 DEF WriterBook, FlightBook
  <2>3. CASE PadBump
    <3>1. /\ UNCHANGED <<pending, last_position, wread, wpay, wret, fill, serial, orphaned>>
          /\ wpc = "padbump" /\ wpc' \in {"padnotify", "load"}
          /\ whead' = whead + WrapPadding(whead)
      BY <2>3 DEF PadBump
    <3>2. ~pending /\ fill = "none"
      BY <1>4, <3>1 DEF WriterBook
    <3>3. whead' = write_pos /\ (~orphaned => write_pos = commit_pos)
      BY <1>4, <3>1, <3>2 DEF WriterBook
    <3> QED BY <1>1, <3>1, <3>2, <3>3 DEF WriterBook, FlightBook
  <2>4. CASE PadNotify \/ CommitBump \/ CommitNotify
    <3>1. /\ UNCHANGED <<pending, last_position, wread, whead, wpay, wret, fill, serial, orphaned>>
          /\ \/ wpc = "padnotify" /\ wpc' = "load"
             \/ wpc \in {"bump", "notify"} /\ wpc' \in {"notify", "idle"}
      BY <2>4 DEF PadNotify, CommitBump, CommitNotify
    <3>2. ~pending /\ fill = "none"
      BY <1>4, <3>1 DEF WriterBook
    <3> QED BY <1>1, <1>4, <3>1, <3>2 DEF WriterBook, FlightBook
  <2>5. CASE WriterReattach
    <3>1. /\ pending' = FALSE /\ wpc' = "idle" /\ fill' = "none"
          /\ ~orphaned' => write_pos = commit_pos
          /\ orphaned => orphaned'
      BY <1>0, <2>5, Zenon DEF WriterReattach
    <3> QED BY <1>1, <3>1 DEF WriterBook, FlightBook
  <2> QED BY <2>1, <2>2, <2>3, <2>4, <2>5
<1> QED BY <1>0, <1>2, <1>3, <1>5 DEF VarlenInv

-----------------------------------------------------------------------------
(* Steps that move write_pos or commit_pos *)

\* Reserving, for a slot or for the padding before it: the test against a stale
\* read_pos leaves the writer within a lap of the current one.
LEMMA PlaceKeepsInv ==
  ASSUME PayloadsFit, VarlenInv, Place
  PROVE  VarlenInv'
<1> DEFINE W == WrapPadding(whead)  N == Needed(wpay)
<1>0. /\ TypeOK' /\ Capacity \in Nat /\ HeaderSize \in Nat \ {0} /\ Alignment \in Nat \ {0}
      /\ FrontsOrdered /\ WriterBook
  BY WriterTypes, Constants DEF WriterStep, VarlenInv
<1>1. /\ write_pos \in Nat /\ commit_pos \in Nat /\ read_pos \in Nat /\ whead \in Nat
      /\ wread \in Nat /\ N \in Nat /\ N >= HeaderSize + wpay /\ wpay \in Nat
      /\ N % Alignment = 0 /\ W \in 1 .. Capacity
  BY InvTypes
<1>2. /\ wpc = "place"
      /\ UNCHANGED <<commit_pos, read_pos, data, pending, last_position, wpay,
                     fill, serial, orphaned, rpc, rjunk>>
  BY DEF Place, memoryVars, readerVars
<1>3. /\ whead = write_pos /\ wread <= read_pos /\ commit_pos <= write_pos
      /\ (~orphaned => write_pos = commit_pos)
      /\ ~pending /\ fill = "none"
  BY <1>0, <1>2 DEF WriterBook, FrontsOrdered
<1>4. \/ wpc' = "idle" /\ write_pos' = write_pos
      \/ /\ wpc' = "pad" /\ write_pos' = whead + W /\ W < N /\ (whead - wread) + N <= Capacity
         /\ whead' = whead
      \/ /\ wpc' = "header" /\ write_pos' = whead + N /\ N <= W /\ (whead - wread) + N <= Capacity
         /\ whead' = whead
  <2> HIDE DEF W, N
  <2>1. /\ ~Fits \/ (whead - wread) + N <= Capacity
        /\ WrapPadding(whead) = W /\ Needed(wpay) = N
    BY DEF Fits, W, N
  <2> QED BY <1>0, <1>1, <1>3, <2>1 DEF Place, Claim
<1> HIDE DEF W, N
<1>5. write_pos <= write_pos' /\ write_pos' <= read_pos + Capacity
  BY <1>0, <1>1, <1>3, <1>4 DEF FrontsOrdered
<1>6. FrontsOrdered'
  BY <1>0, <1>1, <1>2, <1>3, <1>5 DEF FrontsOrdered, TypeOK
<1>7. ~orphaned => Parses'
  BY <1>2, KeptIntact DEF VarlenInv, PublishedKept
<1>8. ~orphaned => SlotsAreOld'
  <2> SUFFICES ASSUME ~orphaned, NEW i \in 0 .. (Capacity - 1), data[i].at # Junk
               PROVE  data[i].at <= commit_pos /\ data[i].at < write_pos'
    BY <1>2 DEF SlotsAreOld
  <2>1. data[i].at \in Nat /\ data[i].at <= commit_pos /\ data[i].at < write_pos
    <3>1. data[i] \in Cells
      BY DEF VarlenInv, TypeOK
    <3> QED BY <3>1 DEF VarlenInv, SlotsAreOld, Cells
  <2>2. write_pos' \in Nat
    BY <1>0 DEF TypeOK
  <2> QED BY <1>1, <1>5, <2>1, <2>2
<1>9. OnAlignment'
  <2>0. write_pos % Alignment = 0 /\ commit_pos % Alignment = 0
    BY DEF VarlenInv, OnAlignment
  <2>1. (whead + W) % Alignment = 0
    BY <1>1, <1>3, <2>0, WrapAligned DEF W
  <2>2. (whead + N) % Alignment = 0
    BY <1>0, <1>1, <1>3, <2>0, ModAdd, Zenon
  <2> QED BY <1>2, <1>4, <2>0, <2>1, <2>2 DEF OnAlignment
<1>10. WriterBook'
  <2>1. CASE wpc' = "idle"
    BY <1>2, <1>3, <1>4, <2>1 DEF WriterBook
  <2>2. CASE wpc' # "idle"
    <3>1. whead % Alignment = 0
      BY <1>3 DEF VarlenInv, OnAlignment
    <3> QED BY <1>2, <1>3, <1>4, <2>2, <3>1 DEF WriterBook, W, N
  <2> QED BY <2>1, <2>2
<1>11. FlightBook'
  BY <1>2, <1>3, <1>4 DEF FlightBook
<1>12. ReaderBook'
  BY <1>1, <1>2, ReaderUndisturbed DEF PublishedKept
<1> QED BY <1>0, <1>2, <1>6, <1>7, <1>8, <1>9, <1>10, <1>11, <1>12 DEF VarlenInv

\* A step that moves commit_pos to write_pos keeps the order of the fronts, and
\* unless a writer left a slot behind, all slots are then published.
LEMMA PublishedUpTo ==
  ASSUME VarlenInv, UNCHANGED <<write_pos, read_pos, data, rpc, rjunk>>, commit_pos' = write_pos
  PROVE  FrontsOrdered' /\ OnAlignment' /\ ReaderBook' /\ (~orphaned => SlotsAreOld')
<1>0. write_pos \in Nat /\ commit_pos \in Nat /\ read_pos \in Nat /\ Capacity \in Nat /\ FrontsOrdered
  BY Constants DEF VarlenInv, TypeOK
<1>1. FrontsOrdered' /\ OnAlignment'
  BY <1>0 DEF FrontsOrdered, OnAlignment, VarlenInv
<1>2. ReaderBook'
  BY <1>0, ReaderUndisturbed DEF PublishedKept, FrontsOrdered
<1>3. ~orphaned => SlotsAreOld'
  <2> SUFFICES ASSUME ~orphaned, NEW i \in 0 .. (Capacity - 1), data[i].at # Junk
               PROVE  data[i].at <= write_pos /\ data[i].at < write_pos
    BY DEF SlotsAreOld
  <2>1. data[i].at \in Nat /\ data[i].at < write_pos
    <3>1. data[i] \in Cells
      BY SMTT(30) DEF VarlenInv, TypeOK
    <3> QED BY <3>1 DEF VarlenInv, SlotsAreOld, Cells
  <2> QED BY <1>0, <2>1
<1> QED BY <1>1, <1>2, <1>3

\* The padding slot becomes visible.
LEMMA PadPublishKeepsInv ==
  ASSUME PayloadsFit, VarlenInv, PadPublish
  PROVE  VarlenInv'
<1> DEFINE W == WrapPadding(whead)
<1>0. TypeOK' /\ FrontsOrdered /\ WriterBook /\ FlightBook
  BY WriterTypes DEF WriterStep, VarlenInv
<1>1. write_pos \in Nat /\ commit_pos \in Nat /\ whead \in Nat /\ W \in Nat /\ W > 0
  BY InvTypes, Constants
<1>2. /\ wpc = "padpublish" /\ wpc' = "padbump" /\ commit_pos' = whead + W
      /\ UNCHANGED <<write_pos, read_pos, data, pending, last_position, wread, whead, wpay,
                     fill, serial, orphaned, rpc, rjunk>>
  BY DEF PadPublish, memoryVars, readerVars
<1>3. /\ write_pos = whead + W /\ ~pending /\ fill = "none"
      /\ (~orphaned => whead = commit_pos) /\ HeaderAt(whead) = Cell(whead, W, 0, Junk)
  BY <1>0, <1>2 DEF WriterBook, FlightBook
<1>4. /\ HeaderAt(whead).at = whead /\ HeaderAt(whead).slot_size = W
      /\ HeaderAt(whead).payload_size = 0
  <2> HIDE DEF W
  <2> QED BY <1>3 DEF Cell
<1> HIDE DEF W
<1>5. commit_pos' = write_pos
  BY <1>2, <1>3
<1>6. ~orphaned => Parses'
  <2> SUFFICES ASSUME ~orphaned PROVE Parses'
    OBVIOUS
  <2>1. commit_pos < write_pos
    BY <1>1, <1>3
  <2> QED BY <1>2, <1>3, <1>4, <1>5, <2>1, PublishIntact DEF VarlenInv
<1>7. FrontsOrdered' /\ OnAlignment' /\ ReaderBook' /\ (~orphaned => SlotsAreOld')
  BY <1>2, <1>5, PublishedUpTo
<1>8. WriterBook'
  BY <1>2, <1>3, <1>5 DEF WriterBook, W
<1>9. FlightBook'
  BY <1>2, <1>3 DEF FlightBook
<1> QED BY <1>0, <1>2, <1>6, <1>7, <1>8, <1>9 DEF VarlenInv

\* commit makes the filled slot visible, or does nothing.
LEMMA CommitKeepsInv ==
  ASSUME PayloadsFit, VarlenInv, NEW position \in {last_position, read_pos, commit_pos},
         Commit(position)
  PROVE  VarlenInv'
<1> DEFINE N == Needed(wpay)  num == IF wpay = 0 THEN Junk ELSE serial - 1
<1>0. TypeOK' /\ TypeOK /\ Capacity \in Nat /\ HeaderSize \in Nat \ {0} /\ FrontsOrdered /\ WriterBook /\ FlightBook
  BY WriterTypes, Constants DEF WriterStep, VarlenInv
<1>1. /\ write_pos \in Nat /\ commit_pos \in Nat /\ read_pos \in Nat /\ last_position \in Nat
      /\ wpay \in Nat /\ N \in Nat /\ N >= HeaderSize + wpay /\ serial \in Nat
      /\ last_position % Capacity \in 0 .. (Capacity - 1)
      /\ (last_position % Capacity) + WrapPadding(last_position) = Capacity
      /\ WrapPadding(last_position) \in 1 .. Capacity
  BY InvTypes
<1>2. CASE ~pending \/ position # last_position
  <2>1. /\ UNCHANGED <<commit_pos, pending, wpc, fill, write_pos, read_pos, data,
                       last_position, wread, whead, wpay, wret, serial, orphaned, rpc, rjunk>>
    BY <1>2, SMTT(30) DEF Commit, memoryVars, readerVars
  <2>2. WriterBook' /\ FlightBook'
    BY <1>0, <2>1, Zenon DEF WriterBook, FlightBook, HeaderAt
  <2>3. ReaderBook'
    BY <1>1, <2>1, ReaderUndisturbed DEF PublishedKept
  <2> QED BY <1>0, <2>1, <2>2, <2>3, Quiet DEF VarlenInv
<1>3. CASE pending /\ position = last_position
  <2>1. /\ commit_pos' = last_position + HeaderAt(last_position).slot_size
        /\ pending' = FALSE /\ fill' = "none" /\ wpc' = "bump"
        /\ UNCHANGED <<write_pos, read_pos, data, last_position, wread, whead, serial, orphaned,
                       rpc, rjunk>>
    BY <1>3, SMTT(30) DEF Commit, memoryVars, readerVars
  <2>2. /\ (~orphaned => last_position = commit_pos) /\ write_pos = last_position + N
        /\ N <= WrapPadding(last_position) /\ fill = "full" /\ (wpay > 0 => serial > 0)
    BY <1>0, <1>3 DEF WriterBook, Commit, TypeOK
  <2>3. num \in Nat \cup {Junk}
    BY <1>1, <2>2, SMTT(30)
  <2>4. /\ \A k \in 0 .. (HeaderSize - 1) :
             data[(last_position % Capacity) + k] = Cell(last_position, N, wpay, num)
        /\ \A k \in HeaderSize .. (HeaderSize + wpay - 1) :
             data[(last_position % Capacity) + k] = MessageByte(last_position, serial - 1)
    BY <1>0, <1>3, <2>2 DEF FlightBook
  <2>5. HeaderAt(last_position) = Cell(last_position, N, wpay, num)
    <3>1. 0 \in 0 .. (HeaderSize - 1) /\ (last_position % Capacity) + 0 = last_position % Capacity
      BY <1>0, <1>1
    <3> QED BY <2>4, <3>1 DEF HeaderAt
  <2>6. /\ HeaderAt(last_position).at = last_position /\ HeaderAt(last_position).slot_size = N
        /\ HeaderAt(last_position).payload_size = wpay /\ HeaderAt(last_position).num = num
    <3> HIDE DEF N, num
    <3> QED BY <2>5 DEF Cell
  <2>7. last_position < write_pos /\ commit_pos' = write_pos
    <3> HIDE DEF N
    <3> QED BY <1>0, <1>1, <2>1, <2>2, <2>6, SMTT(30)
  <2>8. ASSUME wpay > 0 PROVE MessageIntact(last_position)
    <3> DEFINE c == last_position % Capacity
    <3>1. num = serial - 1 /\ serial - 1 \in Nat
      BY <1>1, <2>2, <2>8
    <3>2. ASSUME NEW k \in 0 .. (HeaderSize + wpay - 1)
          PROVE  data[c + k].at = last_position /\ data[c + k].num = num
      <4>1. CASE k \in 0 .. (HeaderSize - 1)
        <5> HIDE DEF N, num
        <5>1. data[c + k] = Cell(last_position, N, wpay, num)
          BY <2>4, <4>1, SMTT(30)
        <5> QED BY <5>1 DEF Cell
      <4>2. CASE k \in HeaderSize .. (HeaderSize + wpay - 1)
        <5>1. data[c + k] = Cell(last_position, 0, 0, serial - 1)
          BY <2>4, <4>2 DEF MessageByte
        <5>2. data[c + k] = Cell(last_position, 0, 0, num)
          BY <3>1, <5>1
        <5> DEFINE byte == data[c + k]
        <5>3. byte = Cell(last_position, 0, 0, num)
          BY <5>2
        <5> HIDE DEF N, num, byte
        <5>4. byte.at = last_position /\ byte.num = num
          BY <5>3 DEF Cell
        <5> QED BY <5>4 DEF byte
      <4> QED BY <1>0, <1>1, <4>1, <4>2, SMTT(30)
    <3>3. c + HeaderSize + wpay <= Capacity /\ HeaderSize + wpay <= N
      BY <1>0, <1>1, <2>2
    <3> HIDE DEF N, num, c
    <3> QED BY <2>6, <3>2, <3>3 DEF MessageIntact, c
  <2> HIDE DEF N, num
  <2>9. ~orphaned => Parses'
    <3> SUFFICES ASSUME ~orphaned PROVE Parses'
      OBVIOUS
    <3>1. /\ commit_pos < write_pos
          /\ HeaderAt(commit_pos).at = commit_pos /\ commit_pos + HeaderAt(commit_pos).slot_size = write_pos
          /\ (HeaderAt(commit_pos).payload_size > 0 => MessageIntact(commit_pos))
      BY <2>2, <2>6, <2>7, <2>8
    <3> QED BY <2>1, <2>7, <3>1, PublishIntact DEF VarlenInv
  <2>10. FrontsOrdered' /\ OnAlignment' /\ ReaderBook' /\ (~orphaned => SlotsAreOld')
    BY <2>1, <2>7, PublishedUpTo
  <2>11. WriterBook' /\ FlightBook'
    BY <2>1, <2>7 DEF WriterBook, FlightBook
  <2> QED BY <1>0, <2>1, <2>9, <2>10, <2>11 DEF VarlenInv
<1> QED BY <1>2, <1>3

-----------------------------------------------------------------------------
(* Steps that write into the slot in flight *)

\* What every store into it preserves; h is where it starts.
LEMMA StoreInFlight ==
  ASSUME VarlenInv, NEW h \in Nat, commit_pos <= h, h < write_pos, ~orphaned => h = commit_pos,
         NEW d \in Nat, NEW n \in Nat, NEW cell \in Cells,
         cell.at \in {Junk, h}, Store((h % Capacity) + d, n, cell),
         \A j \in d .. (d + n - 1) : (h % Capacity) + j < Capacity => h + j < write_pos,
         UNCHANGED <<write_pos, commit_pos, read_pos, rpc, rjunk>>
  PROVE  /\ FrontsOrdered' /\ OnAlignment' /\ ReaderBook' /\ PublishedKept
         /\ ~orphaned => SlotsAreOld' /\ Parses'
<1>0. TypeOK /\ FrontsOrdered /\ commit_pos \in Nat
  BY DEF VarlenInv, TypeOK
<1>1. PublishedKept
  BY <1>0, StoreKeepsPublished, SMTT(30)
<1>2. ~orphaned => Parses'
  BY <1>0, <1>1, KeptIntact DEF VarlenInv
<1>3. ~orphaned => SlotsAreOld'
  <2> SUFFICES ASSUME ~orphaned, NEW i \in 0 .. (Capacity - 1), data'[i].at # Junk
               PROVE  data'[i].at <= commit_pos /\ data'[i].at < write_pos
    BY DEF SlotsAreOld
  <2> DEFINE from == (h % Capacity) + d
  <2>1. from \in Nat
    <3>1. h % Capacity \in 0 .. (Capacity - 1)
      BY <1>0, ReadCell
    <3> QED BY <3>1, Constants
  <2>2. data'[i] = IF i >= from /\ i < from + n THEN cell ELSE data[i]
    <3> HIDE DEF from
    <3> QED BY <1>0, <2>1, StoredCell DEF from
  <2>3. data'[i] = cell \/ data'[i] = data[i]
    BY <2>2
  <2>4. data[i].at # Junk => data[i].at <= commit_pos /\ data[i].at < write_pos
    BY DEF VarlenInv, SlotsAreOld
  <2>5. cell.at # Junk => cell.at <= commit_pos /\ cell.at < write_pos
    BY <1>0
  <2> QED BY <2>3, <2>4, <2>5
<1>4. FrontsOrdered' /\ OnAlignment'
  BY DEF VarlenInv, FrontsOrdered, OnAlignment
<1>5. ReaderBook'
  BY <1>0, <1>1, ReaderUndisturbed
<1> QED BY <1>1, <1>2, <1>3, <1>4, <1>5

\* Storing the padding header touches nothing that is published, even where it
\* reaches past the ring end.
LEMMA PadHeaderKeepsInv ==
  ASSUME PayloadsFit, VarlenInv, PadHeader
  PROVE  VarlenInv' /\ PublishedKept
<1> DEFINE W == WrapPadding(whead)  c == whead % Capacity  cell == Cell(whead, W, 0, Junk)
<1>0. /\ TypeOK' /\ TypeOK /\ WriterBook /\ Capacity \in Nat /\ HeaderSize \in Nat \ {0}
      /\ U32 \in Nat \ {0}
  BY WriterTypes, Constants DEF WriterStep, VarlenInv
<1>1. /\ wpc = "pad" /\ wpc' = "padpublish"
      /\ Store(whead % Capacity, HeaderSize, Cell(whead, W % U32, 0, Junk))
      /\ UNCHANGED <<write_pos, commit_pos, read_pos, pending, last_position, wread, whead, wpay,
                     fill, serial, orphaned, rpc, rjunk>>
  BY DEF PadHeader, sharedVars, readerVars
<1>2. /\ commit_pos <= whead /\ (~orphaned => whead = commit_pos)
      /\ write_pos = whead + W /\ W < Needed(wpay) /\ ~pending /\ fill = "none"
  BY <1>0, <1>1 DEF WriterBook
<1>3. /\ whead \in Nat /\ write_pos \in Nat /\ W \in Nat /\ W > 0
      /\ c \in 0 .. (Capacity - 1) /\ c + W = Capacity
      /\ Needed(wpay) \in Nat /\ Needed(wpay) < U32
  BY <1>0, <1>2, InvTypes
\* The cast of wrap_padding to uint32_t keeps it: it is smaller than a slot.
<1>4. Store(c, HeaderSize, cell)
  <2> HIDE DEF W
  <2>1. W \in 0 .. (U32 - 1)
    BY <1>0, <1>2, <1>3
  <2>2. W % U32 = W
    BY <1>0, <2>1, SmallMod
  <2> QED BY <1>1, <2>2
<1>5. cell \in Cells /\ cell.at = whead
  <2> HIDE DEF W
  <2>1. cell \in Cells
    BY <1>3, CellType, Zenon
  <2> QED BY <2>1 DEF Cell
<1>6. c + 0 = c /\ 0 + HeaderSize - 1 = HeaderSize - 1
  BY <1>0, <1>3
<1> HIDE DEF W, c, cell
<1>7. \A j \in 0 .. (0 + HeaderSize - 1) : c + j < Capacity => whead + j < write_pos
  BY <1>0, <1>2, <1>3
<1>8. /\ FrontsOrdered' /\ OnAlignment' /\ ReaderBook' /\ PublishedKept
      /\ ~orphaned => SlotsAreOld' /\ Parses'
  <2>1. whead < write_pos
    BY <1>2, <1>3
  <2>2. Store((whead % Capacity) + 0, HeaderSize, cell)
    BY <1>4, <1>6 DEF c
  <2> QED BY <1>0, <1>1, <1>2, <1>3, <1>5, <1>7, <2>1, <2>2, StoreInFlight DEF c
<1>9. HeaderAt(whead)' = cell
  <2>1. data'[c] = IF c >= c /\ c < c + HeaderSize THEN cell ELSE data[c]
    <3>1. c \in Nat
      BY <1>3
    <3> QED BY <1>0, <1>3, <1>4, <3>1, StoredCell
  <2>2. data'[c] = cell
    BY <1>0, <1>3, <2>1
  <2> QED BY <1>1, <2>2 DEF HeaderAt, c
<1>10. FlightBook'
  <2>1. WrapPadding(whead)' = W
    BY <1>1 DEF WrapPadding, W
  <2> QED BY <1>1, <1>2, <1>9, <2>1 DEF FlightBook, cell
<1>11. WriterBook'
  BY <1>1, <1>2 DEF WriterBook, W
<1> QED BY <1>0, <1>1, <1>8, <1>10, <1>11 DEF VarlenInv

\* Storing a slot's header touches nothing that is published.
LEMMA SlotHeaderKeepsInv ==
  ASSUME PayloadsFit, VarlenInv, SlotHeader
  PROVE  VarlenInv' /\ PublishedKept
<1> DEFINE N == Needed(wpay)  c == whead % Capacity
           num == IF wpay = 0 THEN Junk ELSE serial
           cell == Cell(whead, N, wpay, num)
<1>0. /\ TypeOK' /\ TypeOK /\ WriterBook /\ Capacity \in Nat /\ HeaderSize \in Nat \ {0}
  BY WriterTypes, Constants DEF WriterStep, VarlenInv
<1>1. /\ wpc = "header" /\ wpc' = "idle" /\ Store(whead % Capacity, HeaderSize, cell)
      /\ pending' = TRUE /\ last_position' = whead
      /\ serial' = (IF wpay = 0 THEN serial ELSE serial + 1)
      /\ fill' = (IF wpay = 0 THEN "full" ELSE "empty")
      /\ UNCHANGED <<write_pos, commit_pos, read_pos, wread, wpay, orphaned, rpc, rjunk>>
  BY DEF SlotHeader, sharedVars, readerVars
<1>2. /\ commit_pos <= whead /\ (~orphaned => whead = commit_pos)
      /\ write_pos = whead + N /\ N <= WrapPadding(whead)
  BY <1>0, <1>1 DEF WriterBook
<1>3. /\ whead \in Nat /\ write_pos \in Nat /\ N \in Nat /\ N >= HeaderSize + wpay /\ wpay \in Nat
      /\ c \in 0 .. (Capacity - 1) /\ c + WrapPadding(whead) = Capacity /\ serial \in Nat
      /\ WrapPadding(whead) \in Nat
  BY <1>0, <1>2, InvTypes
<1>4. cell \in Cells /\ cell.at = whead
  <2> HIDE DEF N
  <2>1. num \in Nat \cup {Junk}
    BY <1>3
  <2> HIDE DEF num
  <2>2. cell \in Cells
    BY <1>3, <2>1, CellType
  <2> QED BY <1>2, <2>2 DEF Cell
<1>5. c + 0 = whead % Capacity /\ 0 + HeaderSize - 1 = HeaderSize - 1
  BY <1>0, <1>2, <1>3
<1> HIDE DEF N, c, cell, num
<1>6. \A j \in 0 .. (0 + HeaderSize - 1) : c + j < Capacity => whead + j < write_pos
  BY <1>0, <1>2, <1>3
<1>7. /\ FrontsOrdered' /\ OnAlignment' /\ ReaderBook' /\ PublishedKept
      /\ ~orphaned => SlotsAreOld' /\ Parses'
  <2>1. whead < write_pos
    BY <1>0, <1>2, <1>3
  <2>2. Store((whead % Capacity) + 0, HeaderSize, cell)
    BY <1>1, <1>5 DEF c
  <2> QED BY <1>0, <1>1, <1>2, <1>3, <1>4, <1>6, <2>1, <2>2, StoreInFlight DEF c
<1>8. \A k \in 0 .. (HeaderSize - 1) : data'[c + k] = cell
  <2> SUFFICES ASSUME NEW k \in 0 .. (HeaderSize - 1) PROVE data'[c + k] = cell
    OBVIOUS
  <2> DEFINE i == c + k
  <2>1. i \in 0 .. (Capacity - 1) /\ i >= c /\ i < c + HeaderSize /\ c \in Nat
    BY <1>0, <1>2, <1>3
  <2>2. c = whead % Capacity
    BY DEF c
  <2> HIDE DEF i
  <2>3. data'[i] = IF i >= c /\ i < c + HeaderSize THEN cell ELSE data[i]
    BY <1>0, <1>1, <2>1, <2>2, StoredCell
  <2> QED BY <2>1, <2>3 DEF i
<1>9. num = (IF wpay' = 0 THEN Junk ELSE serial' - 1)
  BY <1>1, <1>3 DEF num
<1>10. FlightBook'
  <2>1. Needed(wpay)' = N /\ last_position' % Capacity = c
    BY <1>1, <1>2 DEF N, Needed, c
  <2>2. \A k \in 0 .. (HeaderSize - 1) :
          data'[(last_position' % Capacity) + k] =
            Cell(last_position', Needed(wpay)', wpay', IF wpay' = 0 THEN Junk ELSE serial' - 1)
    BY <1>1, <1>8, <1>9, <2>1 DEF cell
  <2>3. fill' = "full" => HeaderSize .. (HeaderSize + wpay' - 1) = {}
    BY <1>0, <1>1, <1>3
  <2> QED BY <1>1, <2>2, <2>3 DEF FlightBook
<1>11. WriterBook'
  <2>1. wpay > 0 => serial' > 0
    BY <1>1, <1>3
  <2>2. fill' # "none" /\ fill' # "partial" /\ (fill' = "empty" => wpay > 0)
    BY <1>1, <1>3
  <2>3. Needed(wpay)' = N /\ WrapPadding(last_position)' = WrapPadding(whead)
    BY <1>1 DEF N, Needed, WrapPadding
  <2> QED BY <1>1, <1>2, <2>1, <2>2, <2>3 DEF WriterBook
<1> QED BY <1>0, <1>1, <1>7, <1>10, <1>11 DEF VarlenInv

\* The client's copy: bytes behind the header change, the header does not.
LEMMA CopyKeepsInv ==
  ASSUME PayloadsFit, VarlenInv, BeginCopy \/ EndCopy
  PROVE  VarlenInv' /\ PublishedKept
<1> DEFINE N == Needed(wpay)  c == last_position % Capacity
           cell == IF fill = "empty" THEN JunkByte ELSE MessageByte(last_position, serial - 1)
<1>0. /\ TypeOK' /\ TypeOK /\ WriterBook /\ FlightBook /\ Capacity \in Nat /\ HeaderSize \in Nat \ {0}
  BY WriterTypes, Constants DEF WriterStep, VarlenInv
<1>1. /\ fill \in {"empty", "partial"} /\ fill' = (IF fill = "empty" THEN "partial" ELSE "full")
      /\ Store(c + HeaderSize, wpay, cell)
      /\ UNCHANGED <<write_pos, commit_pos, read_pos, pending, last_position, wpc, wread, whead,
                     wpay, serial, orphaned, rpc, rjunk>>
  BY DEF BeginCopy, EndCopy, sharedVars, readerVars
<1>2. /\ pending /\ wpay > 0 /\ commit_pos <= last_position
      /\ (~orphaned => last_position = commit_pos) /\ write_pos = last_position + N
      /\ N <= WrapPadding(last_position) /\ serial > 0
  BY <1>0, <1>1 DEF WriterBook
<1>3. /\ last_position \in Nat /\ write_pos \in Nat /\ N \in Nat /\ N >= HeaderSize + wpay
      /\ wpay \in Nat /\ c \in 0 .. (Capacity - 1) /\ c + WrapPadding(last_position) = Capacity
      /\ serial - 1 \in Nat /\ WrapPadding(last_position) \in Nat
  BY <1>0, <1>2, InvTypes
<1>4. cell \in Cells /\ cell.at \in {Junk, last_position}
  <2>1. JunkByte \in Cells /\ JunkByte.at = Junk
    <3>1. JunkByte \in Cells
      BY CellType, Zenon DEF JunkByte
    <3> QED BY <3>1 DEF JunkByte, Cell
  <2>2. /\ MessageByte(last_position, serial - 1) \in Cells
        /\ MessageByte(last_position, serial - 1).at = last_position
    <3>1. MessageByte(last_position, serial - 1) \in Cells
      BY <1>3, CellType DEF MessageByte
    <3> QED BY <1>2, <3>1 DEF MessageByte, Cell
  <2> QED BY <2>1, <2>2
<1> HIDE DEF N, cell
<1>5. \A j \in HeaderSize .. (HeaderSize + wpay - 1) : c + j < Capacity => last_position + j < write_pos
  BY <1>0, <1>2, <1>3
<1>6. /\ FrontsOrdered' /\ OnAlignment' /\ ReaderBook' /\ PublishedKept
      /\ ~orphaned => SlotsAreOld' /\ Parses'
  <2>1. last_position < write_pos
    BY <1>0, <1>2, <1>3
  <2>2. Store((last_position % Capacity) + HeaderSize, wpay, cell)
    BY <1>1
  <2> QED BY <1>0, <1>1, <1>2, <1>3, <1>4, <1>5, <2>1, <2>2, StoreInFlight, Zenon
<1> HIDE DEF c
<1>7. ASSUME NEW k \in 0 .. (HeaderSize + wpay - 1)
      PROVE  data'[c + k] = IF k >= HeaderSize THEN cell ELSE data[c + k]
  <2> DEFINE i == c + k  from == c + HeaderSize
  <2>1. /\ i \in 0 .. (Capacity - 1) /\ from \in Nat
        /\ i < from + wpay /\ (i >= from <=> k >= HeaderSize)
    BY <1>0, <1>2, <1>3, SMTT(30)
  <2> HIDE DEF i, from
  <2>2. data'[i] = IF i >= from /\ i < from + wpay THEN cell ELSE data[i]
    BY <1>0, <1>1, <1>3, <2>1, StoredCell, SMTT(30) DEF from
  <2> QED BY <2>1, <2>2 DEF i
<1>8. FlightBook'
  <2>1. wpc' = "idle"
    BY <1>0, <1>1, <1>2 DEF WriterBook
  <2>2. \A k \in 0 .. (HeaderSize - 1) : data'[c + k] = data[c + k]
    <3> SUFFICES ASSUME NEW k \in 0 .. (HeaderSize - 1) PROVE data'[c + k] = data[c + k]
      OBVIOUS
    <3>1. k \in 0 .. (HeaderSize + wpay - 1) /\ ~(k >= HeaderSize)
      BY <1>0, <1>3
    <3> QED BY <1>7, <3>1
  <2>3. \A k \in 0 .. (HeaderSize - 1) :
          data[c + k] = Cell(last_position, Needed(wpay), wpay, IF wpay = 0 THEN Junk ELSE serial - 1)
    BY <1>0, <1>2 DEF FlightBook, c
  <2>4. ASSUME fill' = "full", NEW k \in HeaderSize .. (HeaderSize + wpay - 1)
        PROVE  data'[c + k] = MessageByte(last_position, serial - 1)
    <3>1. k \in 0 .. (HeaderSize + wpay - 1) /\ k >= HeaderSize
      BY <1>0, <1>3
    <3>2. cell = MessageByte(last_position, serial - 1)
      BY <1>1, <2>4 DEF cell
    <3> QED BY <1>7, <3>1, <3>2
  <2>5. Needed(wpay)' = Needed(wpay)
    BY <1>1, SMTT(30) DEF Needed
  <2> QED BY <1>1, <2>1, <2>2, <2>3, <2>4, <2>5 DEF FlightBook, c
<1>9. WriterBook'
  <2>1. Needed(wpay)' = Needed(wpay) /\ WrapPadding(last_position)' = WrapPadding(last_position)
    BY <1>1 DEF Needed, WrapPadding
  <2>2. fill' # "none" /\ wpc = "idle"
    BY <1>0, <1>1, <1>2 DEF WriterBook
  <2> QED BY <1>0, <1>1, <1>2, <2>1, <2>2 DEF WriterBook
<1> QED BY <1>0, <1>1, <1>6, <1>8, <1>9 DEF VarlenInv

-----------------------------------------------------------------------------
(* The order of the messages *)

\* Steps that neither publish nor release anything.
LEMMA KeptOrder ==
  ASSUME InOrder, UNCHANGED <<read_pos, commit_pos>>, PublishedKept, Sent' = Sent
  PROVE  InOrder'
<1>1. \A p \in read_pos .. (commit_pos - 1) : HeaderAt(p)' = HeaderAt(p)
  BY DEF HeaderAt, PublishedKept
<1>2. Messages' = Messages
  BY <1>1 DEF Messages, Starts
<1>3. \A p \in Messages : HeaderAt(p)' = HeaderAt(p)
  BY <1>1 DEF Messages, Starts
<1> QED BY <1>2, <1>3 DEF InOrder

\* Releasing the first slot takes no number out of the middle.
LEMMA AdvanceOrder ==
  ASSUME VarlenInv, ~orphaned, InOrder, SkipPadding \/ HandlerAccepts
  PROVE  InOrder'
<1>0. TypeOK /\ Parses /\ read_pos \in Nat /\ commit_pos \in Nat /\ SlotSize \in Nat
  BY SlotSizeType DEF VarlenInv, TypeOK
<1>1. /\ read_pos' = read_pos + SlotSize /\ rpc \in {"skip", "handler"}
      /\ UNCHANGED <<data, commit_pos, pending, wpay, serial>>
  BY DEF SkipPadding, HandlerAccepts, Advance, memoryVars, writerVars
<1>2. read_pos < commit_pos
  BY <1>0, <1>1 DEF VarlenInv, ReaderBook
<1>3. /\ read_pos' = read_pos + HeaderAt(read_pos).slot_size
      /\ UNCHANGED <<data, commit_pos, pending, wpay, serial>>
  BY <1>0, <1>1, <1>2 DEF Parses, Starts, SlotSize
<1>4. Starts' = {p \in Starts : p >= read_pos'} /\ read_pos' \in Nat
  BY <1>0, <1>3, <1>2, AdvanceIntact
<1>5. \A p : HeaderAt(p)' = HeaderAt(p)
  BY <1>3 DEF HeaderAt
<1>6. Messages' = {p \in Messages : p >= read_pos'} /\ Sent' = Sent
  BY <1>3, <1>4, <1>5 DEF Messages, Sent
<1>7. \A p \in Messages : p \in Nat
  BY <1>0 DEF Messages, Starts
<1>8. Sent \in Int
  BY DEF Sent, VarlenInv, TypeOK
<1>9. ASSUME NEW p \in Messages', NEW m \in HeaderAt(p).num .. (Sent - 1)
      PROVE  \E q \in Messages' : HeaderAt(q).num = m
  <2>1. p \in Messages /\ p >= read_pos' /\ HeaderAt(p).num \in 0 .. (Sent - 1)
    BY <1>6, <1>9 DEF InOrder
  <2>2. PICK q \in Messages : HeaderAt(q).num = m
    BY <1>9, <2>1 DEF InOrder
  <2>3. HeaderAt(q).num \in 0 .. (Sent - 1) /\ (q < p => HeaderAt(q).num < HeaderAt(p).num)
    BY <2>1, <2>2 DEF InOrder
  <2>4. q >= read_pos'
    BY <1>4, <1>7, <1>8, <1>9, <2>1, <2>2, <2>3
  <2> QED BY <1>6, <2>2, <2>4
<1>10. ASSUME NEW p \in Messages'
      PROVE  /\ HeaderAt(p).num \in 0 .. (Sent - 1)
             /\ \A q \in Messages' : p < q => HeaderAt(p).num < HeaderAt(q).num
  BY <1>6, <1>10 DEF InOrder
<1> QED BY <1>5, <1>6, <1>9, <1>10 DEF InOrder

\* A slot without a message changes nothing.
LEMMA EmptySlotOrder ==
  ASSUME InOrder, UNCHANGED data, Sent' = Sent, Starts' = Starts \cup {commit_pos},
         HeaderAt(commit_pos).payload_size = 0
  PROVE  InOrder'
<1>1. \A p : HeaderAt(p)' = HeaderAt(p)
  BY DEF HeaderAt
<1>2. Messages' = Messages
  BY <1>1 DEF Messages
<1> QED BY <1>1, <1>2 DEF InOrder

\* The next message gets the next number.
LEMMA NextMessageOrder ==
  ASSUME TypeOK, InOrder, UNCHANGED data, Sent \in Nat, Sent' = Sent + 1,
         Starts' = Starts \cup {commit_pos}, HeaderAt(commit_pos).payload_size > 0,
         HeaderAt(commit_pos).num = Sent
  PROVE  InOrder'
<1>1. \A p : HeaderAt(p)' = HeaderAt(p)
  BY DEF HeaderAt
<1>2. Messages' = Messages \cup {commit_pos}
  BY <1>1 DEF Messages
<1>3. \A p \in Messages : p < commit_pos /\ p \in Nat
  BY DEF Messages, Starts, TypeOK
<1>4. commit_pos \in Nat
  BY DEF TypeOK
<1>5. ASSUME NEW p \in Messages'
      PROVE  /\ HeaderAt(p).num \in 0 .. Sent
             /\ \A q \in Messages' : p < q => HeaderAt(p).num < HeaderAt(q).num
             /\ \A m \in HeaderAt(p).num .. Sent : \E q \in Messages' : HeaderAt(q).num = m
  <2>1. CASE p \in Messages
    <3>1. /\ HeaderAt(p).num \in 0 .. (Sent - 1)
          /\ \A q \in Messages : p < q => HeaderAt(p).num < HeaderAt(q).num
          /\ \A m \in HeaderAt(p).num .. (Sent - 1) : \E q \in Messages : HeaderAt(q).num = m
      BY <2>1 DEF InOrder
    <3>2. \A q \in Messages' : p < q => HeaderAt(p).num < HeaderAt(q).num
      BY <1>2, <3>1
    <3>3. ASSUME NEW m \in HeaderAt(p).num .. Sent
          PROVE  \E q \in Messages' : HeaderAt(q).num = m
      <4>1. m = Sent \/ m \in HeaderAt(p).num .. (Sent - 1)
        BY <3>1
      <4> QED BY <1>2, <3>1, <4>1
    <3> QED BY <3>1, <3>2, <3>3
  <2>2. CASE p = commit_pos
    <3>1. \A q \in Messages' : ~(p < q)
      BY <1>2, <1>3, <1>4, <2>2
    <3>2. \A m \in Sent .. Sent : m = Sent
      OBVIOUS
    <3> QED BY <1>2, <2>2, <3>1, <3>2
  <2> QED BY <1>2, <2>1, <2>2
<1>6. (Sent + 1) - 1 = Sent
  OBVIOUS
<1> QED BY <1>1, <1>5, <1>6 DEF InOrder

\* Publishing padding adds no message.
LEMMA PublishOrder ==
  ASSUME PayloadsFit, VarlenInv, ~orphaned, InOrder, PadPublish
  PROVE  InOrder'
<1> DEFINE W == WrapPadding(whead)
<1>0. write_pos \in Nat /\ commit_pos \in Nat /\ whead \in Nat /\ W \in Nat /\ W > 0
  BY InvTypes, Constants
<1>1. /\ wpc = "padpublish" /\ commit_pos' = whead + W
      /\ UNCHANGED <<read_pos, data, pending, wpay, serial>>
  BY DEF PadPublish, memoryVars
<1>2. /\ whead = commit_pos /\ write_pos = whead + W
      /\ HeaderAt(commit_pos) = Cell(commit_pos, W, 0, Junk)
  BY <1>1 DEF VarlenInv, WriterBook, FlightBook
<1> HIDE DEF W
<1>3. /\ HeaderAt(commit_pos).at = commit_pos /\ HeaderAt(commit_pos).slot_size = W
      /\ HeaderAt(commit_pos).payload_size = 0
  BY <1>2 DEF Cell
<1>4. commit_pos < write_pos /\ commit_pos' = write_pos
      /\ commit_pos + HeaderAt(commit_pos).slot_size = write_pos
  BY <1>0, <1>1, <1>2, <1>3
<1>5. Starts' = Starts \cup {commit_pos}
  BY <1>1, <1>3, <1>4, PublishStarts DEF VarlenInv
<1>6. Sent' = Sent
  BY <1>1 DEF Sent
<1> QED BY <1>1, <1>3, <1>5, <1>6, EmptySlotOrder

\* commit adds the message reserved last, or none.
LEMMA CommitOrder ==
  ASSUME PayloadsFit, VarlenInv, ~orphaned, InOrder,
         NEW position \in {last_position, read_pos, commit_pos}, Commit(position)
  PROVE  InOrder'
<1> DEFINE N == Needed(wpay)  num == IF wpay = 0 THEN Junk ELSE serial - 1
<1>0. /\ write_pos \in Nat /\ commit_pos \in Nat /\ wpay \in Nat /\ N \in Nat /\ serial \in Nat
      /\ N >= HeaderSize + wpay /\ HeaderSize \in Nat \ {0}
      /\ last_position % Capacity \in 0 .. (Capacity - 1)
  BY InvTypes, Constants
<1>1. UNCHANGED <<read_pos, data, serial>>
  BY DEF Commit, memoryVars
<1>2. CASE ~pending \/ position # last_position
  <2>1. UNCHANGED <<commit_pos, pending, wpay>>
    BY <1>2 DEF Commit
  <2> QED BY <1>1, <2>1, KeptOrder DEF PublishedKept, Sent
<1>3. CASE pending /\ position = last_position
  <2>1. commit_pos' = last_position + HeaderAt(last_position).slot_size /\ pending' = FALSE
    BY <1>3, SMTT(30) DEF Commit
  <2>2. /\ last_position = commit_pos /\ write_pos = last_position + N
        /\ (wpay > 0 => serial > 0)
        /\ \A k \in 0 .. (HeaderSize - 1) :
             data[(last_position % Capacity) + k] = Cell(last_position, N, wpay, num)
    BY <1>3, SMTT(30) DEF VarlenInv, WriterBook, FlightBook
  <2>3. HeaderAt(commit_pos) = Cell(commit_pos, N, wpay, num)
    <3>1. 0 \in 0 .. (HeaderSize - 1) /\ (last_position % Capacity) + 0 = last_position % Capacity
      BY <1>0
    <3> QED BY <2>2, <3>1 DEF HeaderAt
  <2> HIDE DEF N, num
  <2>4. /\ HeaderAt(commit_pos).at = commit_pos /\ HeaderAt(commit_pos).slot_size = N
        /\ HeaderAt(commit_pos).payload_size = wpay /\ HeaderAt(commit_pos).num = num
    BY <2>3 DEF Cell
  <2>5. commit_pos < write_pos /\ commit_pos' = write_pos
        /\ commit_pos + HeaderAt(commit_pos).slot_size = write_pos
    BY <1>0, <2>1, <2>2, <2>4, SMTT(30)
  <2>6. Starts' = Starts \cup {commit_pos}
    BY <1>1, <2>4, <2>5, PublishStarts, SMTT(30) DEF VarlenInv
  <2>7. CASE wpay = 0
    <3>1. Sent' = Sent
      BY <1>1, <2>1, <2>7 DEF Sent
    <3> QED BY <1>1, <2>4, <2>6, <2>7, <3>1, EmptySlotOrder
  <2>8. CASE wpay > 0
    <3>1. num = serial - 1 /\ Sent = serial - 1 /\ Sent' = serial /\ serial - 1 \in Nat
      BY <1>0, <1>1, <1>3, <2>1, <2>2, <2>8 DEF Sent, num
    <3>2. Sent \in Nat /\ Sent' = Sent + 1 /\ HeaderAt(commit_pos).num = Sent
      BY <1>0, <2>4, <3>1
    <3>3. TypeOK /\ HeaderAt(commit_pos).payload_size > 0
      BY <2>4, <2>8 DEF VarlenInv
    <3> QED BY <1>1, <2>6, <3>2, <3>3, NextMessageOrder
  <2> QED BY <1>0, <2>7, <2>8
<1> QED BY <1>2, <1>3

\* Every step keeps the order.
LEMMA NextKeepsOrder ==
  ASSUME PayloadsFit, VarlenInv, MessagesInOrder, [Next]_vars
  PROVE  MessagesInOrder'
<1> USE DEF MessagesInOrder
<1>0. wpay \in Nat /\ serial \in Nat
  BY InvTypes
<1>1. ASSUME PadHeader \/ BeginCopy \/ EndCopy
      PROVE  MessagesInOrder'
  <2>1. UNCHANGED <<read_pos, commit_pos, pending, wpay, serial, orphaned>>
    BY <1>1 DEF PadHeader, BeginCopy, EndCopy, sharedVars
  <2>2. PublishedKept
    BY <1>1, PadHeaderKeepsInv, CopyKeepsInv
  <2> QED BY <2>1, <2>2, KeptOrder, SMTT(30) DEF Sent
<1>2. ASSUME SlotHeader
      PROVE  MessagesInOrder'
  <2>1. /\ wpc = "header" /\ pending' = TRUE /\ serial' = IF wpay = 0 THEN serial ELSE serial + 1
        /\ UNCHANGED <<read_pos, commit_pos, wpay, orphaned>>
    BY <1>2 DEF SlotHeader, sharedVars
  <2>2. PublishedKept
    BY <1>2, SlotHeaderKeepsInv
  <2>3. ~pending
    BY <2>1 DEF VarlenInv, WriterBook
  <2>4. Sent' = Sent
    BY <1>0, <2>1, <2>3 DEF Sent
  <2> QED BY <2>1, <2>2, <2>4, KeptOrder
<1>3. ASSUME WriterReattach
      PROVE  MessagesInOrder'
  <2> SUFFICES ASSUME ~orphaned'
               PROVE  InOrder'
    OBVIOUS
  <2>1. /\ ~orphaned /\ write_pos = commit_pos /\ pending' = FALSE
        /\ UNCHANGED <<read_pos, commit_pos, data, serial>>
    BY <1>3, Zenon DEF WriterReattach, sharedVars, memoryVars
  <2>2. commit_pos \in Nat /\ Needed(wpay) \in Nat /\ Needed(wpay) > 0
    BY InvTypes, Constants
  <2>3. ~pending
    BY <2>1, <2>2 DEF VarlenInv, WriterBook
  <2> QED BY <2>1, <2>3, KeptOrder DEF PublishedKept, Sent
<1>4. ASSUME NEW n \in Payloads, TryReserve(n)
      PROVE  MessagesInOrder'
  <2>1. /\ UNCHANGED <<read_pos, commit_pos, data, pending, serial, orphaned>>
        /\ pending => UNCHANGED wpay
    BY <1>4 DEF TryReserve, sharedVars, memoryVars
  <2> QED BY <2>1, KeptOrder DEF PublishedKept, Sent
<1>5. ASSUME \/ LoadReadPos \/ Place \/ PadBump \/ PadNotify \/ CommitBump \/ CommitNotify
             \/ Read \/ HandlerDeclines \/ AdvanceBump \/ AdvanceNotify
             \/ ReaderReattach \/ WaiterFlag \/ UNCHANGED vars
      PROVE  MessagesInOrder'
  <2>1. UNCHANGED <<read_pos, commit_pos, data, pending, wpay, serial, orphaned>>
    BY <1>5, Zenon DEF LoadReadPos, Place, PadBump, PadNotify, CommitBump, CommitNotify, Read,
         HandlerDeclines, AdvanceBump, AdvanceNotify, ReaderReattach, WaiterFlag, vars,
         sharedVars, memoryVars, writerVars
  <2> QED BY <2>1, KeptOrder DEF PublishedKept, Sent
<1>6. ASSUME SkipPadding \/ HandlerAccepts
      PROVE  MessagesInOrder'
  <2>1. UNCHANGED orphaned
    BY <1>6 DEF SkipPadding, HandlerAccepts, Advance, writerVars
  <2> QED BY <1>6, <2>1, AdvanceOrder
<1>7. ASSUME PadPublish
      PROVE  MessagesInOrder'
  <2>1. UNCHANGED orphaned
    BY <1>7 DEF PadPublish
  <2> QED BY <1>7, <2>1, PublishOrder
<1>8. ASSUME NEW position \in {last_position, read_pos, commit_pos}, Commit(position)
      PROVE  MessagesInOrder'
  <2>1. UNCHANGED orphaned
    BY <1>8 DEF Commit
  <2> QED BY <1>8, <2>1, CommitOrder
<1> QED
  BY <1>1, <1>2, <1>3, <1>4, <1>5, <1>6, <1>7, <1>8 DEF Next, WriterStep, ReaderStep

-----------------------------------------------------------------------------
(* The theorems *)

\* The invariant holds of a ring just initialised.
LEMMA InitKeepsInv ==
  Init => VarlenInv
<1> SUFFICES ASSUME Init PROVE VarlenInv
  OBVIOUS
<1> USE DEF Init
<1>0. Capacity \in Nat \ {0} /\ Alignment \in Nat \ {0} /\ 0 \in NotifyWords
  BY Constants, SeqModAssumption DEF NotifyWords
<1>1. JunkByte \in Cells /\ JunkByte.at = Junk
  <2>1. JunkByte \in Cells
    BY CellType, Zenon DEF JunkByte
  <2> QED BY <2>1 DEF JunkByte, Cell
<1>2. TypeOK
  BY <1>0, <1>1, Zenon DEF TypeOK
<1>3. FrontsOrdered /\ ReaderBook
  BY <1>0, SMTT(30) DEF FrontsOrdered, ReaderBook
<1>4. WriterBook /\ FlightBook
  BY DEF WriterBook, FlightBook
<1>5. SlotsAreOld
  BY <1>1 DEF SlotsAreOld
<1>6. OnAlignment
  <2>1. 0 \in 0 .. (Alignment - 1)
    BY <1>0
  <2>2. 0 % Alignment = 0
    BY <1>0, <2>1, SmallMod
  <2> QED BY <2>2 DEF OnAlignment
<1>7. Parses
  <2>1. Starts = {}
    BY DEF Starts
  <2> QED BY <2>1 DEF Parses
<1> QED BY <1>2, <1>3, <1>4, <1>5, <1>6, <1>7 DEF VarlenInv

\* Every step keeps the invariant.
LEMMA NextKeepsInv ==
  ASSUME PayloadsFit, VarlenInv, [Next]_vars
  PROVE  VarlenInv'
  BY ReaderKeepsInv, WriterQuietKeepsInv, PlaceKeepsInv, PadPublishKeepsInv, CommitKeepsInv,
     PadHeaderKeepsInv, SlotHeaderKeepsInv, CopyKeepsInv
  DEF Next, WriterStep

\* The strengthened invariant of the variable-length ring is inductive, for
\* every capacity, alignment and header size.
THEOREM VarlenInvariantHolds ==
  ASSUME PayloadsFit
  PROVE  Spec => []VarlenInv
<1>1. VarlenInv /\ [Next]_vars => VarlenInv'
  BY NextKeepsInv
<1> QED BY <1>1, InitKeepsInv, PTL DEF Spec

\* Every front, word, unit of memory and program counter of the varlen ring stays
\* in its range: no store leaves a unit that is none.
THEOREM VarlenTypeCorrect ==
  ASSUME PayloadsFit
  PROVE  Spec => []TypeOK
<1>1. VarlenInv => TypeOK
  BY DEF VarlenInv
<1> QED BY <1>1, VarlenInvariantHolds, PTL

\* The varlen producer never laps the consumer, padding included, and the
\* consumer never overtakes it.
THEOREM VarlenFrontsStayOrdered ==
  ASSUME PayloadsFit
  PROVE  Spec => []FrontsOrdered
<1>1. VarlenInv => FrontsOrdered
  BY DEF VarlenInv
<1> QED BY <1>1, VarlenInvariantHolds, PTL

\* Whatever read() finds between read_pos and commit_pos parses into slots, and
\* every message among them is complete, current and in one piece.
THEOREM PublishedParses ==
  ASSUME PayloadsFit
  PROVE  Spec => []CommittedIntact
<1>1. VarlenInv => CommittedIntact
  BY DEF VarlenInv, CommittedIntact
<1> QED BY <1>1, VarlenInvariantHolds, PTL

\* The compare-and-swap of try_reserve never fails.
THEOREM CasAlwaysSucceeds ==
  ASSUME PayloadsFit
  PROVE  Spec => []CasNeverLoses
<1>1. VarlenInv => CasNeverLoses
  BY DEF VarlenInv, WriterBook, CasNeverLoses
<1> QED BY <1>1, VarlenInvariantHolds, PTL

\* The messages between read_pos and commit_pos are the last ones committed,
\* consecutive and in the order of their reservations, in every history of
\* wraps, padding, zero-length messages, declines and replaced sides.
THEOREM VarlenMessagesInOrder ==
  ASSUME PayloadsFit
  PROVE  Spec => []MessagesInOrder
<1>1. Init => MessagesInOrder
  BY DEF Init, MessagesInOrder, InOrder, Messages, Starts
<1>2. VarlenInv /\ MessagesInOrder /\ [Next]_vars => MessagesInOrder'
  BY NextKeepsOrder
<1> QED BY <1>1, <1>2, VarlenInvariantHolds, PTL DEF Spec

-----------------------------------------------------------------------------
\* A padding slot is at least as large as the header written into it.
HeaderFitsPadding == HeaderSize <= Alignment

\* A store that ends before the ring end is no overrun.
LEMMA StoreInside ==
  ASSUME NEW from, NEW n, NEW cell, Store(from, n, cell), ~(from + n > Capacity), ~overrun
  PROVE  ~overrun'
<1>1. overrun' = (overrun \/ from + n > Capacity)
  BY DEF Store
<1> QED BY <1>1, Zenon

\* A padding header fits where an aligned gap is left, and a slot was placed whole.
LEMMA NextStaysInside ==
  ASSUME PayloadsFit, HeaderFitsPadding, VarlenInv, InsideRegion, [Next]_vars
  PROVE  InsideRegion'
<1> USE DEF InsideRegion
<1>0. /\ Capacity \in Nat /\ HeaderSize \in Nat /\ Alignment \in Nat /\ WriterBook
  BY Constants DEF VarlenInv
<1>1. CASE PadHeader
  <2>1. whead % Alignment = 0
    BY <1>0, <1>1 DEF PadHeader, WriterBook
  <2>2. WrapPadding(whead) >= Alignment
    BY <1>0, <2>1, InvTypes, WrapAligned
  <2>3. ~((whead % Capacity) + HeaderSize > Capacity)
    BY <1>0, <2>2, InvTypes DEF HeaderFitsPadding
  <2> QED BY <1>1, <2>3, StoreInside DEF PadHeader
<1>2. CASE SlotHeader
  <2>1. Needed(wpay) <= WrapPadding(whead)
    BY <1>0, <1>2 DEF SlotHeader, WriterBook
  <2>2. ~((whead % Capacity) + HeaderSize > Capacity)
    BY <1>0, <2>1, InvTypes
  <2> QED BY <1>2, <2>2, StoreInside DEF SlotHeader
<1>3. CASE BeginCopy \/ EndCopy
  <2>1. Needed(wpay) <= WrapPadding(last_position)
    BY <1>0, <1>3 DEF BeginCopy, EndCopy, WriterBook
  <2>2. ~((last_position % Capacity) + HeaderSize + wpay > Capacity)
    BY <1>0, <2>1, InvTypes
  <2> QED BY <1>3, <2>2, StoreInside DEF BeginCopy, EndCopy
<1>4. CASE overrun' = overrun
  BY <1>4
<1>5. ASSUME NEW n \in Payloads, TryReserve(n) PROVE overrun' = overrun
  BY <1>5 DEF TryReserve, memoryVars
<1>6. ASSUME NEW position, Commit(position) PROVE overrun' = overrun
  BY <1>6, SMTT(30) DEF Commit, memoryVars
<1>7. ASSUME \/ LoadReadPos \/ Place \/ PadPublish \/ PadBump \/ PadNotify
             \/ CommitBump \/ CommitNotify \/ WriterReattach
      PROVE  overrun' = overrun
  <2>1. UNCHANGED memoryVars
    <3>1. CASE LoadReadPos \/ Place
      BY <3>1 DEF LoadReadPos, Place
    <3>2. CASE PadPublish \/ PadBump \/ PadNotify
      BY <3>2 DEF PadPublish, PadBump, PadNotify
    <3>3. CASE CommitBump \/ CommitNotify \/ WriterReattach
      BY <3>3 DEF CommitBump, CommitNotify, WriterReattach
    <3> QED BY <1>7, <3>1, <3>2, <3>3, Zenon
  <2> QED BY <2>1 DEF memoryVars
<1>8. ASSUME ReaderStep \/ HandlerDeclines \/ ReaderReattach \/ WaiterFlag \/ UNCHANGED vars
      PROVE  overrun' = overrun
  <2>1. UNCHANGED memoryVars
    <3>1. CASE ReaderStep
      BY <3>1 DEF ReaderStep, Read, SkipPadding, HandlerAccepts, Advance, AdvanceBump, AdvanceNotify
    <3>2. CASE HandlerDeclines \/ ReaderReattach \/ WaiterFlag \/ UNCHANGED vars
      BY <3>2 DEF HandlerDeclines, ReaderReattach, WaiterFlag, vars
    <3> QED BY <1>8, <3>1, <3>2, Zenon
  <2> QED BY <2>1 DEF memoryVars
<1> QED BY <1>1, <1>2, <1>3, <1>4, <1>5, <1>6, <1>7, <1>8 DEF Next, WriterStep

\* With an alignment of at least a header, try_reserve and the client write
\* nothing beyond the data region: the dummy header of the padding slot fits
\* before the ring end, as the header and the payload of a message do.
THEOREM StaysInsideRegion ==
  ASSUME PayloadsFit, HeaderFitsPadding
  PROVE  Spec => []InsideRegion
<1>1. Init => InsideRegion
  BY DEF Init, InsideRegion
<1>2. VarlenInv /\ InsideRegion /\ [Next]_vars => InsideRegion'
  BY NextStaysInside
<1> QED BY <1>1, <1>2, VarlenInvariantHolds, PTL DEF Spec

=============================================================================

# A TLA+ verification of spscring

spscring is a header-only C++17 library of single-producer, single-consumer
rings over caller-owned (often shared) memory. This directory holds TLA+ models
of it, the TLC runs that check them and the proofs TLAPS checks.

## The system and its parts

| part | code | module |
|---|---|---|
| blocking on a 32-bit word, on six platforms; backoff | `atomic_wait.hpp`, `internal/atomic_wait_{futex,win32,darwin}.hpp`, `atomic_backoff.hpp` | `AtomicWait`, `AtomicWaitSystem`; proofs in `AtomicWaitProofs` |
| notify words: sequence + waiter flag in one futex word | `notify_word.hpp` | `NotifyBits`, `NotifyWord`, `NotifySystem`; proofs in `NotifyBitsProofs`, `NotifyProofs` |
| fixed ring | `fixed_writer.hpp`, `fixed_reader.hpp` | `FixedRing`; proofs in `FixedRingProofs` |
| occupancy queries | `ring_view.hpp` | `RingView`; proofs in `RingClientProofs` |
| variable-length ring | `varlen_writer.hpp`, `varlen_reader.hpp`, `internal/varlen_header.hpp` | `VarlenRing`; proofs in `VarlenProofs` |
| what either ring promises | (the two classes' comments) | `BoundedFifo` |
| two threads blocking on each other over a fixed ring | ring + notify words | `FixedChannel`; proofs in `FixedChannelProofs` |
| the fixed half of the example | `examples/thread_channel.cpp` | `ThreadChannel`; proofs in `RingClientProofs` |
| control block geometry and validation | `control_block.hpp` and the checks in the two ring headers | `ControlBlock`; proofs in `ControlBlockProofs` |

The producer owns `write_pos` (reserved) and `commit_pos` (published), the
consumer owns `read_pos`. Each side loads the other's front, and after moving its
own bumps a notify word and wakes the sleepers only if the word's waiter flag was
set. A thread that has to wait registers by setting the flag, and then blocks with
`atomic_wait_for` on whatever the platform offers.

Who uses whom: `NotifyWord` extends `NotifyBits` and `AtomicWait`; `FixedRing`
extends `NotifyBits`; `FixedChannel` is a `FixedRing` with two instances of
`NotifyWord` over its words, `ThreadChannel` one with two instances of `AtomicWait`,
`RingView` one with an observer.

## How the models correspond to the code

**Grain.** Every access to shared state that the other side can race with is an
action: `try_reserve` is `TryReserve` (load of `read_pos`) and `ReserveSlot` (test
and stores), `commit` is `Commit`, `CommitBump`, `CommitNotify`. Filling a slot is
two steps, so half-copied bytes exist. Convenience calls (`write`, `read`,
`reserve_and_copy`, the spin loops) are sequences of these actions and have none
of their own.

**Memory model.** Steps interleave sequentially consistently. The code justifies
this for the fronts by release stores paired with acquire loads (the payload is
published by `commit_pos`, the space by `read_pos`), and for the notify words by
read-modify-writes on one location. Weaker orderings are not explored.

**`AtomicWait`.** One action per function of a backend. A call is a record whose
`pc` says whether it is about to compare, to look at the clock or to enter the
kernel, sleeps, or is in a polling loop. `backend` is fixed at the start;
`BackendOn` says which one a system gets. The kernel compares and queues in one
step and may end a sleep for nothing. A `ulock` wake may get lost (it does not
cross processes) and a sleep of a sliced wait may end at any time. The other wakes
are reliable; on Windows that means threads of one process, since `WaitOnAddress`
knows only sleepers of its own process (`design.md:124` says that it works across
processes). Time is the flag `expired`: at some moment after the call the code's own
test of the deadline comes true. Where the code counts whole milliseconds (the
notify word, the ulock loop, the Windows tick count) this is up to a millisecond, or
a tick, before the deadline itself, and no property says that a `false` is not early.
How long a spin or a slice is plays no role.

**`AtomicWaitSystem`** closes it with two waiters and a thread that stores and
notifies, either always one or always all.

**`NotifyWord`** is open: whoever composes it supplies the predicate and the
bumper. `NotifySystem` closes it with one bumper and waiters that wait for a
position or for a change of the sequence. Note that `marked` is the word before
the flag went in, as in the code: the first `atomic_wait_for` of a call that sets
the flag itself returns at once, and only the second round sleeps. The inner
`atomic_wait_for` has a deadline of its own and may end just before the outer one
(`EndsEarly`), which costs another round.

**`FixedRing`.** Variables carry the names of `meta` and of the writer's members;
`wpc`/`rpc` say where a call stands, `wread` and `rseen` are loaded values. A
message is identified by its position: `data[i] = p` says the complete message of
position `p` is at index `i`. `WriterReattach` and `ReaderReattach` replace an
object at any step, which is what a crash and restart of that side amounts to;
`abandoned` remembers the slots a dead writer had reserved and is not in the code.

**`RingView`.** `used_bytes` is two loads with steps of both sides in between,
made by the producer or the consumer between their own calls or by a third thread
at any time. `told` remembers what the producer was last told.

**`FixedChannel`'s** client loops are written as `notify_word.hpp` prescribes; the
library has no such loop of its own; its two waits are over the Linux futex.
**`ThreadChannel`** is the example as it
stands: a snapshot of the word after the failed call, then `backoff.wait` on it,
without registering.

**`VarlenRing`.** Memory is an array of units that remember for which slot they
were written, header units also the two sizes; `overrun` records a write past the
region. A unit is at least 8 bytes, so that it holds both size fields; with
`HeaderSize` 2 it is 16 bytes. Alignments below 8 bytes are therefore not
represented. Either side may be replaced at any step. A writer that goes away over a
reserved slot leaves it between `commit_pos` and `write_pos`; the next commit
publishes it, and a reader that comes to bytes which are no header may find any sizes
in them (`ParsesAs`). `orphaned` remembers that this happened. The order of the
fronts, the alignment, what the next writer claims, that its CAS succeeds and that
the reader moves over published bytes only are claimed in any case; that the bytes
parse, the order of messages and the FIFO refinement only as long as it did not
happen.

**`ControlBlock`**: each call is one step, as the fields are plain memory and the
callers order their calls themselves; in which order is left open, and a block may be
initialised again while others use it. `checked` remembers that `is_valid_fixed_ring`
passed since the last initialisation.

Definitions introduced as *mutants* are plausible bugs. No specification uses
them; each is put in place of a definition to see that a property notices.

## Runs

| run | shows | distinct states |
|---|---|---|
| `fixed_ring` | fronts ordered, published slots intact, fronts only advance, with crashes of either side at every step; occupancy answers can be relied upon; `IInv` and `ViewInv` | 2,596,440 |
| `notify_word` | no lost wakeup, honest results, waits return, also when the sequence carries into the flag, on Linux, Windows and both macOS tiers; `WakeupInv` and `HonestInv` | 81,040 |
| `fixed_channel` | no deadlock; no waiter flag left behind; the stream is delivered; implements `BoundedFifo`; `ChannelInv` | 71,608 |
| `varlen_ring` | fronts ordered and the CAS never fails, with either side replaced at every step; up to the first slot left by a dead writer, what is published parses into messages in order and the ring implements `BoundedFifo`; `VarlenInv` | 1,561,644 |
| `varlen_live` | no write past the region when the alignment is at least the header size; `full` is temporary for a producer that retries | 69,918 |
| `control_block` | accepted blocks stay valid; validated varlen blocks are usable; after `is_valid_fixed_ring` has passed no constructor aborts and `item_count` is defined, until the next initialisation; `BlockInv` | 317 |
| `atomic_wait` | on all six implementations answers are honest and notified changes are noticed; timed waits end where the kernel keeps time; `AnswerInv` | 113,408 |
| `thread_channel` | the example's frames arrive in order and both its threads finish; a consumer that begins a round after the producer is done leaves an empty ring; `ThreadInv` | 18,251 |

Four runs are expected to fail. Each shows code that differs from what the
repository says of it:

| run | what happens | said in |
|---|---|---|
| `notify_racing` | of two waiters on a word, the one that leaves clears the flag of the one that sleeps | `design.md:151-153` |
| `varlen_padding` | the padding header is 32 bytes, however little room is left before the ring end | `varlen_header.hpp:16-18` |
| `varlen_width` | the 32-bit sum of header and payload size wraps for payload sizes near 2^32, and a slot smaller than its header is reserved | `varlen_header.hpp:15` |
| `poll_timeout` | where `atomic_wait_for` polls, it never times out while the word stays the same | `atomic_wait_test.cpp:4-6` |

The racing run uses two waiters on a word, which the documents call outside the
SPSC discipline and tolerated. The passing `varlen_ring` run uses an alignment
below the header size, so it includes the overrun of `varlen_padding`: its
properties are about the bytes inside the region. The two varlen runs that are
violated use `LiveSpec`, in which nobody is replaced.

Other places where text and code differ, met while modelling and not the subject
of a run:

- A flag set by the carry of the sequence is not cleared by the next exiting waiter
  (`notify_word.hpp:34-37`): it finds the flag set and does not count itself
  registered. The flag goes with the next carry.
- A slot reserved by a writer that died before `commit` is published by the next
  writer's commit (`control_block.hpp:24-25` and `design.md:53` say of both layouts
  that an unfinished slot is never observable). `CommittedIntact` of the fixed ring
  exempts exactly these slots; that of the varlen ring, where the sizes of the slot
  are lost with it, ends there.
- The `fixed_writer` constructor accepts a varlen block and an item size of 0,
  which `is_valid_fixed_ring` rejects (`design.md:161-165`, `fixed_writer.hpp:29-30`),
  and `init_control_block` does not look at the item size (`design.md:63-65`).
- `design.md:89-90` gives the varlen slot header 24 bytes; it has 32.
- `design.md:93` says that `slot_size == 0` marks padding; the reader tests
  `payload_size == 0`, and a `slot_size` of 0 reads as nothing published.
- `thread_channel.cpp:85-86`: the example's consumer tests `producer_done` after it
  found the ring empty, and leaves frames behind that were committed in between; the
  comment says that the ring is drained. It is if the round began after the producer
  was done (`DrainedIfDoneFirst`).
- `atomic_notify_all_if_waiters` issues no wake on any platform and returns true;
  `atomic_wait.hpp:93-98` says "this always notifies". Nobody calls it.
- `thread_channel.cpp:88-89` says that every commit wakes all waiters; these waiters
  have not registered, so it usually does not and the timeout ends the sleep. On the
  polling backends, whose timeout is not honoured, the example's threads can wait
  for each other for ever once the ring stands still.

### Bounds

- `MaxPos` ends the stream: five messages through three slots (`fixed_ring`) or two
  (`fixed_channel`, `thread_channel`), more than one lap of six (`varlen_ring`) or
  eight units (the other varlen runs). Every index is reused, full and empty both
  occur, and messages of every residue meet the ring end.
- `SeqMod` stands for 2^31. In the ring runs it is 1 or 2, so words wrap freely: there
  a word only decides whether a notify is due. In the
  notify and channel runs the number of bumps stays below it: with as many bumps
  as the counter has values between a registration and the futex compare, the word
  recurs and a waiter can sleep on it. In the code that takes 2^31 messages during
  one wait call. In `notify_word` the sequence starts at 5 of 8, so that it carries
  on the way. In `thread_channel`, whose waits are timed, it is 4, and the carry sets
  the flag that makes the notify calls happen.
- `Values` of the word in `atomic_wait` are two: a waiter tells its old value from
  another, and the word may return to the old value while it sleeps.
- `U32` stands for 2^32 and is far above the capacity.
- `Payloads` of the passing runs include 0, sizes that leave one unit before the ring
  end, the largest that fits and one that is too large. `varlen_width` has one just
  below `U32`.
- `Backends`: `notify_word` leaves out the polling ones, on which nobody sleeps and
  a timed wait need not return. `thread_channel` also leaves out Windows, where
  wakes for nothing postpone the only thing that ends a sleep.

### Fairness

- `AtomicWaitSystem`, `NotifySystem`: a thread inside a wait keeps running, which
  includes the kernel's timeouts; a thread that stored goes on to bump and notify;
  clocks advance. Nobody has to store or call, and the kernel need not wake anyone
  for nothing.
- `FixedChannel`: each of the two threads keeps running. The clock owes nothing,
  so delivery does not rest on timeouts.
- `ThreadChannel`: each of the two threads keeps running and its clock advances.
- `VarlenRing` (`LiveSpec`): a producer that retries a refused message and a
  consumer that polls and declines nothing.

## Proofs

Each invariant that a run checks is proved for every value of the constants. Where
it is not inductive as it stands, the invariant that is (`IInv`, `ViewInv`,
`WakeupInv`, `HonestInv`, `ChannelInv`, `VarlenInv`, `AnswerInv`, `ThreadInv`,
`BlockInv`) is defined beside it and checked by the same run. `TypeOK` is a conjunct
of each that has one, and is checked as such in `notify_word`, `varlen_ring` and
`atomic_wait`.

| theorem | states | hypothesis |
|---|---|---|
| `InvariantHolds`, `TypeCorrect`, `FrontsStayOrdered`, `PublishedStaysIntact`, `FrontsNeverMoveBack` | `IInv`, `TypeOK`, `FrontsOrdered`, `CommittedIntact`, `FrontsOnlyAdvance` of the fixed ring | |
| `RingIsFifo` | the fixed ring implements `BoundedFifo` | `NothingAbandoned` |
| `ViewInvariantHolds`, `AvailableCanBeReserved`, `UsedIsNeverTooHigh` | `ViewInv`, `AvailableIsReservable`, `UsedNeverTooHigh` | |
| `ThreadInvariantHolds`, `FramesMatch`, `LeavesNothingBehind`, `ThreadsAreFifo` | `ThreadInv`, `TagsMatch`, `DrainedIfDoneFirst`; the example implements `BoundedFifo` | |
| `WakeupInvariantHolds`, `NoWakeupIsLost` | `WakeupInv`, `NoLostWakeup` | `OneWaiter`, `FewBumps` |
| `HonestInvariantHolds`, `NotifyTypeCorrect`, `ResultIsHonest` | `HonestInv`, `TypeOK`, `ResultHonest` of the notify word | `FewBumps` |
| `ChannelInvariantHolds`, `ChannelTypeCorrect`, `ProgressIsNeverSleptThrough`, `FlagsAreCleared`, `ChannelIsFifo` | `ChannelInv`, `ChannelTypeOK`, `NobodySleepsThroughProgress`, `NoStrayFlag`; the channel implements `BoundedFifo` | `SequenceSuffices` |
| `VarlenInvariantHolds`, `VarlenTypeCorrect`, `VarlenFrontsStayOrdered`, `PublishedParses`, `VarlenMessagesInOrder`, `CasAlwaysSucceeds` | `VarlenInv`, `TypeOK`, `FrontsOrdered`, `CommittedIntact`, `MessagesInOrder`, `CasNeverLoses` of the varlen ring | `PayloadsFit` |
| `StaysInsideRegion` | `InsideRegion` | `PayloadsFit`, `HeaderFitsPadding` |
| `AnswerInvariantHolds`, `AtomicWaitTypeCorrect`, `AnswersAreHonest` | `AnswerInv`, `TypeOK`, `AnswerHonest` of the wait backends | |
| `BlockInvariantHolds`, `AcceptedStaysValid`, `ValidatedIsUsable`, `CheckedRingIsUsable` | `BlockInv`, `AcceptedIsValid`, `ValidatedVarlenIsUsable`, `PreflightSuffices` | |

### Hypotheses

Besides the named assumptions on the constants (the geometry that the validations
check, a counter width of at least 1), which every run evaluates:

- `NothingAbandoned`: no writer died over a slot it had reserved. After that the next
  commit publishes a slot nobody filled (see `CommittedIntact`). The channel and the
  example, whose threads live on, satisfy it, and there it is proved.
- `OneWaiter`: the SPSC discipline; `notify_racing` shows it is needed.
- `FewBumps`, `SequenceSuffices`: fewer bumps, or messages, than the 31-bit sequence
  has values. Otherwise the word can recur under a waiter; and for `NoStrayFlag` the
  carry sets the flag when nobody waits.
- `PayloadsFit`: `HeaderSize + payload + Alignment` does not exceed 2^32, so the
  `uint32_t` arithmetic of the slot size does not wrap; `varlen_width` shows what
  happens otherwise. About the capacity nothing is assumed but what
  `init_control_block` tests (`VarlenRingAssumption`): it is a multiple of the
  alignment and may exceed 2^32. A repaired legacy block need not satisfy this.
- `HeaderFitsPadding`: the header is no larger than the alignment; `varlen_padding`
  shows it is needed. No other theorem about the varlen ring assumes it: what is
  published stays intact even where a padding header reaches past the end.

### The arguments

**The fixed ring** (`FixedRingProofs`). `CommittedIntact` alone is not inductive.
Reserving is safe only because the loaded `wread` is a lower bound of `read_pos` that
is still within a lap (`LoadedPositions`) and all fronts sit on slot boundaries
(`OnSlotBoundary`): then different indexes leave room for a whole slot
(`NotFullFits`). Committing is safe only because between `commit_pos` and the
pending slot there is nothing but abandoned slots (`WriterBook`) and a filled slot
holds its own message (`FilledSlot`). Copying into the reserved slot disturbs no
published one because positions less than a lap apart have different indexes
(`NextSlotIsFree`, from `ModInjective`).

**The fixed ring is a FIFO queue** (same module). `Mapped` is where the invariant is
used: `CommittedIntact` makes the queue that the memory spells out the run of numbers
from `Released` to `Sent`, and `LoadedPositions` keeps the slot the reader looks at
among them. Every step is then a step of these two counters (`StepShape`). That
`commit` adds exactly one message rests on `WriterBook`, and that there is room for it
on `FrontsOrdered`.

**The ring's clients** (`RingClientProofs`). A step of an observer, or of the example's
threads, is a step of the ring or leaves it alone, so `IInv` carries over. `ViewInv`
adds that the loaded `write_pos` is still the producer's while the producer asks, and
that the room it was told of is there with respect to `read_pos` and to the `read_pos`
that `try_reserve` has loaded. `ThreadInv` adds that the consumer's tag counter is the
number of frames behind `read_pos`, plus the one it is looking at (`ReadBook`): with
`CommittedIntact` the frame it sees is the one it expects. A finished producer
publishes nothing any more, and a consumer that was in its loop at that moment
finds the ring empty in the round in which it leaves (`DoneStays`).

**No lost wakeup** (`NotifyProofs`). `NoLostWakeup` speaks of sleepers only. It becomes
inductive with the history of the mark: the sequence counts the bumps (`SeqCounts`); a
registered waiter's mark was made after some number `k` of them, the word is the mark
with the flag set as long as no bump followed, and what the waiter found at its
re-check is no older than the mark (`MarkBook`); a sleeper's word is still its mark, or
a notify is due (`SleepBook`). If the awaited progress has been published and the word
is still the mark, the bump is yet to come and will find the flag; if the bump came,
the flag was there. `NotifyBitsProofs` holds the arithmetic of the packed word, the
carry included.

**Honest results** (same module), for any number of waiters. A sequence that has left a
snapshot must not come back to it before the call returns: the snapshot is the
sequence after some number of bumps that has been reached (`AnswerBook`), and fewer
than `SeqMod` bumps give different sequences.

**The channel** (`FixedChannelProofs`). What a word and the call waiting on it know of
each other is the same for both words (`WaitBook`) and is treated once, over a word, a
call, the place of the bumper and the predicate: the flag is the call's own, a mark
with the current sequence is the current word, and the predicate found true after the
mark holds until a bump is due. Each step of the ring and of a wait is then matched to
what it does to the two words (`CountBook` bounds their sequences by the positions, so
no bump carries). The FIFO refinement follows from `RingIsFifo`, since a step of a wait
changes nothing of the ring but a flag.

**The varlen ring** (`VarlenProofs`). Parsing is the hard part: slot sizes are read from
the same memory that holds payloads of older laps. `VarlenInv` says that at most one
slot is in flight, ends at `write_pos` and does not reach over the ring end, and that
nothing but a dead writer's slot lies between it and `commit_pos` (`WriterBook`); that its header, and its message once copied, are what
`try_reserve` and the client stored (`FlightBook`); and that no byte claims to start a
slot that was not reserved yet (`SlotsAreOld`), so publishing the slot adds exactly one
slot start. A store into the slot in flight changes no published byte, again by
`ModInjective`; a padding header longer than its gap ends at the ring end, as the model
keeps the bytes inside the region. Padding is shorter than the slot that did not fit,
so its size survives the cast to `uint32_t` for every capacity. The reader's half
(`ReaderBook`) does not rest on parsing: whatever it takes for a size, it compared it
with `commit_pos`. `MessagesInOrder` is a second induction on top.

**The wait backends** (`AtomicWaitProofs`), all six in one invariant: a call that could
find the word changed was there when it changed, and it comes to its last comparison,
or gives up, only after a deadline of its own (`SeenBook`).

**The control block** (`ControlBlockProofs`). `validate_control_block` accepts an alignment
of 0, so that `AcceptedIsValid` alone does not exclude that a varlen peer's validation
repairs an accepted block under a fixed writer. `BlockInv` adds that init wrote the
geometry it tested and that it is still there, and that a checked ring is still one
that passes: the repair changes the alignment only, which the constructor and
`item_count` do not use.

### Only model-checked

- Liveness (`ProgressReturns`, `TimedReturns`, `StreamDelivered`, `FullIsTemporary`,
  `ChangeNoticed`, `TimedWaitReturns`, `BothFinish`): it needs fairness and `ENABLED`,
  which the prover does not treat.
- That the varlen ring implements `BoundedFifo`. The queue of the mapping is found by
  walking from slot to slot, and what such a walk yields takes an induction over the
  memory's contents. `PublishedParses` and `VarlenMessagesInOrder` are the state
  invariants it rests on: that every message is there once, complete and in order.

## Not modelled

- `atomic_notify_all_if_waiters`, the Windows tuning read from the environment,
  `atomic_backoff::pause`: no effect on shared state.
- `fill_ratio` and `next_payload_size`: they change nothing.
- `run_varlen_channel` of the example: the loops of `run_fixed_channel` over the
  varlen ring, which would multiply the two largest state spaces for the same
  question. `basic_usage` and the benchmarks: the same calls in a row.
- `reserve_result`, `message_meta`, platform macros: plain data.
- 64-bit overflow of positions; `read_advance` beyond what was published and
  memory copies longer than a slot, which the contract excludes.
- Attachment concurrent with initialisation.
- A thread that dies while the other sleeps: the code does nothing about it.

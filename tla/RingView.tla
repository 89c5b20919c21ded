------------------------------ MODULE RingView ------------------------------
(***************************************************************************)
(* The occupancy queries of ring_view over a fixed ring that is in use:    *)
(* used_bytes loads write_pos and read_pos one after the other while both  *)
(* sides carry on.  The producer asks between its own calls, the consumer  *)
(* between its own, a monitor at any time.                                 *)
(***************************************************************************)
EXTENDS FixedRing

VARIABLES looker,  \* who is inside used_bytes, "nobody" if no one is
          lwrite,  \* write_pos as used_bytes loaded it
          told     \* free bytes the producer was told of since its last reservation

viewVars == <<looker, lwrite, told>>
allVars == <<vars, viewVars>>

ViewInit == Init /\ looker = "nobody" /\ lwrite = 0 /\ told = 0

-----------------------------------------------------------------------------
\* Mutant: without write >= read the difference wraps around and is capped.
UsedUnguarded(write, read) ==
  IF write >= read /\ write - read <= Capacity THEN write - read ELSE Capacity

\* What used_bytes makes of its two loads.
used_bytes(write, read) ==
  LET used == IF write >= read THEN write - read ELSE 0
  IN  IF used > Capacity THEN Capacity ELSE used

available_bytes(write, read) == Capacity - used_bytes(write, read)

\* Mutant: the commit front taken for the reservation front.
LoadCommitPos(who) ==
  /\ looker = "nobody"
  /\ who = "writer" => wpc = "idle"
  /\ who = "reader" => rpc \in {"idle", "view"}
  /\ looker' = who /\ lwrite' = commit_pos
  /\ UNCHANGED <<vars, told>>

LoadWritePos(who) ==
  /\ looker = "nobody"
  /\ who = "writer" => wpc = "idle"
  /\ who = "reader" => rpc \in {"idle", "view"}
  /\ looker' = who /\ lwrite' = write_pos
  /\ UNCHANGED <<vars, told>>

LoadReadPos ==
  /\ looker # "nobody"
  /\ looker' = "nobody" /\ lwrite' = 0
  /\ told' = IF looker = "writer" THEN available_bytes(lwrite, read_pos) ELSE told
  /\ UNCHANGED vars

\* Steps of the ring; a thread inside used_bytes does nothing else.
RingStep ==
  /\ \/ looker # "writer" /\ WriterNext
     \/ looker # "reader" /\ ReaderNext
     \/ WaiterFlag
  /\ told' = IF write_pos' = write_pos THEN told ELSE 0
  /\ UNCHANGED <<looker, lwrite>>

ViewNext ==
  RingStep \/ LoadReadPos \/ \E who \in {"writer", "reader", "monitor"} : LoadWritePos(who)

ViewSpec == ViewInit /\ [][ViewNext]_allVars

-----------------------------------------------------------------------------
\* used_bytes never reports more than is in use when it returns, and so never
\* less free space, whoever asks: the consumer may overtake the write_pos it
\* loaded first, the producer only adds to it.
UsedNeverTooHigh ==
  [][LoadReadPos => used_bytes(lwrite, read_pos) <= write_pos - read_pos]_allVars

\* What available_bytes tells the producer can be relied upon: once it reports
\* room for a slot the next try_reserve is not refused, whatever the consumer
\* does in between and although try_reserve decides with an index comparison
\* instead of a subtraction.
AvailableIsReservable == told >= ItemSize /\ wpc = "reserve" => ~RingFull

\* The inductive invariant for AvailableIsReservable, on top of IInv.
ViewInv ==
  /\ looker \in {"nobody", "writer", "reader", "monitor"} /\ lwrite \in Nat /\ told \in Nat
  /\ looker # "nobody" => lwrite <= write_pos
  /\ looker = "writer" => lwrite = write_pos /\ wpc = "idle"
  /\ write_pos + told <= read_pos + Capacity
  /\ wpc = "reserve" => write_pos + told <= wread + Capacity

=============================================================================

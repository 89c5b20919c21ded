---------------------------- MODULE ControlBlock ----------------------------
(***************************************************************************)
(* The control block's geometry: init_control_block, the validations a     *)
(* peer runs before it attaches, and what a fixed_writer does with the     *)
(* geometry.  Any peer may call any of them at any time; each call is one  *)
(* step, because the fields are plain memory that a program has to order   *)
(* itself.  A process that aborts dies and leaves the block to the others. *)
(***************************************************************************)
EXTENDS Integers

CONSTANTS Capacities, Alignments, ItemSizes,  \* arguments callers try
          LegacyCapacity                      \* of a segment found in memory

ASSUME ControlBlockAssumption ==
  /\ Capacities \subseteq Nat /\ Alignments \subseteq Nat /\ ItemSizes \subseteq Nat
  /\ LegacyCapacity \in Nat \ {0}

VARIABLES header,  \* the control block
          origin,  \* who wrote it last: "memory" (found there) or "init"
          last,    \* the last call, and whether it succeeded
          checked  \* is_valid_fixed_ring passed and nobody initialised since

vars == <<header, origin, last, checked>>

MaxAlignment == 64

is_valid_data_alignment(a) == a # 0 /\ a \in {2 ^ k : k \in 0 .. 6} /\ a <= MaxAlignment

validate_control_block(h) ==
  /\ h.magic /\ h.version_major = 0 /\ h.header_size = "control_block"
  /\ h.data_alignment = 0 \/ is_valid_data_alignment(h.data_alignment)
  /\ h.data_capacity # 0

\* Mutant: the item multiple left to the constructor.
IsFixedRing(h) ==
  validate_control_block(h) /\ h.layout_type = "fixed" /\ h.fixed_item_size # 0

is_valid_fixed_ring(h) ==
  /\ validate_control_block(h)
  /\ h.layout_type = "fixed"
  /\ h.fixed_item_size # 0
  /\ h.data_capacity % h.fixed_item_size = 0

\* What a segment may hold before anyone calls the library: zeroed memory, or a
\* ring of an older version whose alignment was never set.
ZeroedMemory ==
  [magic |-> FALSE, version_major |-> 0, header_size |-> "zero", layout_type |-> "fixed",
   data_capacity |-> 0, data_alignment |-> 0, fixed_item_size |-> 0]
LegacySegment(layout, item_size) ==
  [magic |-> TRUE, version_major |-> 0, header_size |-> "control_block", layout_type |-> layout,
   data_capacity |-> LegacyCapacity, data_alignment |-> 0, fixed_item_size |-> item_size]

NoCall == [call |-> "none", ok |-> TRUE]

Init ==
  /\ \/ header = ZeroedMemory
     \/ \E layout \in {"fixed", "varlen"}, item_size \in ItemSizes :
          header = LegacySegment(layout, item_size)
  /\ origin = "memory"
  /\ last = NoCall
  /\ checked = FALSE

-----------------------------------------------------------------------------
\* Mutants: the multiple-of-alignment test dropped; a legacy alignment left as
\* it is.
AnyNonZeroCapacity(capacity, alignment) ==
  is_valid_data_alignment(alignment) /\ capacity # 0
ValidateWithoutRepair ==
  /\ last' = [call |-> "validate_varlen",
              ok |-> validate_control_block(header) /\ header.layout_type = "varlen"]
  /\ UNCHANGED <<header, origin, checked>>

GeometryAccepted(capacity, alignment) ==
  is_valid_data_alignment(alignment) /\ capacity # 0 /\ capacity % alignment = 0

\* init_control_block: (re)initialises in place, whoever uses the block, or
\* leaves it alone.
InitControlBlock(capacity, layout, alignment, item_size) ==
  IF GeometryAccepted(capacity, alignment)
  THEN /\ header' = [magic |-> TRUE, version_major |-> 0, header_size |-> "control_block",
                     layout_type |-> layout, data_capacity |-> capacity,
                     data_alignment |-> alignment, fixed_item_size |-> item_size]
       /\ origin' = "init"
       /\ last' = [call |-> "init", ok |-> TRUE]
       /\ checked' = FALSE
  ELSE /\ last' = [call |-> "init", ok |-> FALSE]
       /\ UNCHANGED <<header, origin, checked>>

\* validate_varlen_control_block: repairs a legacy alignment, then validates.
ValidateVarlen ==
  /\ header' = IF header.data_alignment = 0 THEN [header EXCEPT !.data_alignment = 8] ELSE header
  /\ last' = [call |-> "validate_varlen",
              ok |-> validate_control_block(header') /\ header'.layout_type = "varlen"]
  /\ UNCHANGED <<origin, checked>>

\* The pre-flight check of a producer.
CheckFixedRing ==
  /\ checked' = is_valid_fixed_ring(header)
  /\ last' = [call |-> "is_valid_fixed_ring", ok |-> checked']
  /\ UNCHANGED <<header, origin>>

\* fixed_writer(header), with or without a check before: the process aborts on a
\* capacity that is no multiple of the item size.
ConstructFixedWriter ==
  /\ last' = [call |-> "fixed_writer",
              ok |-> header.fixed_item_size = 0 \/ header.data_capacity % header.fixed_item_size = 0]
  /\ UNCHANGED <<header, origin, checked>>

\* item_count(): divides by the item size.
ItemCount ==
  /\ last' = [call |-> "item_count", ok |-> header.fixed_item_size # 0]
  /\ UNCHANGED <<header, origin, checked>>

Next ==
  \/ \E capacity \in Capacities, layout \in {"fixed", "varlen"},
       alignment \in Alignments, item_size \in ItemSizes :
       InitControlBlock(capacity, layout, alignment, item_size)
  \/ ValidateVarlen \/ CheckFixedRing \/ ConstructFixedWriter \/ ItemCount

Spec == Init /\ [][Next]_vars

-----------------------------------------------------------------------------
\* A block that init_control_block accepted passes validate_control_block in
\* every peer, whatever else was called since, and its laps start on aligned
\* addresses.  (It need not pass is_valid_fixed_ring: init does not look at the
\* item size.)
AcceptedIsValid ==
  origin = "init" =>
    validate_control_block(header) /\ header.data_capacity % header.data_alignment = 0

\* A varlen block that passed validation, a legacy one included, has an
\* alignment that slot sizes can be rounded to: with 0, align_up_u32 is 0.
ValidatedVarlenIsUsable ==
  last = [call |-> "validate_varlen", ok |-> TRUE] => is_valid_data_alignment(header.data_alignment)

\* The pre-flight check is enough: once is_valid_fixed_ring has passed, and until
\* somebody initialises the block again, no fixed_writer aborts over it and
\* item_count does not divide by zero, although init_control_block accepts rings
\* where they would, a legacy segment may hold anything, and the varlen
\* validation may change the block between the check and the constructor.
PreflightSuffices ==
  checked /\ ~last.ok => last.call \notin {"fixed_writer", "item_count"}

\* The inductive invariant behind the three.  validate_control_block lets an
\* alignment of 0 pass, so AcceptedIsValid alone does not rule out that the
\* varlen validation repairs an accepted block; that init wrote the geometry it
\* tested, and nobody has changed it since, does.  And what the pre-flight check
\* saw is still there.
Headers ==
  [magic : BOOLEAN, version_major : Nat, header_size : {"zero", "control_block"},
   layout_type : {"fixed", "varlen"}, data_capacity : Nat, data_alignment : Nat,
   fixed_item_size : Nat]

BlockInv ==
  /\ header \in Headers
  /\ origin = "init" => GeometryAccepted(header.data_capacity, header.data_alignment)
  /\ checked \in BOOLEAN /\ (checked => is_valid_fixed_ring(header))
  /\ AcceptedIsValid /\ ValidatedVarlenIsUsable /\ PreflightSuffices

=============================================================================

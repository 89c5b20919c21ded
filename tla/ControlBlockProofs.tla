------------------------- MODULE ControlBlockProofs -------------------------
(***************************************************************************)
(* The control block's geometry holds whatever arguments callers try and   *)
(* whatever order they call in: proved for every capacity, alignment and   *)
(* item size.                                                              *)
(***************************************************************************)
EXTENDS ControlBlock, TLAPS

\* init_control_block writes a whole block or none; a block it wrote has to be
\* checked anew.
LEMMA InitBlockKeepsInv ==
  ASSUME BlockInv, NEW capacity \in Capacities, NEW layout \in {"fixed", "varlen"},
         NEW alignment \in Alignments, NEW item_size \in ItemSizes,
         InitControlBlock(capacity, layout, alignment, item_size)
  PROVE  BlockInv'
<1>1. capacity \in Nat /\ alignment \in Nat /\ item_size \in Nat
  BY ControlBlockAssumption
<1>2. last'.call = "init"
  BY DEF InitControlBlock
<1>3. CASE GeometryAccepted(capacity, alignment)
  <2>1. /\ header' = [magic |-> TRUE, version_major |-> 0, header_size |-> "control_block",
                      layout_type |-> layout, data_capacity |-> capacity,
                      data_alignment |-> alignment, fixed_item_size |-> item_size]
        /\ checked' = FALSE
    BY <1>3 DEF InitControlBlock
  <2>2. /\ header' \in Headers /\ header'.magic /\ header'.version_major = 0
        /\ header'.header_size = "control_block" /\ header'.data_capacity = capacity
        /\ header'.data_alignment = alignment
    BY <1>1, <2>1 DEF Headers
  <2>3. AcceptedIsValid'
    BY <1>3, <2>2 DEF AcceptedIsValid, validate_control_block, GeometryAccepted, is_valid_data_alignment
  <2>4. GeometryAccepted(header'.data_capacity, header'.data_alignment)
    BY <1>3, <2>2
  <2>5. ValidatedVarlenIsUsable' /\ PreflightSuffices'
    BY <1>2, <2>1 DEF ValidatedVarlenIsUsable, PreflightSuffices
  <2> QED BY <2>1, <2>2, <2>3, <2>4, <2>5, Zenon DEF BlockInv
<1>4. CASE ~GeometryAccepted(capacity, alignment)
  <2>1. UNCHANGED <<header, origin, checked>>
    BY <1>4 DEF InitControlBlock
  <2>2. AcceptedIsValid' /\ (checked' => is_valid_fixed_ring(header'))
    BY <2>1, Zenon DEF BlockInv, AcceptedIsValid
  <2> QED BY <1>2, <2>1, <2>2 DEF BlockInv, ValidatedVarlenIsUsable, PreflightSuffices
<1> QED BY <1>3, <1>4

\* validate_varlen_control_block has nothing to repair in a block that init wrote,
\* and leaves no alignment of 0 in any other.
LEMMA ValidateKeepsInv ==
  ASSUME BlockInv, ValidateVarlen
  PROVE  BlockInv'
<1>1. /\ UNCHANGED <<origin, checked>> /\ header \in Headers
      /\ header' = (IF header.data_alignment = 0 THEN [header EXCEPT !.data_alignment = 8] ELSE header)
      /\ last' = [call |-> "validate_varlen",
                  ok |-> validate_control_block(header') /\ header'.layout_type = "varlen"]
  BY DEF ValidateVarlen, BlockInv
<1>2. header' \in Headers /\ header'.data_alignment # 0
  BY <1>1 DEF Headers
<1>3. origin = "init" => header' = header
  BY <1>1 DEF BlockInv, GeometryAccepted, is_valid_data_alignment
<1>4. AcceptedIsValid'
  <2> SUFFICES ASSUME origin = "init"
               PROVE  validate_control_block(header') /\ header'.data_capacity % header'.data_alignment = 0
    BY <1>1 DEF AcceptedIsValid
  <2> QED BY <1>3 DEF BlockInv, AcceptedIsValid
<1>5. ValidatedVarlenIsUsable'
  <2> SUFFICES ASSUME last' = [call |-> "validate_varlen", ok |-> TRUE]
               PROVE  is_valid_data_alignment(header'.data_alignment)
    BY DEF ValidatedVarlenIsUsable
  <2> DEFINE passes == validate_control_block(header') /\ header'.layout_type = "varlen"
  <2>1. [call |-> "validate_varlen", ok |-> passes] = [call |-> "validate_varlen", ok |-> TRUE]
    BY <1>1, Zenon
  <2>2. passes
    <3> HIDE DEF passes
    <3>1. [call |-> "validate_varlen", ok |-> passes].ok = [call |-> "validate_varlen", ok |-> TRUE].ok
      BY <2>1, Zenon
    <3>2. passes = TRUE
      BY <3>1
    <3> QED BY <3>2
  <2> QED BY <1>2, <2>2 DEF validate_control_block
<1>6. /\ checked' \in BOOLEAN /\ (checked' => is_valid_fixed_ring(header'))
      /\ PreflightSuffices'
  <2>1. /\ header'.magic = header.magic /\ header'.version_major = header.version_major
        /\ header'.header_size = header.header_size /\ header'.layout_type = header.layout_type
        /\ header'.data_capacity = header.data_capacity
        /\ header'.fixed_item_size = header.fixed_item_size
    BY <1>1 DEF Headers
  <2>2. validate_control_block(header) => validate_control_block(header')
    <3>1. is_valid_data_alignment(8)
      <4>1. 2 ^ 3 = 8
        OBVIOUS
      <4> QED BY <4>1 DEF is_valid_data_alignment, MaxAlignment
    <3>2. header'.data_alignment = 8 \/ header'.data_alignment = header.data_alignment
      BY <1>1 DEF Headers
    <3> QED BY <2>1, <3>1, <3>2 DEF validate_control_block
  <2>3. last'.call = "validate_varlen"
    BY <1>1
  <2> QED BY <1>1, <2>1, <2>2, <2>3 DEF BlockInv, PreflightSuffices, is_valid_fixed_ring
<1>7. origin' = "init" => GeometryAccepted(header'.data_capacity, header'.data_alignment)
  BY <1>1, <1>3, Zenon DEF BlockInv
<1> QED BY <1>2, <1>4, <1>5, <1>6, <1>7 DEF BlockInv

\* What the check saw is what the constructor and item_count find.
LEMMA WriterKeepsInv ==
  ASSUME BlockInv, CheckFixedRing \/ ConstructFixedWriter \/ ItemCount \/ UNCHANGED vars
  PROVE  BlockInv'
<1>1. /\ UNCHANGED <<header, origin>> /\ header \in Headers
      /\ last' = last \/ last'.call \in {"is_valid_fixed_ring", "fixed_writer", "item_count"}
  BY DEF CheckFixedRing, ConstructFixedWriter, ItemCount, vars, BlockInv
<1>2. AcceptedIsValid'
  BY <1>1 DEF BlockInv, AcceptedIsValid
<1>3. ValidatedVarlenIsUsable'
  BY <1>1 DEF BlockInv, ValidatedVarlenIsUsable
<1>4. checked' \in BOOLEAN /\ (checked' => is_valid_fixed_ring(header'))
  <2>1. CASE CheckFixedRing
    <3>1. is_valid_fixed_ring(header) \in BOOLEAN
      BY <1>1 DEF is_valid_fixed_ring, validate_control_block, Headers
    <3> QED BY <1>1, <2>1, <3>1, Zenon DEF CheckFixedRing
  <2>2. CASE UNCHANGED checked
    BY <1>1, <2>2, Zenon DEF BlockInv
  <2> QED BY <2>1, <2>2 DEF ConstructFixedWriter, ItemCount, vars
<1>5. PreflightSuffices'
  <2> SUFFICES ASSUME checked', ~last'.ok
               PROVE  last'.call \notin {"fixed_writer", "item_count"}
    BY DEF PreflightSuffices
  <2>1. header.fixed_item_size # 0 /\ header.data_capacity % header.fixed_item_size = 0
    BY <1>1, <1>4 DEF is_valid_fixed_ring
  <2>2. CASE CheckFixedRing
    BY <2>2 DEF CheckFixedRing
  <2>3. CASE ConstructFixedWriter
    BY <2>1, <2>3 DEF ConstructFixedWriter
  <2>4. CASE ItemCount
    BY <2>1, <2>4 DEF ItemCount
  <2>5. CASE UNCHANGED vars
    BY <2>5 DEF vars, BlockInv, PreflightSuffices
  <2> QED BY <2>2, <2>3, <2>4, <2>5
<1> QED BY <1>1, <1>2, <1>3, <1>4, <1>5 DEF BlockInv

\* In every reachable state the block is as BlockInv says, whatever capacities,
\* alignments and item sizes the callers try.
THEOREM BlockInvariantHolds == Spec => []BlockInv
<1>1. Init => BlockInv
  <2> SUFFICES ASSUME Init PROVE BlockInv
    OBVIOUS
  <2>1. header \in Headers
    <3>1. ZeroedMemory \in Headers
      BY DEF Headers, ZeroedMemory
    <3>2. ASSUME NEW layout \in {"fixed", "varlen"}, NEW item_size \in ItemSizes
          PROVE  LegacySegment(layout, item_size) \in Headers
      BY ControlBlockAssumption DEF Headers, LegacySegment
    <3> QED BY <3>1, <3>2, Zenon DEF Init
  <2>2. last.call = "none" /\ checked = FALSE
    BY DEF Init, NoCall
  <2>3. last # [call |-> "validate_varlen", ok |-> TRUE]
    BY <2>2
  <2> QED BY <2>1, <2>2, <2>3 DEF Init, BlockInv, AcceptedIsValid, ValidatedVarlenIsUsable, PreflightSuffices
<1>2. BlockInv /\ [Next]_vars => BlockInv'
  BY InitBlockKeepsInv, ValidateKeepsInv, WriterKeepsInv DEF Next
<1> QED BY <1>1, <1>2, PTL DEF Spec

\* A block that init_control_block accepted passes validate_control_block from
\* then on, and its laps start on aligned addresses.
THEOREM AcceptedStaysValid == Spec => []AcceptedIsValid
<1>1. BlockInv => AcceptedIsValid
  BY DEF BlockInv
<1> QED BY <1>1, BlockInvariantHolds, PTL

\* A varlen block that passed validation, a legacy one included, has an alignment
\* that align_up_u32 can round to.
THEOREM ValidatedIsUsable == Spec => []ValidatedVarlenIsUsable
<1>1. BlockInv => ValidatedVarlenIsUsable
  BY DEF BlockInv
<1> QED BY <1>1, BlockInvariantHolds, PTL

\* Between a pre-flight check that passed and the next initialisation, no fixed
\* writer aborts and item_count does not divide by zero, whatever the segment held
\* and whatever else was called in between.
THEOREM CheckedRingIsUsable == Spec => []PreflightSuffices
<1>1. BlockInv => PreflightSuffices
  BY DEF BlockInv
<1> QED BY <1>1, BlockInvariantHolds, PTL

=============================================================================

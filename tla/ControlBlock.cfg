CONSTANTS
  Capacities = {0, 64, 96, 100}
  Alignments = {0, 1, 3, 8, 64, 128}
  ItemSizes = {0, 20, 32}
  LegacyCapacity = 100
SPECIFICATION Spec
INVARIANTS
  AcceptedIsValid
  ValidatedVarlenIsUsable
  PreflightSuffices
  BlockInv

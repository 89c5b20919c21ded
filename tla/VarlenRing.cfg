CONSTANTS
  SeqMod = 1
  Capacity = 6
  Alignment = 1
  HeaderSize = 2
  U32 = 64
  Payloads = {0, 1, 2, 4, 5}
  MaxPos = 9
  Persistent = FALSE
  MayDecline = TRUE
  Junk = Junk
SPECIFICATION Spec
INVARIANTS
  FrontsOrdered
  CommittedIntact
  CasNeverLoses
  VarlenInv
  MessagesInOrder
PROPERTIES
  ImplementsFifo

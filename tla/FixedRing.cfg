CONSTANTS
  SeqMod = 2
  Capacity = 6
  ItemSize = 2
  MaxPos = 10
  Junk = Junk
SPECIFICATION ViewSpec
INVARIANTS
  TypeOK
  FrontsOrdered
  CommittedIntact
  IInv
  AvailableIsReservable
  ViewInv
PROPERTIES
  FrontsOnlyAdvance
  UsedNeverTooHigh

SPECIFICATION Spec
CONSTANTS
  Height = 2
  NoPair = NoPair
  A0 = A0
  B0 = B0
  A1 = A1
  B1 = B1
  A2 = A2
  A3 = A3
  Inventory <- InventoryShuffled
  Flags <- FlagsWide
  InitialFlag = 1
  MaxAccepted = 26
  MaxVersion = 5
CHECK_DEADLOCK FALSE
INVARIANT EveryRowRouted
INVARIANT RestartAccepted
INVARIANT WithinBudget
INVARIANT NoFlapping

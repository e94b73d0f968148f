\* All drivers; a receive buffer of two characters and one slot to spare.
CONSTANTS
  Size = 3
  Chars = {x, y}
  NoChar = NoChar
  NoSlot = NoSlot
  Drivers <- AllDrivers
  TxChars = {x}
  TxSize = 2
SPECIFICATION SerFairSpec
INVARIANTS
  SerTypeOK
  OverrunReported
PROPERTIES
  ImplementsQueue
  FlushMeansSent
  FlushReturns

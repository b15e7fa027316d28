SPECIFICATION MCSpec
CONSTANTS
  ilm = ilm
  pm = pm
  MaxLen = 3
  Files <- WorldFiles
  Sides <- Ends
  Sizes <- MessageSizes
  BufferCells = 3
  SocketCells = 6
  Chunk = 2
  SendMask <- Masks
  Triggers <- Both
  Closes = {TRUE, FALSE}
INVARIANTS
  ReadAsWritten
  NeighboursExact
  WorldCovered
  Framed
  KeepsConnection
  NeverBothSpin
PROPERTIES
  Delivered
  LossNoticed
CHECK_DEADLOCK FALSE

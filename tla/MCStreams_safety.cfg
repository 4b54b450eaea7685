SPECIFICATION Spec
CONSTANTS
  Cap = 2
  Id <- IdOne
  LittleEndian = TRUE
  MaxPut = 6
  MaxBegin = 3
INVARIANTS TypeOK EofEndsStream EndIsLast NothingLost StreamsIInv
PROPERTY NothingAfterLoss
CHECK_DEADLOCK FALSE

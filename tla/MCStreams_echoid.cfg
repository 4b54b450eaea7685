SPECIFICATION Spec
CONSTANTS
  Cap = 2
  Id <- IdOne
  LittleEndian = TRUE
  MaxPut = 6
  MaxBegin = 3
INVARIANT EchoId
CHECK_DEADLOCK FALSE

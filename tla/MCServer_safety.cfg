SPECIFICATION Spec
CONSTANTS
  Conn = {c1, c2}
  Id = {i1, i2}
  Worker = {w1, w2}
  Fd = {f1, f2}
  NoConn = NoConn
  NoRequest = NoRequest
  NoFd = NoFd
  UIntMax = 9
SYMMETRY Symmetry
INVARIANTS TypeOK NoDangling ExclusiveUse ActivesExact BacklogExact OwnSocket WorkersStay ShutdownIsLast SnapshotExact IInv
CHECK_DEADLOCK FALSE

SPECIFICATION FairSpec
CONSTANTS
  Conn = {c1}
  Id = {i1}
  Worker = {w1}
  Fd = {f1}
  NoConn = NoConn
  NoRequest = NoRequest
  NoFd = NoFd
  UIntMax = 9
PROPERTY IdsReusable
CHECK_DEADLOCK FALSE

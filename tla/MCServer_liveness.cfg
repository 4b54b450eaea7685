SPECIFICATION FairSpec
CONSTANTS
  Conn = {c1, c2}
  Id = {i1}
  Worker = {w1, w2}
  Fd = {f1, f2}
  NoConn = NoConn
  NoRequest = NoRequest
  NoFd = NoFd
  UIntMax = 9
PROPERTY PledgedEnds HangupCloses ServiceSafety PledgedUntouched
CHECK_DEADLOCK FALSE

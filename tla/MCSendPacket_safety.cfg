SPECIFICATION FairSpec
CONSTANTS
  Thread = {t1, t2, t3}
  NoThread = NoThread
  Content = {0, 2}
  HeaderSize = 2
  PointerSize = 2
  MaxPackets = 4
INVARIANTS TypeOK FramingUnlessTorn
PROPERTY SendsEnd
CHECK_DEADLOCK FALSE

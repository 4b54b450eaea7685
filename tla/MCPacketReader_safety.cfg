SPECIFICATION FairSpec
CONSTANTS
  HeaderSize = 2
  BodySize = 2
  Content = {0, 1, 2, 3}
  Padding = {0, 1, 2}
INVARIANTS TypeOK AlignedUnlessEmpty NeverOverreads
PROPERTY HangupSeen
CHECK_DEADLOCK FALSE

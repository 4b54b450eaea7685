SPECIFICATION Spec
CONSTANTS
  HeaderSize = 2
  BodySize = 2
  Content = {0, 1, 2, 3}
  Padding = {0, 1, 2}
INVARIANT FlagMeansError
CHECK_DEADLOCK FALSE

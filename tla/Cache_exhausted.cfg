SPECIFICATION CacheSpec
CONSTANTS
  BlockCount = 4
  LowMark = 3
  HighMark = 4
  Addrs = {1, 2, 3}
  Values = {0, 1}
CHECK_DEADLOCK FALSE
PROPERTY MissesServed

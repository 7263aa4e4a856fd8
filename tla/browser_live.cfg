\* For ever, or with a total timeout of one cycle and a half.
SPECIFICATION Spec
CONSTANTS
  Datagrams <- ManyTypes
  QueueCap = 1
  Rows <- MCRows
  Timeouts <- TwoTimeouts
  Interval = 2
  Slice = 1
  MaxResults = 3
  MaxTypes = 2
  PacketCap = 2
  QueryFor <- MCQueryFor
  NoQuery <- MCNoQuery
INVARIANT SleepBounded
PROPERTIES SignalStops EndsByItself TypesHeardAreAsked
CHECK_DEADLOCK FALSE

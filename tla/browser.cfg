\* No total timeout: cycles until a signal.
SPECIFICATION Spec
CONSTANTS
  Datagrams <- AllDatagrams
  QueueCap = 1
  Rows <- MCRows
  Timeouts <- Endless
  Interval = 2
  Slice = 1
  MaxResults = 3
  MaxTypes = 2
  PacketCap = 2
  QueryFor <- MCQueryFor
  NoQuery <- MCNoQuery
INVARIANTS TypeOK ResultsDistinct KnownTypesAsked ShutdownBounded NothingLeaks
PROPERTIES RowsStay ActsAsSeeker
CHECK_DEADLOCK FALSE

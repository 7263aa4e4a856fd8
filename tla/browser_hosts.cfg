\* A host that answers.
SPECIFICATION Spec
CONSTANTS
  Datagrams <- HostDatagrams
  QueueCap = 1
  Rows <- MCRows
  Timeouts <- TwoTimeouts
  Interval = 2
  Slice = 1
  MaxResults = 2
  MaxTypes = 2
  PacketCap = 2
  QueryFor <- MCQueryFor
  NoQuery <- MCNoQuery
INVARIANT HostsReported
CHECK_DEADLOCK FALSE

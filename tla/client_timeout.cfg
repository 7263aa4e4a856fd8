\* Two sockets, one timeout.
SPECIFICATION Spec
CONSTANTS
  Labels <- MCLabels
  LabelLen <- MCLabelLen
  Fold <- MCFold
  Texts <- MCTexts
  Addresses <- MCAddresses
  OutLen = 1500
  Datagrams <- OneDatagram
  QueueCap = 1
  Results <- MCResults
  Targets <- OneTarget
  Timeout = 2
  Slice = 2
  MaxResults = 3
  r1 = r1
  r2 = r2
INVARIANT WaitsUpToTimeout
CHECK_DEADLOCK FALSE

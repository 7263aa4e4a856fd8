\* Names of 8 bytes, texts of 4, three pointers in a name, room for 3 rows.
SPECIFICATION Spec
CONSTANTS
  Packets <- MCPackets
  Messages <- MCMessages
  NameSize = 8
  TextSize = 4
  MaxDepth = 3
  MaxResults = 3
INVARIANTS TypeOK RoundTrip TruncatedIsPrefix TruncatedIsIgnored
PROPERTIES ReadsForward Terminates
CHECK_DEADLOCK FALSE

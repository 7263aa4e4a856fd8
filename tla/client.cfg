\* Slices of two ticks in a timeout of three, an array of three rows.
SPECIFICATION Spec
CONSTANTS
  Labels <- MCLabels
  LabelLen <- MCLabelLen
  Fold <- MCFold
  Texts <- MCTexts
  Addresses <- MCAddresses
  OutLen = 1500
  Datagrams <- SomeDatagrams
  QueueCap = 1
  Results <- MCResults
  Targets <- MCTargets
  Timeout = 3
  Slice = 2
  MaxResults = 3
  r1 = r1
  r2 = r2
INVARIANTS TypeOK ResultsFit WaitBounded NothingLeaks TableIsWhatWasHeard
PROPERTY Terminates
CHECK_DEADLOCK FALSE

\* The receive loop, the signal and time: one configuration, two datagrams.
SPECIFICATION Spec
CONSTANTS
  Labels <- MCLabels
  LabelLen <- MCLabelLen
  Fold <- MCFold
  Texts <- MCTexts
  Addresses <- MCAddresses
  OutLen = 1500
  Datagrams <- LoopDatagrams
  QueueCap = 2
  Files <- LoopFiles
  Machines <- LoopMachines
  FileNames <- MCFileNames
  Cut <- MCCut
  Interfaces = {"lo", "eth0", "eth1"}
  MaxServices = 32
  PollTicks = 2
  None = None
INVARIANTS TypeOK ShutdownIsPrompt NothingLeaks
PROPERTIES SignalStops NoStarvation
CHECK_DEADLOCK FALSE

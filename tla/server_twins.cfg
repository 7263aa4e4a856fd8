\* Two registered services of one type.
SPECIFICATION Spec
CONSTANTS
  Labels <- MCLabels
  LabelLen <- MCLabelLen
  Fold <- MCFold
  Texts <- MCTexts
  Addresses <- MCAddresses
  OutLen = 1500
  Datagrams <- HttpDatagrams
  QueueCap = 1
  Files <- TwinFiles
  Machines <- LoopMachines
  FileNames <- MCFileNames
  Cut <- MCCut
  Interfaces = {"lo", "eth0", "eth1"}
  MaxServices = 32
  PollTicks = 0
  None = None
INVARIANT RegisteredServicesAnswered
CHECK_DEADLOCK FALSE

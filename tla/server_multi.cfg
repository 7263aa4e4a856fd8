\* A packet with two questions.
SPECIFICATION Spec
CONSTANTS
  Labels <- MCLabels
  LabelLen <- MCLabelLen
  Fold <- MCFold
  Texts <- MCTexts
  Addresses <- MCAddresses
  OutLen = 1500
  Datagrams <- TwoDatagrams
  QueueCap = 1
  Files <- LoopFiles
  Machines <- LoopMachines
  FileNames <- MCFileNames
  Cut <- MCCut
  Interfaces = {"lo", "eth0", "eth1"}
  MaxServices = 32
  PollTicks = 0
  None = None
INVARIANT EveryQuestionAnswered
CHECK_DEADLOCK FALSE

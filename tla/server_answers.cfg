\* Every question against every configuration: what is answered.
SPECIFICATION Spec
CONSTANTS
  Labels <- MCLabels
  LabelLen <- MCLabelLen
  Fold <- MCFold
  Texts <- MCTexts
  Addresses <- MCAddresses
  OutLen = 1500
  Datagrams <- AnswerDatagrams
  QueueCap = 1
  Files <- AnswerFiles
  Machines <- AnswerMachines
  FileNames <- MCFileNames
  Cut <- MCCut
  Interfaces = {"lo", "eth0", "eth1"}
  MaxServices = 32
  PollTicks = 0
  None = None
INVARIANTS SrvNamesRuntimeHost RepliesAnswerTheQuestion EnumeratedTypesResolve
CHECK_DEADLOCK FALSE

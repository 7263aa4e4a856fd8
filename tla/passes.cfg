\* All sequences of up to four parsed records, five lines or four addresses;
\* room for two rows and for two services.
SPECIFICATION Spec
CONSTANTS
  Labels <- MCLabels
  LabelLen <- MCLabelLen
  Fold <- MCFold
  Texts <- MCTexts
  Addresses <- MCAddresses
  OutLen = 1500
  FileNames <- MCFileNames
  Cut <- MCCut
  Interfaces = {"lo", "eth0", "eth1"}
  MaxServices = 2
  Parsed <- MCParsed
  Lines <- MCLines
  Entries <- MCEntries
  MaxRows = 4
  MaxLines = 5
  MaxEntries = 4
  Cap = 2
INVARIANTS DedupExact AppendInBatches TypesExact MergeExact LoadExact AddressesExact
CHECK_DEADLOCK FALSE

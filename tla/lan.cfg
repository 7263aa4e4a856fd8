\* One host started twice, the other once; room for all rows.
SPECIFICATION Spec
CONSTANTS
  Labels <- MCLabels
  LabelLen <- MCLabelLen
  Fold <- MCFold
  Texts <- MCTexts
  Addresses <- MCAddresses
  OutLen = 1500
  FileNames <- MCFileNames
  Cut <- MCCut
  MaxServices = 32
  Interfaces = {}
  Hosts <- MCHosts
  MachineOf <- MCMachineOf
  FilesOf <- MCFilesOf
  MaxBoots <- MCMaxBoots
  MaxRows = 8
  MaxTypes = 2
INVARIANT RowsAreOfOneService
PROPERTIES FindsWhatIsAnnounced HeardInTheEnd
CHECK_DEADLOCK FALSE

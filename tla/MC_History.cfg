SPECIFICATION Spec
CONSTANTS
  Copies = {1}
  HistFile = HistFile
  OtherFiles = {other}
  MaxEntries = 2
  MaxLength = 4
  MaxCalls = 6
INVARIANTS TypeOK AppendedOnce SavedStays

SPECIFICATION FairSpec
CONSTANTS
  Lines <- MCLines
  MaxElements = 7
  MaxForks = 3
INVARIANTS TypeOK NothingDropped SeesAssignmentsBefore InOrderOnce ChainsRun
PROPERTY PromptReturns

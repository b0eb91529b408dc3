SPECIFICATION FairSpec
CONSTANTS
  Lines <- MCLines
  MaxElements = 7
  MaxForks = 3
INVARIANT ShortCircuit

SPECIFICATION Spec
CONSTANTS
  Key <- MCKey
  Value <- MCValue
  Hash <- MCHash
  InitialCapacity = 4
  MaxCapacity = 32
  Environments <- MCEnvironments
  MaxCalls = 6
INVARIANTS TypeOK IsMap SizeIsSound

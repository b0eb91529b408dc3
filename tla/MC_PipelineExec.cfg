SPECIFICATION FairSpec
CHECK_DEADLOCK FALSE
CONSTANTS
  Lines <- MCLines
  Redirs <- MCRedirs
  MaxChildren = 5
  Junk <- MCJunk
  MaxFd = 6
INVARIANT ChildrenDoNotReturn

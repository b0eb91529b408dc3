SPECIFICATION Spec
CONSTANTS
  Pid = {p1, p2, p3}
  MaxForks = 3
  MaxPipe = 3
SYMMETRY Symm
INVARIANTS TypeOK JobsAreChildren ForegroundNotStolen NoLostWakeup ReaperFaultNeedsForkFailure
PROPERTY JobListIsTable

SPECIFICATION FairSpec
CONSTANTS
  Pid = {p1, p2}
  MaxForks = 2
  MaxPipe = 2
PROPERTIES ExitedJobsAreReported LinesReturn

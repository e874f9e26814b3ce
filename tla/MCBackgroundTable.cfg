SPECIFICATION FairSpec
CONSTANTS
  Pid = {p1, p2, p3}
  None = none
  MaxProcesses = 3
INVARIANT LiveJobsAreRecorded

SPECIFICATION FairSpec
CONSTANTS
  Pid = {p1, p2, p3}
  None = none
  MaxProcesses = 2
INVARIANTS TypeOK CountsJobs
PROPERTY EndedJobsAreReported

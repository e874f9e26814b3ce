SPECIFICATION FairSpec
CONSTANTS
  Pid = {p1, p2}
  Shell = shell
  None = none
  Modes = {TRUE, FALSE}
  StdinFiles = {TRUE, FALSE}
PROPERTY InterruptEndsEveryJob

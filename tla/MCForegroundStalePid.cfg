SPECIFICATION Spec
CONSTANTS
  Pid = {p1, p2}
  Shell = shell
  None = none
  Modes = {TRUE, FALSE}
  StdinFiles = {TRUE, FALSE}
INVARIANT HandlerTargetsChild

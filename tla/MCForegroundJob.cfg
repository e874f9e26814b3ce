SPECIFICATION FairSpec
CONSTANTS
  Pid = {p1, p2}
  Shell = shell
  None = none
  Modes = {TRUE, FALSE}
  StdinFiles = {TRUE, FALSE}
INVARIANTS TypeOK PromptOwnsTerminal JobOwnsTerminal NoJobLeftBehind ShellShielded
PROPERTIES InterruptEndsJob CommandReturns JobTerminalSpec

SPECIFICATION Spec
CONSTANTS
  Outcomes = {0, 1, 2}
  MaxConditions = 2
  MaxCommands = 2
  Programs <- NormalPrograms
INVARIANT OnlyExitEndsShell

SPECIFICATION Spec
CONSTANTS
  Outcomes = {0, 1}
  MaxConditions = 2
  MaxCommands = 2
  Programs <- NormalPrograms
PROPERTY RunsOnce

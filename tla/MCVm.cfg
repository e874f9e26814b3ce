SPECIFICATION Spec
CONSTANTS
  Outcomes = {0, 1}
  MaxConditions = 3
  MaxCommands = 3
  Programs <- PlainPrograms
INVARIANTS TypeOK StopsAtEnd EachItemOnce
PROPERTIES FollowsLanguage EndsWithProgram

SPECIFICATION Spec
CONSTANTS
  Lines <- MixedLines
  MaxLines = 2
  Limit = 12
  Capacity = 1
  Positions = 6
PROPERTY LineEnds
CHECK_DEADLOCK FALSE

SPECIFICATION Spec
CONSTANTS
  Lines <- GoodLines
  MaxLines = 2
  Limit = 12
  Capacity = 1
  Positions = 6
INVARIANTS TypeOK PipesConnect LineIsObeyed StreamsRestored NoPipeLeftOpen
PROPERTY LineEnds

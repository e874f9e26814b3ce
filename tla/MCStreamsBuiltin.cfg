SPECIFICATION Spec
CONSTANTS
  Lines <- RedirectedBuiltins
  MaxLines = 2
  Limit = 12
  Capacity = 1
  Positions = 6
INVARIANT LineIsObeyed

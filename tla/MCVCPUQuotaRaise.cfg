CONSTANTS
  Grows <- MCGrows
  Size <- MCSize
  Limit = 2
  MaxPasses = 1
SPECIFICATION Spec
INVARIANT CounterCovers

CONSTANTS
  Grows <- MCGrows
  Size <- MCSize
  Limit = 2
  MaxPasses = 1
SPECIFICATION Spec
INVARIANT TypeOK
PROPERTY CompletePassCovers
PROPERTY ChargesAddUp
PROPERTY CounterSettles

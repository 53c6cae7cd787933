CONSTANTS
  Burns = {b}
  b = b
  v = v
  w = w
  Validators = {v, w}
  Threshold = 2
  Places <- PlacesInABlock
  MaxReorg = 2
  MaxHeight = 4
  Confirmations = 2
  MaxErrors = 0
SPECIFICATION Spec
INVARIANT PaidOnce
CHECK_DEADLOCK FALSE

CONSTANTS
  Burns = {b}
  b = b
  v = v
  w = w
  Validators = {v, w}
  Threshold = 2
  Places <- PlacesApart
  MaxReorg = 2
  MaxHeight = 4
  Confirmations = 2
  MaxErrors = 2
SPECIFICATION Spec
INVARIANTS
  BurnTypeOK
  CompletedIsPaid
  TablesAgree
PROPERTIES
  EventTakenOnce
  ImplementsOnePayment
  BurnSettles
CHECK_DEADLOCK FALSE

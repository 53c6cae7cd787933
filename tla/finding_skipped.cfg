CONSTANTS
  a = a
  b = b
  Addresses = {a}
  FirstMembers <- OneMember
  DefaultFile <- Defaults
  MainFile <- NoSettings
  Environment <- NoSettings
  MaxErrors = 0
  MaxEvents = 2
  Base = 2
  Digits = 2
  FirstTime = 2
  MaxTime = 8
  MaxSkew = 0
  PageSize = 2
SPECIFICATION Safety
INVARIANT NothingSkipped
CHECK_DEADLOCK FALSE

CONSTANTS
  a = a
  b = b
  Addresses = {a, b}
  FirstMembers <- TwoMembers
  DefaultFile <- Defaults
  MainFile <- NoSettings
  Environment <- NoSettings
  MaxErrors = 1
  MaxEvents = 2
  Base = 2
  Digits = 2
  FirstTime = 2
  MaxTime = 5
  MaxSkew = 1
  PageSize = 1
SPECIFICATION Spec
INVARIANTS
  ProcessTypeOK
  MembersFollow
  OnlyShadowed
  NothingTwice
PROPERTIES
  ComesUp
  MembersCatchUp
  FeedsCatchUp
CHECK_DEADLOCK FALSE

CONSTANTS
  MaxInt = 127
  MaxPercentage = 10
  Operations = {1, 2, 3}
  Amounts <- LargeAmounts
  FeePercentage = 3
  MemberCount = 2
  BridgeAccount = "bridge"
  Payer = "payer"
  Hbar = "hbar"
  NativeToWrapped <- Wrapping
  NilErc20Address = "nil"
  Receivers = {"receiver"}
  Spellings = {"checksum", "lower"}
  Router = "router"
  Keys = {"member", "stranger"}
  MemberKeys = {"member"}
SPECIFICATION AccountingSpec
INVARIANTS
  FeeIsPercentage
CHECK_DEADLOCK FALSE

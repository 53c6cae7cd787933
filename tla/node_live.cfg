CONSTANTS
  Transfers = {t1}
  v = v
  p = p
  q = q
  x = x
  Signers = {v, p, q}
  Members = {v, p, q}
  Self = v
  Misconfigured = {q}
  MaxCopies = 1
  MaxLedger = 5
  MaxErrors = 0
  RecoverFrom = 0
  WholeAnswers = TRUE
  MaxCrashes = 1
SPECIFICATION FairSpec
INVARIANTS
  ForeignIsRecovered
  SignaturesInHand
  RecoveredDeposits
  RecoveredSignatures
PROPERTIES
  MajorityCompletes
  RecordedIsFinished
CHECK_DEADLOCK FALSE

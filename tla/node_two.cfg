CONSTANTS
  Transfers = {t1, t2}
  v = v
  p = p
  q = q
  x = x
  Signers = {v, p, x}
  Members = {v, p}
  Self = v
  Misconfigured = {}
  MaxCopies = 2
  MaxLedger = 4
  MaxErrors = 0
  RecoverFrom <- Absent
  WholeAnswers = FALSE
  MaxCrashes = 0
SPECIFICATION Spec
SYMMETRY TransferSymmetry
INVARIANTS
  CompletedByMajority
  CompletedIsServed
  DepositsInHand
  StoredIsPublished
CHECK_DEADLOCK FALSE

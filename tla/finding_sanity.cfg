CONSTANTS
  Transfers = {t1}
  v = v
  p = p
  q = q
  x = x
  Signers = {v, p, q}
  Members = {v, p, q}
  Self = v
  Misconfigured = {q}
  MaxCopies = 1
  MaxLedger = 6
  MaxErrors = 0
  RecoverFrom <- Absent
  WholeAnswers = FALSE
  MaxCrashes = 1
SPECIFICATION Spec
INVARIANTS
  StoredIsAgreed
CHECK_DEADLOCK FALSE

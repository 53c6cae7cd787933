CONSTANTS
  Transfers = {t1}
  v = v
  p = p
  q = q
  x = x
  Signers = {v, p, q}
  Members = {v, p, q}
  Self = v
  Misconfigured = {}
  MaxCopies = 1
  MaxLedger = 6
  MaxErrors = 0
  RecoverFrom <- Absent
  WholeAnswers = FALSE
  MaxCrashes = 1
SPECIFICATION Spec
SYMMETRY PeerSymmetry
INVARIANTS
  CompletedByMajority
  CompletedIsServed
PROPERTIES
  CompletedStays
  ImplementsQuorum
CHECK_DEADLOCK FALSE

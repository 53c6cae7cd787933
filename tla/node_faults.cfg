CONSTANTS
  Transfers = {t1}
  v = v
  p = p
  q = q
  x = x
  Signers = {v, p}
  Members = {v, p}
  Self = v
  Misconfigured = {}
  MaxCopies = 1
  MaxLedger = 6
  MaxErrors = 2
  RecoverFrom <- Absent
  WholeAnswers = FALSE
  MaxCrashes = 1
SPECIFICATION Spec
INVARIANTS
  TypeOK
  Inductive
  StoredIsPublished
  RecordedIsSubmitted
  FeeIsTruthful
PROPERTIES
  FeeIsTerminal
  SubmittedOnce
CHECK_DEADLOCK FALSE

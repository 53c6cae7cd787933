------------------------ MODULE ValidatorNodeProofs ------------------------
(***************************************************************************)
(* Theorems about ValidatorNode, for every set of transfers, signers and   *)
(* members and every bound.  The argument: the ledger only grows, records  *)
(* and signatures are never deleted (step lemmas), hence what a goroutine  *)
(* saw on the ledger stays there (Inductive).                              *)
(***************************************************************************)
EXTENDS ValidatorNode, SequenceTheorems, FiniteSetTheorems, TLAPS

(* The two calls of the clients stand for what they do.                    *)
USE DEF SubmitTopicConsensusMessage, WaitForTransaction

ConstantFacts == SignersAssumption /\ BoundsAssumption /\ BlankAssumption
                 /\ ErrorsAssumption /\ RecoveryAssumption

LEMMA Constants == ConstantFacts
  BY SignersAssumption, BoundsAssumption, BlankAssumption, ErrorsAssumption,
     RecoveryAssumption DEF ConstantFacts

-----------------------------------------------------------------------------
(* The ledger only grows, by items of the right type.                      *)
Items == Deposits \cup Signatures

LedgerGrows ==
  /\ ledger' \in Seq(Items)
  /\ Len(ledger) <= Len(ledger')
  /\ \A i \in 1..Len(ledger) : ledger'[i] = ledger[i]

(* Publishing an item appends it and moves nothing.                        *)
LEMMA ReachGrows ==
  ASSUME TypeOKLedger, NEW item \in Items, Reach(item)
  PROVE  LedgerGrows /\ OnLedger(item)'
<1>1. ledger \in Seq(Items)
  BY DEF TypeOKLedger, Items
<1>2. /\ ledger' \in Seq(Items)
      /\ Len(ledger') = Len(ledger) + 1
      /\ \A i \in 1..Len(ledger) : ledger'[i] = ledger[i]
      /\ ledger'[Len(ledger) + 1] = item
  BY <1>1, AppendProperties DEF Reach
<1>3. Len(ledger) \in Nat
  BY <1>1, LenProperties
<1> QED
  BY <1>2, <1>3 DEF LedgerGrows, OnLedger

LEMMA UnchangedGrows ==
  ASSUME TypeOKLedger, UNCHANGED ledger
  PROVE  LedgerGrows
  BY LenProperties DEF TypeOKLedger, LedgerGrows, Items

(* What was on the ledger stays there.                                     *)
LEMMA OnLedgerStays ==
  ASSUME TypeOKLedger, LedgerGrows, NEW item, OnLedger(item)
  PROVE  OnLedger(item)'
  BY LenProperties DEF TypeOKLedger, LedgerGrows, OnLedger, Items

LEMMA PositionsStay ==
  ASSUME TypeOKLedger, LedgerGrows
  PROVE  /\ DepositsAfter(0) \subseteq DepositsAfter(0)'
         /\ SignaturesAfter(0) \subseteq SignaturesAfter(0)'
         /\ \A i \in SignaturesAfter(0) : ledger'[i] = ledger[i]
  BY LenProperties
  DEF TypeOKLedger, LedgerGrows, DepositsAfter, SignaturesAfter, Present, Items

LEMMA OwnSignatureIsItem ==
  ASSUME NEW t \in Transfers, NEW s \in Signers
  PROVE  AgreedSignature(t, s) \in Items
  BY DEF AgreedSignature, Items, Signatures

(* A user's or a peer's item, or this node's signature, is all that ever   *)
(* changes the ledger.                                                     *)
LEMMA NextGrows ==
  ASSUME TypeOKLedger, [Next]_vars
  PROVE  LedgerGrows
<1> USE Constants DEF ConstantFacts
<1>1. CASE UNCHANGED ledger
  BY <1>1, UnchangedGrows
<1>2. ASSUME NEW t \in Transfers, Deposit(t)
      PROVE  LedgerGrows
  <2>1. [deposit |-> t] \in Items
    BY DEF Items, Deposits
  <2> QED
    BY <1>2, <2>1, ReachGrows DEF Deposit
<1>3. ASSUME NEW t \in Transfers, NEW s \in Signers, Publish(t, s)
      PROVE  LedgerGrows
  <2> DEFINE m == [tx |-> t, signer |-> s,
                   auth |-> IF s \in Misconfigured THEN "other" ELSE "agreed"]
  <2>1. m \in Items
    BY DEF Items, Signatures
  <2>2. Reach(m)
    BY <1>3 DEF Publish
  <2> QED
    BY <2>1, <2>2, ReachGrows
<1>4. ASSUME NEW t \in Transfers, SubmitSignature(t)
      PROVE  LedgerGrows
  <2>1. AgreedSignature(t, Self) \in Items
    BY OwnSignatureIsItem DEF SignersAssumption
  <2>2. UNCHANGED ledger \/ Reach(AgreedSignature(t, Self))
    BY <1>4 DEF SubmitSignature
  <2> QED
    BY <2>1, <2>2, ReachGrows, UnchangedGrows
<1>5. CASE EnvironmentNext
  BY <1>1, <1>2, <1>3, <1>5 DEF EnvironmentNext, Environment, Settle
<1>6. CASE TransferNext
  BY <1>1, <1>4, <1>6
  DEF TransferNext, TransferStep, TransferWatcher, TransferRoutine, FeeRoutine,
      StartTransferWatcher, PollTransfers, SaveTransferMilestone,
      CheckTransaction, HandleTransfer, RecordSubmission, SignatureMined,
      ScheduleFee, RecordFee, RecordFeeFailure, FeeMined, ledgerVars
<1>7. CASE SignatureNext
  BY <1>1, <1>7
  DEF SignatureNext, SignatureStep, MessageWatcher, HandlerRoutine,
      StartMessageWatcher, DeliverMessage, SaveMessageMilestone,
      CheckSignature, StoreSignature, CheckMajority, CompleteTransfer,
      ledgerVars
<1>8. CASE Main \/ Crash
  BY <1>1, <1>8
  DEF Main, Boot, RecoverTransfer, FetchMessages, RecoverMessage,
      FetchUnfinished, ProcessUnfinished, StartPairs, Crash, ledgerVars
<1>9. CASE UNCHANGED vars
  BY <1>1, <1>9 DEF vars, ledgerVars
<1> QED
  BY <1>5, <1>6, <1>7, <1>8, <1>9 DEF Next

-----------------------------------------------------------------------------
(* No statement deletes a transfer record.                                 *)
RecordsStay == \A t \in Transfers : status[t] # NoRow => status'[t] # NoRow

LEMMA NextRecordsStay ==
  ASSUME TypeOKStore, [Next]_vars
  PROVE  RecordsStay
<1> USE DEF RecordsStay, TypeOKStore, NoRow
<1>1. CASE UNCHANGED status
  BY <1>1
<1>2. ASSUME NEW t, NEW s \in {"INITIAL", "RECOVERED"}, CreateTransfer(t, s)
      PROVE  RecordsStay
  BY <1>2 DEF CreateTransfer
<1>3. ASSUME NEW t, UpdateStatusCompleted(t)
      PROVE  RecordsStay
  BY <1>3 DEF UpdateStatusCompleted
<1>4. ASSUME NEW t, UpdateStatusSignatureSubmitted(t)
      PROVE  RecordsStay
  BY <1>4 DEF UpdateStatusSignatureSubmitted
<1>5. CASE EnvironmentNext
  BY <1>1, <1>5 DEF EnvironmentNext, storeVars
<1>6. CASE TransferNext
  BY <1>1, <1>2, <1>4, <1>6
  DEF TransferNext, TransferStep, TransferWatcher, TransferRoutine, FeeRoutine,
      StartTransferWatcher, PollTransfers, SaveTransferMilestone,
      CheckTransaction, HandleTransfer, SubmitSignature, RecordSubmission,
      SignatureMined, ScheduleFee, RecordFee, RecordFeeFailure, FeeMined,
      storeVars
<1>7. CASE SignatureNext
  BY <1>1, <1>3, <1>7
  DEF SignatureNext, SignatureStep, MessageWatcher, HandlerRoutine,
      StartMessageWatcher, DeliverMessage, SaveMessageMilestone,
      CheckSignature, StoreSignature, CheckMajority, CompleteTransfer,
      storeVars
<1>8. CASE Main \/ Crash
  BY <1>1, <1>2, <1>8
  DEF Main, Boot, RecoverTransfer, FetchMessages, RecoverMessage,
      FetchUnfinished, ProcessUnfinished, StartPairs, Crash, storeVars
<1>9. CASE UNCHANGED vars
  BY <1>1, <1>9 DEF vars, storeVars
<1> QED
  BY <1>5, <1>6, <1>7, <1>8, <1>9 DEF Next

-----------------------------------------------------------------------------
(* Type correctness.                                                       *)
LEMMA LedgerType ==
  ASSUME TypeOKLedger, [Next]_vars
  PROVE  TypeOKLedger'
<1>1. ledger' \in Seq(Deposits \cup Signatures)
  BY NextGrows DEF LedgerGrows, Items
<1>2. scheduled' \in [Transfers -> Schedules]
  <2> USE DEF TypeOKLedger, Schedules
  <2>1. CASE UNCHANGED scheduled
    BY <2>1
  <2>2. CASE EnvironmentNext
    BY <2>2 DEF EnvironmentNext, Environment, Deposit, Publish, Settle
  <2>3. CASE TransferNext
    BY <2>1, <2>3
    DEF TransferNext, TransferStep, TransferWatcher, TransferRoutine,
        FeeRoutine, StartTransferWatcher, PollTransfers, SaveTransferMilestone,
        CheckTransaction, HandleTransfer, SubmitSignature, RecordSubmission,
        SignatureMined, ScheduleFee, RecordFee, RecordFeeFailure, FeeMined,
        ledgerVars
  <2>4. CASE SignatureNext
    BY <2>1, <2>4
    DEF SignatureNext, SignatureStep, MessageWatcher, HandlerRoutine,
        StartMessageWatcher, DeliverMessage, SaveMessageMilestone,
        CheckSignature, StoreSignature, CheckMajority, CompleteTransfer,
        ledgerVars
  <2>5. CASE Main \/ Crash
    BY <2>1, <2>5
    DEF Main, Boot, RecoverTransfer, FetchMessages, RecoverMessage,
        FetchUnfinished, ProcessUnfinished, StartPairs, Crash, ledgerVars
  <2>6. CASE UNCHANGED vars
    BY <2>1, <2>6 DEF vars, ledgerVars
  <2> QED
    BY <2>2, <2>3, <2>4, <2>5, <2>6 DEF Next
<1> QED
  BY <1>1, <1>2 DEF TypeOKLedger

LEMMA EnvironmentType ==
  ASSUME TypeOK, EnvironmentNext \/ UNCHANGED vars
  PROVE  (TypeOKStore /\ TypeOKTransfer /\ TypeOKSignature /\ TypeOKRecovery)'
  BY DEF TypeOK, EnvironmentNext, vars, storeVars, processVars, transferVars,
         signatureVars, recoveryVars, TypeOKStore, TypeOKTransfer,
         TypeOKSignature, TypeOKRecovery

LEMMA TransferType ==
  ASSUME TypeOK, TransferNext
  PROVE  (TypeOKStore /\ TypeOKTransfer /\ TypeOKSignature /\ TypeOKRecovery)'
<1> USE Constants DEF ConstantFacts, ErrorsAssumption, BlankAssumption
<1>1. (TypeOKSignature /\ TypeOKRecovery)'
  <2>1. UNCHANGED <<signatureVars, recoveryVars>>
    BY DEF TransferNext
  <2> QED
    BY <2>1 DEF TypeOK, signatureVars, recoveryVars, TypeOKSignature,
                TypeOKRecovery
<1>2. Present \in Nat
  BY LenProperties DEF TypeOK, TypeOKLedger, Present
<1> USE DEF TypeOK, TypeOKStore, TypeOKTransfer, Ok, Fault, Goto, GotoFee,
            processVars, transferVars, storeVars, FlowSteps, FeeSteps, Watches
<1>3. ASSUME StartTransferWatcher
      PROVE  (TypeOKStore /\ TypeOKTransfer)'
  BY <1>3 DEF StartTransferWatcher
<1>4. ASSUME PollTransfers
      PROVE  (TypeOKStore /\ TypeOKTransfer)'
  BY <1>2, <1>4 DEF PollTransfers, DepositsAfter
<1>5. ASSUME SaveTransferMilestone
      PROVE  (TypeOKStore /\ TypeOKTransfer)'
  BY <1>5 DEF SaveTransferMilestone
<1>6. ASSUME NEW t \in Transfers, CheckTransaction(t)
      PROVE  (TypeOKStore /\ TypeOKTransfer)'
  BY <1>6 DEF CheckTransaction
<1>7. ASSUME NEW t \in Transfers, HandleTransfer(t)
      PROVE  (TypeOKStore /\ TypeOKTransfer)'
  BY <1>7 DEF HandleTransfer, CreateTransfer, BeginProcessing, TransferStatuses
<1>8. ASSUME NEW t \in Transfers, SubmitSignature(t)
      PROVE  (TypeOKStore /\ TypeOKTransfer)'
  BY <1>8 DEF SubmitSignature
<1>9. ASSUME NEW t \in Transfers, RecordSubmission(t)
      PROVE  (TypeOKStore /\ TypeOKTransfer)'
  <2>1. status' \in [Transfers -> TransferStatuses \cup {NoRow}]
    <3>1. "IN_PROGRESS" \in TransferStatuses \cup {NoRow}
      BY DEF TransferStatuses
    <3>2. status' = status
          \/ status' = [status EXCEPT ![t] = IF @ = NoRow THEN @
                                             ELSE "IN_PROGRESS"]
      BY <1>9 DEF RecordSubmission, UpdateStatusSignatureSubmitted
    <3> QED
      BY <3>1, <3>2
  <2>2. signatureMsgStatus' \in [Transfers -> SignatureMsgStatuses]
    <3>1. "SIGNATURE_SUBMITTED" \in SignatureMsgStatuses
      BY DEF SignatureMsgStatuses
    <3>2. signatureMsgStatus[t] \in SignatureMsgStatuses
      OBVIOUS
    <3>3. PICK s \in SignatureMsgStatuses :
            \/ signatureMsgStatus' = signatureMsgStatus
            \/ signatureMsgStatus' = [signatureMsgStatus EXCEPT ![t] = s]
      BY <1>9, <3>1, <3>2 DEF RecordSubmission, UpdateStatusSignatureSubmitted
    <3> QED
      BY <3>3
  <2>3. /\ UNCHANGED <<fees, messages, txMilestone, msgMilestone, phase,
                      startTimestamp, txWatch, txSeen, feeFlow>>
        /\ flow' = [flow EXCEPT ![t] = "idle"]
        /\ errors' \in 0..MaxErrors
        /\ sigWait' \subseteq Transfers
    BY <1>9 DEF RecordSubmission
  <2>4. TypeOKStore'
    BY <2>1, <2>2, <2>3
  <2>5. TypeOKTransfer'
    <3>1. flow' \in [Transfers -> FlowSteps]
      BY <2>3
    <3> QED
      BY <2>3, <3>1
  <2> QED
    BY <2>4, <2>5
<1>10. ASSUME NEW t \in Transfers, SignatureMined(t)
       PROVE  (TypeOKStore /\ TypeOKTransfer)'
  <2>1. signatureMsgStatus' \in [Transfers -> SignatureMsgStatuses]
    <3>1. "SIGNATURE_MINED" \in SignatureMsgStatuses
      BY DEF SignatureMsgStatuses
    <3> QED
      BY <1>10, <3>1 DEF SignatureMined, UpdateStatusSignatureMined
  <2> QED
    BY <1>10, <2>1 DEF SignatureMined
<1>11. ASSUME NEW t \in Transfers, ScheduleFee(t)
       PROVE  (TypeOKStore /\ TypeOKTransfer)'
  BY <1>11 DEF ScheduleFee
<1>12. ASSUME NEW t \in Transfers, RecordFee(t)
       PROVE  (TypeOKStore /\ TypeOKTransfer)'
  <2>1. fees' \subseteq FeeRows
    <3> HIDE DEF TypeOKTransfer
    <3>1. [id |-> t, tx |-> t, status |-> "SUBMITTED"] \in FeeRows
      BY DEF FeeRows
    <3> QED
      BY <1>12, <3>1 DEF RecordFee, CreateFee
  <2> QED
    BY <1>12, <2>1 DEF RecordFee
<1>13. ASSUME NEW t \in Transfers, RecordFeeFailure(t)
       PROVE  (TypeOKStore /\ TypeOKTransfer)'
  <2>1. fees' \subseteq FeeRows
    <3> HIDE DEF TypeOKTransfer
    <3>1. [id |-> Blank, tx |-> t, status |-> "FAILED"] \in FeeRows
      BY DEF FeeRows
    <3> QED
      BY <1>13, <3>1 DEF RecordFeeFailure, CreateFee
  <2> QED
    BY <1>13, <2>1 DEF RecordFeeFailure
<1>14. ASSUME NEW t \in Transfers, FeeMined(t)
       PROVE  (TypeOKStore /\ TypeOKTransfer)'
  <2>1. fees' \subseteq FeeRows
    <3> HIDE DEF TypeOKTransfer
    <3>1. ASSUME NEW s \in {"COMPLETED", "FAILED"}, UpdateFeeStatus(t, s)
          PROVE  fees' \subseteq FeeRows
      <4>1. ASSUME NEW f \in fees
            PROVE  (IF f.id = t THEN [f EXCEPT !.status = s] ELSE f) \in FeeRows
        BY DEF FeeRows
      <4> QED
        BY <3>1, <4>1 DEF UpdateFeeStatus
    <3> QED
      BY <1>14, <3>1 DEF FeeMined
  <2> QED
    BY <1>14, <2>1 DEF FeeMined
<1> QED
  BY <1>1, <1>3, <1>4, <1>5, <1>6, <1>7, <1>8, <1>9, <1>10, <1>11, <1>12,
     <1>13, <1>14
  DEF TransferNext, TransferStep, TransferWatcher, TransferRoutine, FeeRoutine

(* What a step of the signature pipeline may change, with its type.        *)
SignatureFrame ==
  /\ status \in [Transfers -> TransferStatuses \cup {NoRow}]
  /\ messages \in SUBSET Signatures
  /\ msgMilestone \in Nat \cup {Absent}
  /\ errors \in 0..MaxErrors
  /\ TypeOKSignature

(* The signature pipeline keeps the types; a handler that stores a message *)
(* stores a signature that is on the ledger.                               *)
LEMMA SignatureType ==
  ASSUME TypeOK, HandlersOnLedger, SignatureNext
  PROVE  (TypeOKStore /\ TypeOKTransfer /\ TypeOKSignature /\ TypeOKRecovery)'
<1> USE Constants DEF ConstantFacts, ErrorsAssumption
<1>1. UNCHANGED <<transferVars, recoveryVars, phase, startTimestamp,
                  signatureMsgStatus, fees, txMilestone>>
  BY DEF SignatureNext, SignatureStep, MessageWatcher, HandlerRoutine,
         StartMessageWatcher, DeliverMessage, SaveMessageMilestone,
         CheckSignature, StoreSignature, CheckMajority, CompleteTransfer,
         storeVars
<1>2. SUFFICES SignatureFrame'
  BY <1>1, <1>2 DEF TypeOK, SignatureFrame, TypeOKStore, TypeOKTransfer,
                    TypeOKRecovery, transferVars, recoveryVars
<1>3. SignatureFrame
  BY DEF TypeOK, SignatureFrame, TypeOKStore, TypeOKTransfer
<1> HIDE DEF TypeOK
<1>4. CASE StartMessageWatcher
  BY <1>3, <1>4 DEF StartMessageWatcher, SignatureFrame, TypeOKSignature, Ok,
                    Fault, Watches, TypeOK, TypeOKTransfer
<1>5. CASE DeliverMessage
  <2>1. msgSeen' \in Nat
    BY <1>3, <1>5, LenProperties
    DEF DeliverMessage, SignaturesAfter, SignatureFrame, TypeOKSignature
  <2>2. handler' \in [Positions -> HandlerSteps]
    BY <1>3, <1>5 DEF DeliverMessage, SignatureFrame, TypeOKSignature,
                      GotoHandler, HandlerSteps
  <2> QED
    BY <1>3, <1>5, <2>1, <2>2
    DEF DeliverMessage, SignatureFrame, TypeOKSignature, Ok, storeVars
<1>6. CASE SaveMessageMilestone
  BY <1>3, <1>6 DEF SaveMessageMilestone, SignatureFrame, TypeOKSignature, Ok,
                    signatureVars
<1>7. ASSUME NEW i \in Positions, HandlerRoutine(i)
      PROVE  SignatureFrame'
  <2>1. /\ errors' \in 0..MaxErrors
        /\ UNCHANGED <<msgWatch, msgSeen, msgMilestone>>
    BY <1>3, <1>7
    DEF HandlerRoutine, CheckSignature, StoreSignature, CheckMajority,
        CompleteTransfer, SignatureFrame, Ok, Fault, storeVars
  <2>2. handler' \in [Positions -> HandlerSteps]
    <3>1. PICK s \in HandlerSteps : handler' = [handler EXCEPT ![i] = s]
      BY <1>7 DEF HandlerRoutine, CheckSignature, StoreSignature,
                  CheckMajority, CompleteTransfer, GotoHandler, HandlerSteps
    <3> QED
      BY <1>3, <3>1 DEF SignatureFrame, TypeOKSignature
  <2>3. status' \in [Transfers -> TransferStatuses \cup {NoRow}]
    <3>1. status' = status \/ UpdateStatusCompleted(ledger[i].tx)
      BY <1>7 DEF HandlerRoutine, CheckSignature, StoreSignature,
                  CheckMajority, CompleteTransfer, storeVars
    <3>2. status \in [Transfers -> TransferStatuses \cup {NoRow}]
      BY <1>3 DEF SignatureFrame
    <3>3. "COMPLETED" \in TransferStatuses
      BY DEF TransferStatuses
    <3>4. ASSUME NEW y \in TransferStatuses \cup {NoRow}, NEW u
          PROVE  [status EXCEPT ![u] = y]
                   \in [Transfers -> TransferStatuses \cup {NoRow}]
      BY <3>2
    <3>5. status' = status
          \/ status' = [status EXCEPT ![ledger[i].tx] = NoRow]
          \/ status' = [status EXCEPT ![ledger[i].tx] = "COMPLETED"]
      BY <3>1 DEF UpdateStatusCompleted
    <3> QED
      BY <3>2, <3>3, <3>4, <3>5
  <2>4. messages' \subseteq Signatures
    <3>1. \/ messages' = messages
          \/ /\ handler[i] = "create"
             /\ messages' = messages \cup {ledger[i]}
      <4>1. CASE StoreSignature(i)
        BY <4>1 DEF StoreSignature, CreateMessage
      <4>2. CASE CheckSignature(i) \/ CheckMajority(i) \/ CompleteTransfer(i)
        BY <4>2 DEF CheckSignature, CheckMajority, CompleteTransfer, storeVars
      <4> QED
        BY <1>7, <4>1, <4>2 DEF HandlerRoutine
    <3> QED
      BY <1>3, <3>1 DEF SignatureFrame, HandlersOnLedger, SignaturesAfter
  <2> QED
    BY <1>3, <2>1, <2>2, <2>3, <2>4 DEF SignatureFrame, TypeOKSignature
<1> QED
  BY <1>4, <1>5, <1>6, <1>7 DEF SignatureNext, SignatureStep, MessageWatcher

(* Every milestone the recovery starts from is a timestamp.                *)
LEMMA IntervalsAreNat ==
  ASSUME TypeOKStore
  PROVE  /\ TransfersFrom # Absent => TransfersFrom \in Nat
         /\ MessagesFrom \in Nat
  BY RecoveryAssumption
  DEF TypeOKStore, RecoveryAssumption, TransfersFrom, MessagesFrom, Absent

(* A query never answers with anything it was not asked for.               *)
LEMMA AnswersAreItems ==
  ASSUME NEW items, NEW answer \in Answers(items)
  PROVE  answer \subseteq items
  BY DEF Answers

(* What a step of main may change, with its type.                          *)
MainFrame ==
  /\ status \in [Transfers -> TransferStatuses \cup {NoRow}]
  /\ messages \in SUBSET Signatures
  /\ phase \in Phases
  /\ startTimestamp \in Nat
  /\ errors \in 0..MaxErrors
  /\ flow \in [Transfers -> FlowSteps]
  /\ feeFlow \in [Transfers -> FeeSteps]
  /\ backlog \in SUBSET Nat
  /\ unfinished \subseteq Transfers

(* The recovery keeps the types: what it stores as a signature is one.     *)
LEMMA MainType ==
  ASSUME TypeOK, BacklogOnLedger, Main
  PROVE  (TypeOKStore /\ TypeOKTransfer /\ TypeOKSignature /\ TypeOKRecovery)'
<1> USE Constants DEF ConstantFacts, ErrorsAssumption
<1>1. UNCHANGED <<txWatch, txSeen, sigWait, signatureVars, crashes,
                  signatureMsgStatus, fees, txMilestone, msgMilestone>>
  BY DEF Main, Boot, RecoverTransfer, FetchMessages, RecoverMessage,
         FetchUnfinished, ProcessUnfinished, StartPairs, storeVars,
         transferVars, recoveryVars
<1>2. SUFFICES MainFrame'
  BY <1>1, <1>2 DEF TypeOK, MainFrame, TypeOKStore, TypeOKTransfer,
                    TypeOKSignature, TypeOKRecovery, signatureVars
<1>3. MainFrame
  BY DEF TypeOK, MainFrame, TypeOKStore, TypeOKTransfer, TypeOKRecovery
<1>4. Present \in Nat
  BY LenProperties DEF TypeOK, TypeOKLedger, Present
<1>5. \A from \in Nat : DepositsAfter(from) \subseteq Nat
  BY <1>4 DEF DepositsAfter
<1>6. \A from \in Nat : SignaturesAfter(from) \subseteq Nat
  BY <1>4 DEF SignaturesAfter
<1>7. /\ TransfersFrom # Absent => TransfersFrom \in Nat
      /\ MessagesFrom \in Nat
  BY IntervalsAreNat DEF TypeOK
<1> HIDE DEF ConstantFacts, ErrorsAssumption
<1>8. CASE Boot
  <2>1. backlog' \in SUBSET Nat
    <3>1. CASE TransfersFrom = Absent
      BY <1>3, <1>8, <3>1 DEF Boot, MainFrame
    <3>2. CASE TransfersFrom # Absent
      <4>1. backlog' \in Answers(DepositsAfter(TransfersFrom))
        BY <1>8, <3>2 DEF Boot
      <4> QED
        BY <1>5, <1>7, <3>2, <4>1, AnswersAreItems
    <3> QED
      BY <3>1, <3>2
  <2> QED
    BY <1>3, <1>4, <1>8, <2>1
    DEF Boot, MainFrame, storeVars, transferVars, Phases
<1>9. CASE RecoverTransfer
  <2>1. /\ UNCHANGED <<messages, phase, startTimestamp, flow, feeFlow,
                       unfinished>>
        /\ errors' \in 0..MaxErrors
        /\ backlog' \subseteq backlog
    BY <1>3, <1>9, ErrorsAssumption
    DEF RecoverTransfer, MainFrame, transferVars, Ok, Fault, ErrorsAssumption
  <2>2. status' \in [Transfers -> TransferStatuses \cup {NoRow}]
    <3>1. PICK t : status' = status \/ CreateTransfer(t, "RECOVERED")
      BY <1>9 DEF RecoverTransfer
    <3>2. status' = status
          \/ status' = [status EXCEPT ![t] = "RECOVERED"]
          \/ status' = [status EXCEPT ![t] = @]
      BY <3>1 DEF CreateTransfer
    <3> QED
      BY <1>3, <3>2 DEF MainFrame, TransferStatuses
  <2> QED
    BY <1>3, <2>1, <2>2 DEF MainFrame
<1>10. CASE FetchMessages
  <2>1. backlog' \in SUBSET Nat
    BY <1>6, <1>7, <1>10, AnswersAreItems DEF FetchMessages
  <2> QED
    BY <1>3, <1>10, <2>1
    DEF FetchMessages, MainFrame, storeVars, transferVars, Phases, Ok
<1>11. CASE RecoverMessage
  <2>1. /\ UNCHANGED <<status, phase, startTimestamp, flow, feeFlow,
                       unfinished>>
        /\ errors' \in 0..MaxErrors
        /\ backlog' \subseteq backlog
    BY <1>3, <1>11, ErrorsAssumption
    DEF RecoverMessage, MainFrame, transferVars, Ok, Fault, ErrorsAssumption
  <2>2. PICK i \in backlog :
          messages' = messages \/ messages' = messages \cup {ledger[i]}
    BY <1>11 DEF RecoverMessage, CreateMessage
  <2>3. ledger[i] \in Signatures
    BY <1>11 DEF RecoverMessage, BacklogOnLedger, SignaturesAfter
  <2> QED
    BY <1>3, <2>1, <2>2, <2>3 DEF MainFrame
<1>12. CASE FetchUnfinished
  BY <1>3, <1>12 DEF FetchUnfinished, MainFrame, storeVars, transferVars,
                     Phases, Ok, GetUnprocessedTransfers
<1>13. ASSUME NEW t \in Transfers, ProcessUnfinished(t)
       PROVE  MainFrame'
  BY <1>3, <1>13 DEF ProcessUnfinished, MainFrame, storeVars, Ok,
                     BeginProcessing, Goto, GotoFee, FlowSteps, FeeSteps
<1>14. CASE StartPairs
  BY <1>3, <1>14 DEF StartPairs, MainFrame, storeVars, transferVars,
                     recoveryVars, Phases, Ok
<1> QED
  BY <1>8, <1>9, <1>10, <1>11, <1>12, <1>13, <1>14 DEF Main

(* A death leaves the database alone and an empty memory.                  *)
LEMMA CrashType ==
  ASSUME TypeOK, Crash
  PROVE  (TypeOKStore /\ TypeOKTransfer /\ TypeOKSignature /\ TypeOKRecovery)'
<1>1. TypeOKStore'
  BY DEF TypeOK, TypeOKStore, Crash, storeVars
<1>2. TypeOKTransfer'
  BY DEF TypeOK, TypeOKTransfer, Crash, ResetTransfer, Phases, Watches,
         FlowSteps, FeeSteps
<1>3. TypeOKSignature'
  BY DEF TypeOK, TypeOKSignature, Crash, ResetSignature, Watches, HandlerSteps
<1>4. TypeOKRecovery'
  BY RecoveryAssumption
  DEF TypeOK, TypeOKRecovery, Crash, RecoveryAssumption
<1> QED
  BY <1>1, <1>2, <1>3, <1>4

(* The state is well typed from the start.                                 *)
LEMMA InitType ==
  ASSUME Init
  PROVE  TypeOK
<1> USE DEF Init
<1>1. TypeOKLedger
  BY DEF InitLedger, TypeOKLedger, Schedules
<1>2. TypeOKStore
  BY DEF InitStore, TypeOKStore, SignatureMsgStatuses
<1>3. TypeOKTransfer
  BY ErrorsAssumption DEF InitTransfer, TypeOKTransfer, Phases, Watches,
     FlowSteps, FeeSteps, ErrorsAssumption
<1>4. TypeOKSignature
  BY DEF InitSignature, TypeOKSignature, Watches, HandlerSteps
<1>5. TypeOKRecovery
  BY RecoveryAssumption DEF InitRecovery, TypeOKRecovery, RecoveryAssumption
<1> QED
  BY <1>1, <1>2, <1>3, <1>4, <1>5 DEF TypeOK

LEMMA TypeStep ==
  ASSUME TypeOK, BacklogOnLedger, HandlersOnLedger, [Next]_vars
  PROVE  TypeOK'
<1>1. TypeOKLedger'
  BY LedgerType DEF TypeOK
<1>2. (TypeOKStore /\ TypeOKTransfer /\ TypeOKSignature /\ TypeOKRecovery)'
  BY EnvironmentType, TransferType, SignatureType, MainType, CrashType DEF Next
<1> QED
  BY <1>1, <1>2 DEF TypeOK

-----------------------------------------------------------------------------
(* What the goroutines know of the ledger stays true.                      *)

(* The recovery works on items it was answered with.                       *)
LEMMA BacklogStep ==
  ASSUME TypeOK, BacklogOnLedger, [Next]_vars
  PROVE  BacklogOnLedger'
<1>1. LedgerGrows
  BY NextGrows DEF TypeOK
<1>2. /\ DepositsAfter(0) \subseteq DepositsAfter(0)'
      /\ SignaturesAfter(0) \subseteq SignaturesAfter(0)'
  BY <1>1, PositionsStay DEF TypeOK
<1>3. /\ TransfersFrom # Absent => TransfersFrom \in Nat
      /\ MessagesFrom \in Nat
  BY IntervalsAreNat DEF TypeOK
<1>4. /\ \A from \in Nat : DepositsAfter(from) \subseteq DepositsAfter(0)
      /\ \A from \in Nat : SignaturesAfter(from) \subseteq SignaturesAfter(0)
  <2>1. Present \in Nat
    BY LenProperties DEF TypeOK, TypeOKLedger, Present
  <2> QED
    BY <2>1 DEF DepositsAfter, SignaturesAfter
<1>5. CASE backlog' \subseteq backlog /\ phase' = phase
  BY <1>2, <1>5 DEF BacklogOnLedger
<1>6. CASE phase' \notin {"transfers", "messages"}
  BY <1>6 DEF BacklogOnLedger
<1>7. CASE Boot
  <2>1. CASE TransfersFrom = Absent
    BY <1>6, <1>7, <2>1 DEF Boot
  <2>2. CASE TransfersFrom # Absent
    <3>1. /\ phase' = "transfers"
          /\ backlog' \in Answers(DepositsAfter(TransfersFrom))
      BY <1>7, <2>2 DEF Boot
    <3>2. backlog' \subseteq DepositsAfter(0)'
      BY <1>2, <1>3, <1>4, <2>2, <3>1, AnswersAreItems
    <3> QED
      BY <3>1, <3>2 DEF BacklogOnLedger
  <2> QED
    BY <2>1, <2>2
<1>8. CASE FetchMessages
  <2>1. PICK items \in SUBSET SignaturesAfter(MessagesFrom) :
          backlog' \in Answers(items)
    BY <1>8 DEF FetchMessages
  <2>2. backlog' \subseteq SignaturesAfter(0)'
    BY <1>2, <1>3, <1>4, <2>1, AnswersAreItems
  <2>3. phase' = "messages"
    BY <1>8 DEF FetchMessages
  <2> QED
    BY <2>2, <2>3 DEF BacklogOnLedger
<1>9. CASE Main
  BY <1>5, <1>6, <1>7, <1>8, <1>9
  DEF Main, RecoverTransfer, RecoverMessage, FetchUnfinished,
      ProcessUnfinished, StartPairs, recoveryVars
<1>10. CASE Crash
  BY <1>6, <1>10 DEF Crash
<1>11. CASE EnvironmentNext \/ TransferNext \/ UNCHANGED vars
  <2>1. UNCHANGED <<recoveryVars, phase>>
    BY <1>11
    DEF EnvironmentNext, vars, processVars, TransferNext, TransferStep,
        TransferWatcher, TransferRoutine, FeeRoutine, StartTransferWatcher,
        PollTransfers, SaveTransferMilestone, CheckTransaction,
        HandleTransfer, SubmitSignature, RecordSubmission, SignatureMined,
        ScheduleFee, RecordFee, RecordFeeFailure, FeeMined
  <2> QED
    BY <1>5, <2>1 DEF recoveryVars
<1>12. CASE SignatureNext
  <2>1. UNCHANGED <<recoveryVars, phase>>
    BY <1>12
    DEF SignatureNext, SignatureStep, MessageWatcher, HandlerRoutine,
        StartMessageWatcher, DeliverMessage, SaveMessageMilestone,
        CheckSignature, StoreSignature, CheckMajority, CompleteTransfer
  <2> QED
    BY <1>5, <2>1 DEF recoveryVars
<1> QED
  BY <1>9, <1>10, <1>11, <1>12 DEF Next

(* A handler works on a signature of the ledger; past its checks the       *)
(* signer is a member and the transfer has a record.                       *)
LEMMA HandlersStep ==
  ASSUME TypeOK, HandlersOnLedger, [Next]_vars
  PROVE  HandlersOnLedger'
<1>1. LedgerGrows /\ RecordsStay
  BY NextGrows, NextRecordsStay DEF TypeOK
<1>2. /\ SignaturesAfter(0) \subseteq SignaturesAfter(0)'
      /\ \A i \in SignaturesAfter(0) : ledger'[i] = ledger[i]
  BY <1>1, PositionsStay DEF TypeOK
<1>3. \A i \in SignaturesAfter(0) : ledger[i].tx \in Transfers
  BY DEF SignaturesAfter, Signatures
<1>4. SUFFICES ASSUME NEW i \in Positions
               PROVE  /\ handler'[i] # "idle" => i \in SignaturesAfter(0)
                      /\ handler'[i] = "create" =>
                           /\ ledger[i].signer \in Members
                           /\ status[ledger[i].tx] # NoRow
  BY <1>1, <1>2, <1>3, <1>4 DEF HandlersOnLedger, RecordsStay
<1>5. handler \in [Positions -> HandlerSteps]
  BY DEF TypeOK, TypeOKSignature
<1>6. CASE handler'[i] \in {handler[i], "idle"}
  BY <1>6 DEF HandlersOnLedger
<1>7. CASE DeliverMessage
  <2>1. PICK j \in SignaturesAfter(msgSeen) :
          handler' = [handler EXCEPT ![j] = "await"]
    BY <1>7 DEF DeliverMessage, GotoHandler
  <2>2. SignaturesAfter(msgSeen) \subseteq SignaturesAfter(0)
    <3>1. Present \in Nat /\ msgSeen \in Nat
      BY LenProperties
      DEF TypeOK, TypeOKLedger, TypeOKSignature, Present
    <3> QED
      BY <3>1 DEF SignaturesAfter
  <2> QED
    BY <1>5, <1>6, <2>1, <2>2
<1>8. ASSUME NEW j \in Positions, HandlerRoutine(j)
      PROVE  /\ handler'[i] # "idle" => i \in SignaturesAfter(0)
             /\ handler'[i] = "create" => /\ ledger[i].signer \in Members
                                          /\ status[ledger[i].tx] # NoRow
  <2>1. \A k \in Positions : k # j => handler'[k] = handler[k]
    BY <1>5, <1>8
    DEF HandlerRoutine, CheckSignature, StoreSignature, CheckMajority,
        CompleteTransfer, GotoHandler
  <2>2. handler[j] # "idle"
    BY <1>8 DEF HandlerRoutine, CheckSignature, StoreSignature, CheckMajority,
                CompleteTransfer
  <2>3. CASE i = j /\ handler'[i] = "create"
    <3>1. /\ IsMember(ledger[i].signer)
          /\ TransferKnown(ledger[i].tx)
      BY <1>5, <1>8, <2>3
      DEF HandlerRoutine, CheckSignature, StoreSignature, CheckMajority,
          CompleteTransfer, GotoHandler
    <3> QED
      BY <2>2, <2>3, <3>1 DEF HandlersOnLedger, IsMember, TransferKnown
  <2> QED
    BY <1>6, <2>1, <2>2, <2>3 DEF HandlersOnLedger
<1>9. CASE StartMessageWatcher \/ SaveMessageMilestone
  BY <1>6, <1>9
  DEF StartMessageWatcher, SaveMessageMilestone, signatureVars
<1>10. CASE SignatureNext
  BY <1>7, <1>8, <1>9, <1>10 DEF SignatureNext, SignatureStep, MessageWatcher
<1>11. CASE Crash
  BY <1>6, <1>11 DEF Crash, ResetSignature
<1>12. CASE EnvironmentNext \/ TransferNext \/ Main \/ UNCHANGED vars
  BY <1>6, <1>12
  DEF EnvironmentNext, TransferNext, vars, signatureVars, Main, Boot,
      RecoverTransfer, FetchMessages, RecoverMessage, FetchUnfinished,
      ProcessUnfinished, StartPairs
<1> QED
  BY <1>10, <1>11, <1>12 DEF Next

(* A submission is to be recorded, or polled, only once it is there.       *)
LEMMA SubmissionStep ==
  ASSUME TypeOK, SubmissionOnLedger, [Next]_vars
  PROVE  SubmissionOnLedger'
<1>1. ASSUME NEW t \in Transfers, OnLedger(OwnSignature(t))
      PROVE  OnLedger(OwnSignature(t))'
  <2>1. LedgerGrows
    BY NextGrows DEF TypeOK
  <2>2. OnLedger(OwnSignature(t))' <=>
          \E i \in 1..Len(ledger') : ledger'[i] = OwnSignature(t)
    BY DEF OnLedger, OwnSignature, AgreedSignature
  <2>3. \E i \in 1..Len(ledger) : ledger[i] = OwnSignature(t)
    BY <1>1 DEF OnLedger
  <2> QED
    BY <2>1, <2>2, <2>3, LenProperties
    DEF LedgerGrows, TypeOK, TypeOKLedger
<1>2. SUFFICES ASSUME NEW t \in Transfers,
                      flow'[t] = "record" \/ t \in sigWait'
               PROVE  \/ flow[t] = "record"
                      \/ t \in sigWait
                      \/ OnLedger(OwnSignature(t))'
  BY <1>1, <1>2 DEF SubmissionOnLedger
<1>3. flow \in [Transfers -> FlowSteps]
  BY DEF TypeOK, TypeOKTransfer
<1>4. CASE UNCHANGED <<flow, sigWait>>
  BY <1>2, <1>4
<1>5. CASE TransferWatcher
  BY <1>2, <1>3, <1>5
  DEF TransferWatcher, StartTransferWatcher, PollTransfers,
      SaveTransferMilestone, transferVars
<1>6. ASSUME NEW u \in Transfers, TransferRoutine(u)
      PROVE  \/ flow[t] = "record"
             \/ t \in sigWait
             \/ OnLedger(OwnSignature(t))'
  <2>1. CASE SubmitSignature(u)
    <3>1. CASE u = t /\ Reach(AgreedSignature(t, Self))
      <4>1. AgreedSignature(t, Self) \in Items
        BY OwnSignatureIsItem, SignersAssumption DEF SignersAssumption
      <4>2. OnLedger(AgreedSignature(t, Self))'
        BY <3>1, <4>1, ReachGrows DEF TypeOK
      <4> QED
        BY <4>2 DEF OwnSignature
    <3> QED
      BY <1>2, <1>3, <2>1, <3>1 DEF SubmitSignature, Goto
  <2>2. CASE RecordSubmission(u)
    BY <1>2, <1>3, <2>2 DEF RecordSubmission, Goto
  <2>3. CASE CheckTransaction(u) \/ HandleTransfer(u)
    BY <1>2, <1>3, <2>3
    DEF CheckTransaction, HandleTransfer, BeginProcessing, Goto
  <2> QED
    BY <1>6, <2>1, <2>2, <2>3 DEF TransferRoutine
<1>7. ASSUME NEW u \in Transfers, FeeRoutine(u) \/ SignatureMined(u)
      PROVE  flow[t] = "record" \/ t \in sigWait
  BY <1>2, <1>7
  DEF FeeRoutine, ScheduleFee, RecordFee, RecordFeeFailure, FeeMined,
      SignatureMined
<1>8. CASE TransferNext
  BY <1>5, <1>6, <1>7, <1>8 DEF TransferNext, TransferStep
<1>9. CASE EnvironmentNext \/ SignatureNext \/ UNCHANGED vars
  BY <1>4, <1>9
  DEF EnvironmentNext, SignatureNext, SignatureStep, MessageWatcher,
      HandlerRoutine, StartMessageWatcher, DeliverMessage,
      SaveMessageMilestone, CheckSignature, StoreSignature, CheckMajority,
      CompleteTransfer, vars, transferVars
<1>10. CASE Main
  BY <1>2, <1>3, <1>10
  DEF Main, Boot, RecoverTransfer, FetchMessages, RecoverMessage,
      FetchUnfinished, ProcessUnfinished, StartPairs, BeginProcessing, Goto,
      transferVars
<1>11. CASE Crash
  BY <1>2, <1>11 DEF Crash, ResetTransfer
<1> QED
  BY <1>8, <1>9, <1>10, <1>11 DEF Next

(* A stored signature stays one that a member published.                   *)
LEMMA StoredStep ==
  ASSUME TypeOK, BacklogOnLedger, HandlersOnLedger, StoredIsPublished,
         [Next]_vars
  PROVE  StoredIsPublished'
<1>1. LedgerGrows /\ RecordsStay
  BY NextGrows, NextRecordsStay DEF TypeOK
<1>2. SUFFICES ASSUME NEW m \in messages', m \notin messages
               PROVE  /\ m \in Signatures
                      /\ OnLedger(m)
                      /\ m.signer \in Members
                      /\ status[m.tx] # NoRow
  <2>1. ASSUME NEW m \in messages'
        PROVE  (OnLedger(m) => \E i \in 1..Len(ledger') : ledger'[i] = m)
    BY <1>1, LenProperties
    DEF LedgerGrows, OnLedger, TypeOK, TypeOKLedger
  <2>2. \A m \in messages : m.tx \in Transfers
    BY DEF TypeOK, TypeOKStore, Signatures
  <2>3. \A m \in Signatures : m.tx \in Transfers
    BY DEF Signatures
  <2> QED
    BY <1>1, <1>2, <2>1, <2>2, <2>3
    DEF StoredIsPublished, RecordsStay, OnLedger
<1>3. Len(ledger) \in Nat
  BY LenProperties DEF TypeOK, TypeOKLedger
<1>4. ASSUME NEW i \in SignaturesAfter(0)
      PROVE  ledger[i] \in Signatures /\ OnLedger(ledger[i])
  BY <1>3 DEF SignaturesAfter, OnLedger, Present
<1>5. ASSUME NEW i \in Positions, StoreSignature(i)
      PROVE  /\ m \in Signatures
             /\ OnLedger(m)
             /\ m.signer \in Members
             /\ status[m.tx] # NoRow
  <2>1. m = ledger[i] /\ handler[i] = "create"
    BY <1>2, <1>5 DEF StoreSignature, CreateMessage
  <2> QED
    BY <1>4, <2>1 DEF HandlersOnLedger
<1>6. CASE RecoverMessage
  <2>1. PICK i \in backlog :
          /\ phase = "messages"
          /\ m = ledger[i]
          /\ IsMember(ledger[i].signer)
          /\ CanCreateMessage(ledger[i])
    BY <1>2, <1>6 DEF RecoverMessage, CreateMessage
  <2> QED
    BY <1>4, <2>1 DEF BacklogOnLedger, IsMember, CanCreateMessage
<1>7. CASE UNCHANGED messages
  BY <1>2, <1>7
<1>8. CASE SignatureNext
  BY <1>5, <1>7, <1>8
  DEF SignatureNext, SignatureStep, MessageWatcher, HandlerRoutine,
      StartMessageWatcher, DeliverMessage, SaveMessageMilestone,
      CheckSignature, CheckMajority, CompleteTransfer, storeVars
<1>9. CASE TransferNext
  BY <1>7, <1>9
  DEF TransferNext, TransferStep, TransferWatcher, TransferRoutine, FeeRoutine,
      StartTransferWatcher, PollTransfers, SaveTransferMilestone,
      CheckTransaction, HandleTransfer, SubmitSignature, RecordSubmission,
      SignatureMined, ScheduleFee, RecordFee, RecordFeeFailure, FeeMined,
      storeVars
<1>10. CASE Main \/ Crash
  BY <1>6, <1>7, <1>10
  DEF Main, Boot, RecoverTransfer, FetchMessages, FetchUnfinished,
      ProcessUnfinished, StartPairs, Crash, storeVars
<1>11. CASE EnvironmentNext \/ UNCHANGED vars
  BY <1>7, <1>11 DEF EnvironmentNext, vars, storeVars
<1> QED
  BY <1>8, <1>9, <1>10, <1>11 DEF Next

(* The record says submitted only for what is on the topic.                *)
LEMMA RecordedStep ==
  ASSUME TypeOK, SubmissionOnLedger, RecordedIsSubmitted, [Next]_vars
  PROVE  RecordedIsSubmitted'
<1>1. ASSUME NEW t \in Transfers, OnLedger(OwnSignature(t))
      PROVE  OnLedger(OwnSignature(t))'
  <2>1. LedgerGrows
    BY NextGrows DEF TypeOK
  <2>2. OnLedger(OwnSignature(t))' <=>
          \E i \in 1..Len(ledger') : ledger'[i] = OwnSignature(t)
    BY DEF OnLedger, OwnSignature, AgreedSignature
  <2>3. \E i \in 1..Len(ledger) : ledger[i] = OwnSignature(t)
    BY <1>1 DEF OnLedger
  <2> QED
    BY <2>1, <2>2, <2>3, LenProperties
    DEF LedgerGrows, TypeOK, TypeOKLedger
<1>2. SUFFICES ASSUME NEW t \in Transfers, signatureMsgStatus'[t] # ""
               PROVE  \/ signatureMsgStatus[t] # ""
                      \/ flow[t] = "record"
                      \/ t \in sigWait
  BY <1>1, <1>2 DEF RecordedIsSubmitted, SubmissionOnLedger
<1>3. signatureMsgStatus \in [Transfers -> SignatureMsgStatuses]
  BY DEF TypeOK, TypeOKStore
<1>4. CASE UNCHANGED signatureMsgStatus
  BY <1>2, <1>4
<1>5. ASSUME NEW u \in Transfers, RecordSubmission(u) \/ SignatureMined(u)
      PROVE  \/ signatureMsgStatus[t] # ""
             \/ flow[t] = "record"
             \/ t \in sigWait
  BY <1>2, <1>3, <1>5
  DEF RecordSubmission, SignatureMined, UpdateStatusSignatureSubmitted,
      UpdateStatusSignatureMined
<1>6. CASE TransferNext
  BY <1>4, <1>5, <1>6
  DEF TransferNext, TransferStep, TransferWatcher, TransferRoutine, FeeRoutine,
      StartTransferWatcher, PollTransfers, SaveTransferMilestone,
      CheckTransaction, HandleTransfer, SubmitSignature, ScheduleFee,
      RecordFee, RecordFeeFailure, FeeMined, storeVars
<1>7. CASE SignatureNext
  BY <1>4, <1>7
  DEF SignatureNext, SignatureStep, MessageWatcher, HandlerRoutine,
      StartMessageWatcher, DeliverMessage, SaveMessageMilestone,
      CheckSignature, StoreSignature, CheckMajority, CompleteTransfer,
      storeVars
<1>8. CASE Main \/ Crash
  BY <1>4, <1>8
  DEF Main, Boot, RecoverTransfer, FetchMessages, RecoverMessage,
      FetchUnfinished, ProcessUnfinished, StartPairs, Crash, storeVars
<1>9. CASE EnvironmentNext \/ UNCHANGED vars
  BY <1>4, <1>9 DEF EnvironmentNext, vars, storeVars
<1> QED
  BY <1>6, <1>7, <1>8, <1>9 DEF Next

-----------------------------------------------------------------------------
(* No statement deletes a signature, or a fee row.                         *)
LEMMA MessagesGrow ==
  ASSUME [Next]_vars
  PROVE  \/ messages' = messages
         \/ \E m : messages' = messages \cup {m}
<1>1. ASSUME NEW i, StoreSignature(i)
      PROVE  \/ messages' = messages
             \/ \E m : messages' = messages \cup {m}
  BY <1>1 DEF StoreSignature, CreateMessage
<1>2. ASSUME RecoverMessage
      PROVE  \/ messages' = messages
             \/ \E m : messages' = messages \cup {m}
  BY <1>2 DEF RecoverMessage, CreateMessage
<1>3. CASE SignatureNext
  BY <1>1, <1>3
  DEF SignatureNext, SignatureStep, MessageWatcher, HandlerRoutine,
      StartMessageWatcher, DeliverMessage, SaveMessageMilestone,
      CheckSignature, CheckMajority, CompleteTransfer, storeVars
<1>4. CASE TransferNext
  BY <1>4
  DEF TransferNext, TransferStep, TransferWatcher, TransferRoutine, FeeRoutine,
      StartTransferWatcher, PollTransfers, SaveTransferMilestone,
      CheckTransaction, HandleTransfer, SubmitSignature, RecordSubmission,
      SignatureMined, ScheduleFee, RecordFee, RecordFeeFailure, FeeMined,
      storeVars
<1>5. CASE Main \/ Crash
  BY <1>2, <1>5
  DEF Main, Boot, RecoverTransfer, FetchMessages, FetchUnfinished,
      ProcessUnfinished, StartPairs, Crash, storeVars
<1>6. CASE EnvironmentNext \/ UNCHANGED vars
  BY <1>6 DEF EnvironmentNext, vars, storeVars
<1> QED
  BY <1>3, <1>4, <1>5, <1>6 DEF Next

LEMMA FeesStay ==
  ASSUME TypeOK, [Next]_vars
  PROVE  \A f \in fees : \E g \in fees' : g.id = f.id /\ g.tx = f.tx
<1> DEFINE Stay == \A f \in fees : \E g \in fees' : g.id = f.id /\ g.tx = f.tx
<1>1. CASE UNCHANGED fees
  BY <1>1
<1>2. ASSUME NEW id, NEW t, NEW s, CreateFee(id, t, s)
      PROVE  Stay
  BY <1>2 DEF CreateFee
<1>3. ASSUME NEW id, NEW s, UpdateFeeStatus(id, s)
      PROVE  Stay
  <2>1. ASSUME NEW f \in fees
        PROVE  \E g \in fees' : g.id = f.id /\ g.tx = f.tx
    <3> DEFINE g == IF f.id = id THEN [f EXCEPT !.status = s] ELSE f
    <3>1. f \in FeeRows
      BY DEF TypeOK, TypeOKStore
    <3>2. g.id = f.id /\ g.tx = f.tx
      BY <3>1 DEF FeeRows
    <3>3. g \in fees'
      BY <1>3 DEF UpdateFeeStatus
    <3> QED
      BY <3>2, <3>3
  <2> QED
    BY <2>1
<1>4. CASE TransferNext
  BY <1>1, <1>2, <1>3, <1>4
  DEF TransferNext, TransferStep, TransferWatcher, TransferRoutine, FeeRoutine,
      StartTransferWatcher, PollTransfers, SaveTransferMilestone,
      CheckTransaction, HandleTransfer, SubmitSignature, RecordSubmission,
      SignatureMined, ScheduleFee, RecordFee, RecordFeeFailure, FeeMined,
      storeVars
<1>5. CASE SignatureNext
  BY <1>1, <1>5
  DEF SignatureNext, SignatureStep, MessageWatcher, HandlerRoutine,
      StartMessageWatcher, DeliverMessage, SaveMessageMilestone,
      CheckSignature, StoreSignature, CheckMajority, CompleteTransfer,
      storeVars
<1>6. CASE Main \/ Crash
  BY <1>1, <1>6
  DEF Main, Boot, RecoverTransfer, FetchMessages, RecoverMessage,
      FetchUnfinished, ProcessUnfinished, StartPairs, Crash, storeVars
<1>7. CASE EnvironmentNext \/ UNCHANGED vars
  BY <1>1, <1>7 DEF EnvironmentNext, vars, storeVars
<1> QED
  BY <1>4, <1>5, <1>6, <1>7 DEF Next

(* Hence a known transfer stays known, and a majority stays a majority.    *)
LEMMA KnownStays ==
  ASSUME TypeOK, IsFiniteSet(messages), [Next]_vars, NEW t \in Transfers
  PROVE  /\ IsFiniteSet(messages')
         /\ TransferKnown(t) => TransferKnown(t)'
         /\ HasMajority(t) => HasMajority(t)'
<1>1. messages \subseteq messages' /\ IsFiniteSet(messages')
  BY MessagesGrow, FS_AddElement
<1>2. TransferKnown(t) => TransferKnown(t)'
  <2>1. RecordsStay
    BY NextRecordsStay DEF TypeOK
  <2> QED
    BY <2>1, FeesStay DEF TransferKnown, FeesOf, RecordsStay
<1>3. HasMajority(t) => HasMajority(t)'
  <2>1. /\ MessagesOf(t) \subseteq MessagesOf(t)'
        /\ IsFiniteSet(MessagesOf(t)')
        /\ IsFiniteSet(MessagesOf(t))
    BY <1>1, FS_Subset DEF MessagesOf
  <2>2. /\ Cardinality(MessagesOf(t)) <= Cardinality(MessagesOf(t)')
        /\ Cardinality(MessagesOf(t)) \in Nat
        /\ Cardinality(MessagesOf(t)') \in Nat
    BY <2>1, FS_Subset, FS_CardinalityType
  <2>3. RequiredSigCount \in Int
    BY SignersAssumption, FS_CardinalityType
    DEF SignersAssumption, RequiredSigCount
  <2> QED
    BY <2>2, <2>3 DEF HasMajority, RequiredSigCount
<1> QED
  BY <1>1, <1>2, <1>3

(* A handler moves towards the completion only after the checks it makes.  *)
LEMMA HandlersKnowStep ==
  ASSUME TypeOK, HandlersOnLedger, HandlersKnowTransfer, [Next]_vars
  PROVE  HandlersKnowTransfer'
<1>1. \A t \in Transfers : /\ TransferKnown(t) => TransferKnown(t)'
                           /\ HasMajority(t) => HasMajority(t)'
  BY KnownStays DEF HandlersKnowTransfer
<1>2. IsFiniteSet(messages')
  BY MessagesGrow, FS_AddElement DEF HandlersKnowTransfer
<1>3. \A i \in SignaturesAfter(0) :
        ledger[i].tx \in Transfers /\ ledger'[i] = ledger[i]
  <2>1. LedgerGrows
    BY NextGrows DEF TypeOK
  <2> QED
    BY <2>1, PositionsStay DEF TypeOK, SignaturesAfter, Signatures
<1>4. SUFFICES ASSUME NEW i \in Positions
               PROVE  /\ handler'[i] \in {"create", "count", "complete"} =>
                           /\ i \in SignaturesAfter(0)
                           /\ TransferKnown(ledger[i].tx)
                      /\ handler'[i] = "complete" =>
                           HasMajority(ledger[i].tx)
  <2>1. ASSUME NEW i \in SignaturesAfter(0), TransferKnown(ledger[i].tx)
        PROVE  TransferKnown(ledger[i].tx)'
    <3>1. PICK t \in Transfers : t = ledger[i].tx /\ t = ledger'[i].tx
      BY <1>3
    <3>2. TransferKnown(t)'
      BY <1>1, <2>1, <3>1
    <3> QED
      BY <3>1, <3>2 DEF TransferKnown, FeesOf
  <2>2. ASSUME NEW i \in SignaturesAfter(0), HasMajority(ledger[i].tx)
        PROVE  HasMajority(ledger[i].tx)'
    <3>1. PICK t \in Transfers : t = ledger[i].tx /\ t = ledger'[i].tx
      BY <1>3
    <3>2. HasMajority(t)'
      BY <1>1, <2>2, <3>1
    <3> QED
      BY <3>1, <3>2 DEF HasMajority, MessagesOf
  <2> QED
    BY <1>2, <1>4, <2>1, <2>2 DEF HandlersKnowTransfer, Positions
<1>5. handler \in [Positions -> HandlerSteps]
  BY DEF TypeOK, TypeOKSignature
<1>6. CASE handler'[i] \in {handler[i], "idle", "await"}
  BY <1>6 DEF HandlersKnowTransfer, HandlersOnLedger
<1>7. CASE DeliverMessage
  BY <1>5, <1>6, <1>7 DEF DeliverMessage, GotoHandler
<1>8. ASSUME NEW j \in Positions, HandlerRoutine(j)
      PROVE  /\ handler'[i] \in {"create", "count", "complete"} =>
                  /\ i \in SignaturesAfter(0)
                  /\ TransferKnown(ledger[i].tx)
             /\ handler'[i] = "complete" => HasMajority(ledger[i].tx)
  <2>1. \A k \in Positions : k # j => handler'[k] = handler[k]
    BY <1>5, <1>8
    DEF HandlerRoutine, CheckSignature, StoreSignature, CheckMajority,
        CompleteTransfer, GotoHandler
  <2>2. j \in SignaturesAfter(0)
    BY <1>8 DEF HandlersOnLedger, HandlerRoutine, CheckSignature,
                StoreSignature, CheckMajority, CompleteTransfer
  <2>3. CASE i = j /\ CheckSignature(i)
    BY <1>5, <2>2, <2>3 DEF CheckSignature, GotoHandler
  <2>4. CASE i = j /\ StoreSignature(i)
    BY <1>5, <2>2, <2>4
    DEF StoreSignature, GotoHandler, HandlersKnowTransfer
  <2>5. CASE i = j /\ CheckMajority(i)
    BY <1>5, <2>2, <2>5
    DEF CheckMajority, GotoHandler, HandlersKnowTransfer
  <2>6. CASE i = j /\ CompleteTransfer(i)
    BY <1>5, <2>6 DEF CompleteTransfer, GotoHandler
  <2>7. CASE i # j
    BY <1>6, <2>1, <2>7
  <2> QED
    BY <1>8, <2>3, <2>4, <2>5, <2>6, <2>7 DEF HandlerRoutine
<1>9. CASE StartMessageWatcher \/ SaveMessageMilestone
  BY <1>6, <1>9
  DEF StartMessageWatcher, SaveMessageMilestone, signatureVars
<1>10. CASE SignatureNext
  BY <1>7, <1>8, <1>9, <1>10 DEF SignatureNext, SignatureStep, MessageWatcher
<1>11. CASE Crash
  BY <1>6, <1>11 DEF Crash, ResetSignature
<1>12. CASE EnvironmentNext \/ TransferNext \/ Main \/ UNCHANGED vars
  BY <1>6, <1>12
  DEF EnvironmentNext, TransferNext, vars, signatureVars, Main, Boot,
      RecoverTransfer, FetchMessages, RecoverMessage, FetchUnfinished,
      ProcessUnfinished, StartPairs
<1> QED
  BY <1>10, <1>11, <1>12 DEF Next

(* COMPLETED is written by a handler that knows the transfer and has seen  *)
(* its majority, and what it has seen is still there.                      *)
LEMMA ServedStep ==
  ASSUME TypeOK, HandlersOnLedger, HandlersKnowTransfer, CompletedIsServed,
         [Next]_vars
  PROVE  CompletedIsServed'
<1> DEFINE Served(t) == status[t] # NoRow /\ FeesOf(t) # {} /\ HasMajority(t)
<1>1. ASSUME NEW t \in Transfers, Served(t)
      PROVE  TransferDataMajority(t)'
  <2>1. status'[t] # NoRow
    BY <1>1, NextRecordsStay DEF TypeOK, RecordsStay
  <2>2. FeesOf(t)' # {}
    BY <1>1, FeesStay DEF FeesOf
  <2>3. HasMajority(t)'
    BY <1>1, KnownStays DEF HandlersKnowTransfer
  <2> QED
    BY <2>1, <2>2, <2>3 DEF TransferDataMajority, TransferDataFound
<1>2. SUFFICES ASSUME NEW t \in Transfers, status'[t] = "COMPLETED"
               PROVE  status[t] = "COMPLETED" \/ Served(t)
  BY <1>1, <1>2
  DEF CompletedIsServed, TransferDataMajority, TransferDataFound
<1>3. status \in [Transfers -> TransferStatuses \cup {NoRow}]
  BY DEF TypeOK, TypeOKStore
<1>4. CASE UNCHANGED status
  BY <1>2, <1>4
<1>5. ASSUME NEW i \in Positions, CompleteTransfer(i)
      PROVE  status[t] = "COMPLETED" \/ Served(t)
  <2>1. status[t] = "COMPLETED" \/ ledger[i].tx = t
    BY <1>2, <1>3, <1>5 DEF CompleteTransfer, UpdateStatusCompleted
  <2>2. TransferKnown(ledger[i].tx) /\ HasMajority(ledger[i].tx)
    BY <1>5 DEF CompleteTransfer, HandlersKnowTransfer
  <2> QED
    BY <2>1, <2>2 DEF TransferKnown
<1>6. CASE SignatureNext
  BY <1>4, <1>5, <1>6
  DEF SignatureNext, SignatureStep, MessageWatcher, HandlerRoutine,
      StartMessageWatcher, DeliverMessage, SaveMessageMilestone,
      CheckSignature, StoreSignature, CheckMajority, storeVars
<1>7. ASSUME NEW u \in Transfers, HandleTransfer(u) \/ RecordSubmission(u)
      PROVE  status[t] = "COMPLETED"
  BY <1>2, <1>3, <1>7
  DEF HandleTransfer, CreateTransfer, RecordSubmission,
      UpdateStatusSignatureSubmitted
<1>8. CASE TransferNext
  BY <1>4, <1>7, <1>8
  DEF TransferNext, TransferStep, TransferWatcher, TransferRoutine, FeeRoutine,
      StartTransferWatcher, PollTransfers, SaveTransferMilestone,
      CheckTransaction, SubmitSignature, SignatureMined, ScheduleFee,
      RecordFee, RecordFeeFailure, FeeMined, storeVars
<1>9. CASE RecoverTransfer
  BY <1>2, <1>3, <1>9 DEF RecoverTransfer, CreateTransfer
<1>10. CASE Main \/ Crash
  BY <1>4, <1>9, <1>10
  DEF Main, Boot, FetchMessages, RecoverMessage, FetchUnfinished,
      ProcessUnfinished, StartPairs, Crash, storeVars
<1>11. CASE EnvironmentNext \/ UNCHANGED vars
  BY <1>4, <1>11 DEF EnvironmentNext, vars, storeVars
<1> QED
  BY <1>6, <1>8, <1>10, <1>11 DEF Next

-----------------------------------------------------------------------------
LEMMA InductiveInit ==
  ASSUME Init
  PROVE  Inductive
<1>1. TypeOK
  BY InitType
<1>2. /\ phase = "down"
      /\ \A i \in Positions : handler[i] = "idle"
      /\ \A t \in Transfers : /\ flow[t] = "idle"
                              /\ signatureMsgStatus[t] = ""
                              /\ status[t] = NoRow
      /\ sigWait = {}
      /\ messages = {}
  BY DEF Init, InitStore, InitTransfer, InitSignature
<1> QED
  BY <1>1, <1>2, FS_EmptySet
  DEF Inductive, BacklogOnLedger, HandlersOnLedger, SubmissionOnLedger,
      HandlersKnowTransfer, StoredIsPublished, RecordedIsSubmitted,
      CompletedIsServed, NoRow

LEMMA InductiveStep ==
  ASSUME Inductive, [Next]_vars
  PROVE  Inductive'
<1> USE DEF Inductive
<1>1. TypeOK'
  BY TypeStep
<1>2. BacklogOnLedger' /\ HandlersOnLedger' /\ SubmissionOnLedger'
  BY BacklogStep, HandlersStep, SubmissionStep
<1>3. HandlersKnowTransfer' /\ CompletedIsServed'
  BY HandlersKnowStep, ServedStep
<1>4. StoredIsPublished' /\ RecordedIsSubmitted'
  BY StoredStep, RecordedStep
<1> QED
  BY <1>1, <1>2, <1>3, <1>4

(* What the goroutines know of the ledger and of the tables holds forever. *)
THEOREM InductiveHolds == Spec => []Inductive
  BY InductiveInit, InductiveStep, PTL DEF Spec

(* Every variable keeps its type, whatever users, peers, failures and      *)
(* restarts do.                                                            *)
THEOREM TypeCorrect == Spec => []TypeOK
<1>1. Inductive => TypeOK
  BY DEF Inductive
<1> QED
  BY <1>1, InductiveHolds, PTL

(* Neither the handlers nor the recovery ever stores a signature that no   *)
(* member published, or one of a transfer without a record.                *)
THEOREM StoredIsAlwaysPublished == Spec => []StoredIsPublished
<1>1. Inductive => StoredIsPublished
  BY DEF Inductive
<1> QED
  BY <1>1, InductiveHolds, PTL

(* The record of a transfer never claims a submission that is not on the   *)
(* topic, whatever receipts are lost and whenever the process dies.        *)
THEOREM RecordedIsAlwaysSubmitted == Spec => []RecordedIsSubmitted
<1>1. Inductive => RecordedIsSubmitted
  BY DEF Inductive
<1> QED
  BY <1>1, InductiveHolds, PTL

(* A transfer that is COMPLETED is one the REST API answers, with a fee    *)
(* and a majority of signatures: the handler's four database calls, beside *)
(* every other goroutine's, amount to one check.                           *)
THEOREM CompletedIsAlwaysServed == Spec => []CompletedIsServed
<1>1. Inductive => CompletedIsServed
  BY DEF Inductive
<1> QED
  BY <1>1, InductiveHolds, PTL

(* No step takes a record, a signature or an item of the ledger back; this *)
(* is what the invariant rests on.                                         *)
THEOREM NothingIsTakenBack ==
  Spec => [][LedgerGrows /\ RecordsStay /\ messages \subseteq messages']_vars
<1>1. ASSUME Inductive, [Next]_vars
      PROVE  [LedgerGrows /\ RecordsStay /\ messages \subseteq messages']_vars
  <2>1. LedgerGrows /\ RecordsStay
    BY <1>1, NextGrows, NextRecordsStay DEF Inductive, TypeOK
  <2>2. messages \subseteq messages'
    BY <1>1, MessagesGrow
  <2> QED
    BY <2>1, <2>2
<1> QED
  BY <1>1, InductiveHolds, PTL DEF Spec
=============================================================================

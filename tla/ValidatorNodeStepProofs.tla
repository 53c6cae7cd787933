---------------------- MODULE ValidatorNodeStepProofs ----------------------
(***************************************************************************)
(* What a step of ValidatorNode may never do, and the quorum behind        *)
(* COMPLETED, for every set of transfers, signers and members and every    *)
(* bound.  Three invariants carry it: a fee goroutine past its schedule    *)
(* knows that the schedule exists (FeesInHand); a submission in hand is    *)
(* not a recorded one (SubmissionOrder, which needs the order in which the *)
(* process starts its parts, ProcessOrder); and a member configured like   *)
(* this node publishes nothing but agreed content (ContentAgreed).  The    *)
(* last part maps every step of the node to a step of SignatureQuorum, or  *)
(* to none.                                                                *)
(***************************************************************************)
EXTENDS ValidatorNodeProofs

USE DEF SubmitTopicConsensusMessage, WaitForTransaction

-----------------------------------------------------------------------------
(* The fee rows and their scheduled transactions.                          *)

(* A fee goroutine that has created its schedule, or found it, is right    *)
(* that there is one.                                                      *)
ScheduleExists ==
  \A t \in Transfers :
    feeFlow[t] \in {"created", "wait"} => scheduled[t] # "none"

FeesInHand ==
  /\ TypeOKLedger
  /\ TypeOKStore
  /\ TypeOKTransfer
  /\ ScheduleExists
  /\ FeeIsTruthful

(* Who touches schedules, fee rows and fee goroutines: the network, the    *)
(* goroutines themselves, whoever starts one, and the death of all.        *)
LEMMA FeeVariables ==
  ASSUME [Next]_vars
  PROVE  \/ UNCHANGED <<scheduled, fees, feeFlow>>
         \/ \E t \in Transfers :
              \/ Settle(t) /\ UNCHANGED <<fees, feeFlow>>
              \/ /\ GotoFee(t, "schedule") /\ UNCHANGED <<scheduled, fees>>
                 /\ flow[t] # "idle" \/ t \in unfinished
              \/ FeeRoutine(t)
         \/ /\ feeFlow' = [t \in Transfers |-> "idle"]
            /\ UNCHANGED <<scheduled, fees>>
<1> DEFINE Stays == UNCHANGED <<scheduled, fees, feeFlow>>
<1>1. CASE EnvironmentNext
  BY <1>1 DEF EnvironmentNext, Environment, Deposit, Publish, storeVars,
              transferVars
<1>2. CASE TransferWatcher
  BY <1>2 DEF TransferWatcher, StartTransferWatcher, PollTransfers,
              SaveTransferMilestone, ledgerVars, storeVars, transferVars
<1>3. ASSUME NEW t \in Transfers, TransferRoutine(t)
      PROVE  Stays \/ (/\ GotoFee(t, "schedule") /\ UNCHANGED <<scheduled, fees>>
                       /\ flow[t] # "idle")
  BY <1>3 DEF TransferRoutine, CheckTransaction, HandleTransfer,
              BeginProcessing, SubmitSignature, RecordSubmission, ledgerVars,
              storeVars
<1>4. ASSUME NEW t \in Transfers, SignatureMined(t)
      PROVE  Stays
  BY <1>4 DEF SignatureMined, ledgerVars
<1>5. CASE TransferNext
  BY <1>2, <1>3, <1>4, <1>5 DEF TransferNext, TransferStep
<1>6. CASE SignatureNext
  BY <1>6
  DEF SignatureNext, SignatureStep, MessageWatcher, HandlerRoutine,
      StartMessageWatcher, DeliverMessage, SaveMessageMilestone,
      CheckSignature, StoreSignature, CheckMajority, CompleteTransfer,
      ledgerVars, storeVars, transferVars
<1>7. CASE Main
  BY <1>7
  DEF Main, Boot, RecoverTransfer, FetchMessages, RecoverMessage,
      FetchUnfinished, ProcessUnfinished, BeginProcessing, StartPairs,
      ledgerVars, storeVars, transferVars
<1>8. CASE Crash
  BY <1>8 DEF Crash, ResetTransfer, ledgerVars, storeVars
<1>9. CASE UNCHANGED vars
  BY <1>9 DEF vars, ledgerVars, storeVars, transferVars
<1> QED
  BY <1>1, <1>5, <1>6, <1>7, <1>8, <1>9 DEF Next

(* A settled schedule stays settled, and no schedule disappears.           *)
SchedulesStay ==
  \A t \in Transfers :
    /\ scheduled[t] # "none" => scheduled'[t] # "none"
    /\ scheduled[t] \in {"SUCCESS", "FAILED"} => scheduled'[t] = scheduled[t]

LEMMA NextSchedulesStay ==
  ASSUME TypeOKLedger, [Next]_vars
  PROVE  SchedulesStay
<1> USE DEF SchedulesStay, TypeOKLedger
<1>1. ASSUME NEW t \in Transfers, Settle(t)
      PROVE  SchedulesStay
  BY <1>1 DEF Settle
<1>2. ASSUME NEW t \in Transfers, ScheduleFee(t)
      PROVE  SchedulesStay
  BY <1>2 DEF ScheduleFee
<1>3. ASSUME NEW t \in Transfers,
             RecordFee(t) \/ RecordFeeFailure(t) \/ FeeMined(t)
      PROVE  SchedulesStay
  BY <1>3 DEF RecordFee, RecordFeeFailure, FeeMined, ledgerVars
<1>4. CASE UNCHANGED scheduled
  BY <1>4
<1> QED
  BY <1>1, <1>2, <1>3, <1>4, FeeVariables DEF FeeRoutine

(* A goroutine comes past its schedule only by making it or finding it.    *)
LEMMA ScheduleExistsStep ==
  ASSUME FeesInHand, [Next]_vars
  PROVE  ScheduleExists'
<1>1. SchedulesStay
  BY NextSchedulesStay DEF FeesInHand
<1>2. /\ scheduled \in [Transfers -> Schedules]
      /\ feeFlow \in [Transfers -> FeeSteps]
  BY DEF FeesInHand, TypeOKLedger, TypeOKTransfer
<1>3. SUFFICES ASSUME NEW t \in Transfers, feeFlow'[t] \in {"created", "wait"}
               PROVE  \/ feeFlow[t] \in {"created", "wait"}
                      \/ scheduled'[t] # "none"
  BY <1>1, <1>3 DEF FeesInHand, ScheduleExists, SchedulesStay
<1>4. ASSUME NEW u \in Transfers, FeeRoutine(u)
      PROVE  feeFlow[t] \in {"created", "wait"} \/ scheduled'[t] # "none"
  BY <1>2, <1>3, <1>4
  DEF FeeRoutine, ScheduleFee, RecordFee, RecordFeeFailure, FeeMined, GotoFee
<1> QED
  BY <1>2, <1>3, <1>4, FeeVariables DEF GotoFee

(* What one row says of its scheduled transaction.                         *)
Truthful(f) ==
  f.id # Blank =>
    /\ f.id = f.tx
    /\ scheduled[f.tx] # "none"
    /\ f.status = "COMPLETED" => scheduled[f.tx] = "SUCCESS"
    /\ f.status = "FAILED" => scheduled[f.tx] = "FAILED"

(* An INSERT follows the schedule; an UPDATE copies the outcome; a row     *)
(* nobody touches stays true because schedules only move forward.          *)
LEMMA TruthfulStep ==
  ASSUME FeesInHand, [Next]_vars
  PROVE  FeeIsTruthful'
<1>1. SchedulesStay
  BY NextSchedulesStay DEF FeesInHand
<1>2. \A f \in fees : f \in FeeRows /\ Truthful(f)
  BY DEF FeesInHand, TypeOKStore, FeeIsTruthful, Truthful
<1>3. ASSUME NEW f \in fees
      PROVE  Truthful(f)'
  <2>1. f.tx \in Transfers
    BY <1>2 DEF FeeRows
  <2> QED
    BY <1>1, <1>2, <2>1 DEF Truthful, SchedulesStay
<1>4. SUFFICES ASSUME NEW f \in fees', f \notin fees
               PROVE  Truthful(f)'
  BY <1>3, <1>4 DEF FeeIsTruthful, Truthful
<1>5. PICK t \in Transfers : FeeRoutine(t)
  BY <1>4, FeeVariables
<1>6. CASE ScheduleFee(t)
  BY <1>4, <1>6 DEF ScheduleFee, storeVars
<1>7. CASE RecordFee(t)
  <2>1. f = [id |-> t, tx |-> t, status |-> "SUBMITTED"]
    BY <1>4, <1>7 DEF RecordFee, CreateFee
  <2>2. scheduled'[t] # "none"
    BY <1>1, <1>7 DEF RecordFee, FeesInHand, ScheduleExists, SchedulesStay
  <2> QED
    BY <2>1, <2>2 DEF Truthful
<1>8. CASE RecordFeeFailure(t)
  <2>1. f = [id |-> Blank, tx |-> t, status |-> "FAILED"]
    BY <1>4, <1>8 DEF RecordFeeFailure, CreateFee
  <2> QED
    BY <2>1 DEF Truthful
<1>9. CASE FeeMined(t)
  <2> DEFINE s == IF scheduled[t] = "SUCCESS" THEN "COMPLETED" ELSE "FAILED"
  <2>1. /\ scheduled[t] \in {"SUCCESS", "FAILED"}
        /\ scheduled' = scheduled
        /\ UpdateFeeStatus(t, s)
    BY <1>4, <1>9 DEF FeeMined, ledgerVars
  <2>2. PICK g \in fees : f = IF g.id = t THEN [g EXCEPT !.status = s] ELSE g
    BY <1>4, <2>1 DEF UpdateFeeStatus
  <2>3. g.id = t /\ f = [g EXCEPT !.status = s]
    BY <1>4, <2>2
  <2>4. g \in FeeRows /\ g.tx = t
    BY <1>2, <2>3, BlankAssumption DEF Truthful, BlankAssumption
  <2>5. f.id = t /\ f.tx = t /\ f.status = s
    BY <2>3, <2>4 DEF FeeRows
  <2> QED
    BY <2>1, <2>5 DEF Truthful
<1> QED
  BY <1>5, <1>6, <1>7, <1>8, <1>9 DEF FeeRoutine

(* A row whose status is final is rewritten, if at all, with the status it *)
(* has: the outcome it is told is the outcome it was told before.          *)
LEMMA FinalRowsStay ==
  ASSUME FeesInHand, [Next]_vars, NEW f \in fees, f.status # "SUBMITTED"
  PROVE  f \in fees'
<1>1. CASE UNCHANGED fees
  BY <1>1
<1>2. ASSUME NEW id, NEW t, NEW s, CreateFee(id, t, s)
      PROVE  f \in fees'
  BY <1>2 DEF CreateFee
<1>3. ASSUME NEW t \in Transfers, FeeMined(t)
      PROVE  f \in fees'
  <2> DEFINE s == IF scheduled[t] = "SUCCESS" THEN "COMPLETED" ELSE "FAILED"
             g == IF f.id = t THEN [f EXCEPT !.status = s] ELSE f
  <2>1. CASE UpdateFeeStatus(t, s)
    <3>1. g \in fees'
      BY <2>1 DEF UpdateFeeStatus
    <3>2. CASE f.id = t
      <4>1. f \in FeeRows /\ f.status \in {"COMPLETED", "FAILED"}
        BY DEF FeesInHand, TypeOKStore, FeeRows
      <4>2. /\ f.tx = t
            /\ f.status = "COMPLETED" => scheduled[t] = "SUCCESS"
            /\ f.status = "FAILED" => scheduled[t] = "FAILED"
        BY <3>2, BlankAssumption
        DEF FeesInHand, FeeIsTruthful, BlankAssumption
      <4>3. f.status = s
        BY <4>1, <4>2
      <4>4. g = f
        BY <4>1, <4>3 DEF FeeRows
      <4> QED
        BY <3>1, <4>4
    <3> QED
      BY <3>1, <3>2
  <2> QED
    BY <1>1, <1>3, <2>1 DEF FeeMined
<1>4. ASSUME NEW t \in Transfers, FeeRoutine(t)
      PROVE  f \in fees'
  BY <1>1, <1>2, <1>3, <1>4
  DEF FeeRoutine, ScheduleFee, RecordFee, RecordFeeFailure, storeVars
<1> QED
  BY <1>1, <1>4, FeeVariables

LEMMA FeesHold == Spec => []FeesInHand
<1>1. Init => FeesInHand
  BY InitType DEF Init, InitStore, InitTransfer, TypeOK, FeesInHand,
                  ScheduleExists, FeeIsTruthful
<1>2. TypeOK' /\ FeesInHand /\ [Next]_vars => FeesInHand'
  BY ScheduleExistsStep, TruthfulStep DEF FeesInHand, TypeOK
<1> QED
  BY <1>1, <1>2, TypeCorrect, PTL DEF Spec

(* A fee row belongs to a schedule that exists, and says SUBMITTED until   *)
(* that scheduled transaction has the outcome the row then states.         *)
THEOREM FeesAreTruthful == Spec => []FeeIsTruthful
<1>1. FeesInHand => FeeIsTruthful
  BY DEF FeesInHand
<1> QED
  BY <1>1, FeesHold, PTL

(* COMPLETED and FAILED are terminal for a fee row: the goroutine that a   *)
(* restart starts again for the same transfer writes nothing else.         *)
THEOREM FeesAreTerminal == Spec => FeeIsTerminal
<1>1. ASSUME FeesInHand, [Next]_vars
      PROVE  [\A f \in fees : f.status # "SUBMITTED" => f \in fees']_vars
  BY <1>1, FinalRowsStay
<1> QED
  BY <1>1, FeesHold, PTL DEF Spec, FeeIsTerminal

-----------------------------------------------------------------------------
(* The order in which a process starts its parts, and what is in hand.     *)

(* Watchers, and the goroutines that only they start, exist once the pairs *)
(* listen; main processes what it found unfinished before that.            *)
ProcessOrder ==
  /\ txWatch = "on" => phase = "running"
  /\ msgWatch = "on" => phase = "running"
  /\ unfinished # {} => phase = "unfinished"
  /\ \A t \in Transfers :
       /\ flow[t] \in {"spawned", "queued"} => phase = "running"
       /\ flow[t] # "idle" => phase \in {"unfinished", "running"}

LEMMA ProcessOrderStep ==
  ASSUME TypeOKTransfer, ProcessOrder, [Next]_vars
  PROVE  ProcessOrder'
<1> USE DEF ProcessOrder
<1>1. flow \in [Transfers -> FlowSteps]
  BY DEF TypeOKTransfer
<1>2. CASE UNCHANGED <<txWatch, msgWatch, unfinished, phase, flow>>
  BY <1>2
<1>3. CASE TransferNext
  <2>1. UNCHANGED <<msgWatch, unfinished, phase>>
    BY <1>3
    DEF TransferNext, TransferStep, TransferWatcher, TransferRoutine,
        FeeRoutine, StartTransferWatcher, PollTransfers, SaveTransferMilestone,
        CheckTransaction, HandleTransfer, SubmitSignature, RecordSubmission,
        SignatureMined, ScheduleFee, RecordFee, RecordFeeFailure, FeeMined,
        signatureVars, recoveryVars
  <2>2. CASE StartTransferWatcher
    BY <2>1, <2>2 DEF StartTransferWatcher
  <2>3. CASE PollTransfers
    BY <2>1, <2>3 DEF PollTransfers
  <2>4. CASE SaveTransferMilestone
    BY <2>1, <2>4 DEF SaveTransferMilestone, transferVars
  <2>5. ASSUME NEW t \in Transfers, TransferRoutine(t)
        PROVE  ProcessOrder'
    <3>1. /\ txWatch' = txWatch
          /\ flow[t] # "idle"
          /\ \E s : flow' = [flow EXCEPT ![t] = s]
          /\ flow'[t] \in {"spawned", "queued"} =>
               flow[t] \in {"spawned", "queued"}
      BY <1>1, <2>5
      DEF TransferRoutine, CheckTransaction, HandleTransfer, BeginProcessing,
          SubmitSignature, RecordSubmission, Goto
    <3> QED
      BY <1>1, <2>1, <3>1
  <2>6. ASSUME NEW t \in Transfers, FeeRoutine(t) \/ SignatureMined(t)
        PROVE  UNCHANGED <<txWatch, flow>>
    BY <2>6 DEF FeeRoutine, ScheduleFee, RecordFee, RecordFeeFailure, FeeMined,
                SignatureMined
  <2> QED
    BY <1>2, <1>3, <2>1, <2>2, <2>3, <2>4, <2>5, <2>6
    DEF TransferNext, TransferStep, TransferWatcher
<1>4. CASE SignatureNext
  <2>1. UNCHANGED <<txWatch, unfinished, phase, flow>>
    BY <1>4
    DEF SignatureNext, SignatureStep, MessageWatcher, HandlerRoutine,
        StartMessageWatcher, DeliverMessage, SaveMessageMilestone,
        CheckSignature, StoreSignature, CheckMajority, CompleteTransfer,
        transferVars, recoveryVars
  <2>2. msgWatch' = "on" => msgWatch = "on" \/ phase = "running"
    BY <1>4
    DEF SignatureNext, SignatureStep, MessageWatcher, HandlerRoutine,
        StartMessageWatcher, DeliverMessage, SaveMessageMilestone,
        CheckSignature, StoreSignature, CheckMajority, CompleteTransfer,
        signatureVars
  <2> QED
    BY <2>1, <2>2
<1>5. CASE Boot \/ RecoverTransfer \/ FetchMessages \/ RecoverMessage
  BY <1>5 DEF Boot, RecoverTransfer, FetchMessages, RecoverMessage,
              transferVars, signatureVars
<1>6. CASE FetchUnfinished \/ StartPairs
  BY <1>6 DEF FetchUnfinished, StartPairs, transferVars, signatureVars,
              recoveryVars
<1>7. ASSUME NEW t \in Transfers, ProcessUnfinished(t)
      PROVE  ProcessOrder'
  <2>1. /\ UNCHANGED <<txWatch, msgWatch, phase>>
        /\ phase = "unfinished"
        /\ flow' = [flow EXCEPT ![t] = "submit"]
    BY <1>7 DEF ProcessUnfinished, BeginProcessing, Goto, signatureVars
  <2> QED
    BY <1>1, <2>1
<1>8. CASE Crash
  BY <1>8 DEF Crash, ResetTransfer, ResetSignature
<1>9. CASE EnvironmentNext \/ UNCHANGED vars
  BY <1>2, <1>9 DEF EnvironmentNext, vars, processVars, transferVars,
                    signatureVars, recoveryVars
<1> QED
  BY <1>3, <1>4, <1>5, <1>6, <1>7, <1>8, <1>9 DEF Next, Main

(* The transfers whose submission a goroutine has in hand.                 *)
InHand == {t \in Transfers : flow[t] \in {"submit", "record"}}

(* A recorded submission is neither in hand nor waiting to be, and its     *)
(* status is past the ones that would start it again.                      *)
SubmissionOrder ==
  /\ \A t \in InHand \cup unfinished :
       status[t] # NoRow /\ signatureMsgStatus[t] = ""
  /\ InHand \cap unfinished = {}
  /\ \A t \in sigWait : signatureMsgStatus[t] # ""
  /\ \A t \in Transfers :
       signatureMsgStatus[t] # "" => status[t] \in {"IN_PROGRESS", "COMPLETED"}

SubmissionsInHand ==
  /\ TypeOKStore
  /\ TypeOKTransfer
  /\ TypeOKRecovery
  /\ ProcessOrder
  /\ SubmissionOrder

(* What the rest of the system may do to the tables' two status columns    *)
(* and to the goroutines of the transfers.                                 *)
LEMMA SubmissionVariables ==
  ASSUME [Next]_vars
  PROVE  \/ UNCHANGED <<status, signatureMsgStatus, flow, sigWait, unfinished>>
         \/ PollTransfers /\ UNCHANGED unfinished
         \/ \E t \in Transfers :
              \/ TransferRoutine(t) /\ UNCHANGED unfinished
              \/ SignatureMined(t) /\ UNCHANGED unfinished
              \/ ProcessUnfinished(t)
         \/ \E i \in Positions : CompleteTransfer(i) /\ UNCHANGED unfinished
         \/ RecoverTransfer
         \/ FetchUnfinished
         \/ Crash
<1> DEFINE Stays == UNCHANGED <<status, signatureMsgStatus, flow, sigWait>>
<1>1. CASE EnvironmentNext \/ UNCHANGED vars
  BY <1>1 DEF EnvironmentNext, vars, storeVars, transferVars, recoveryVars
<1>2. ASSUME StartTransferWatcher \/ SaveTransferMilestone
      PROVE  Stays
  BY <1>2 DEF StartTransferWatcher, SaveTransferMilestone, transferVars
<1>3. ASSUME NEW t \in Transfers, FeeRoutine(t)
      PROVE  Stays
  BY <1>3 DEF FeeRoutine, ScheduleFee, RecordFee, RecordFeeFailure, FeeMined,
              storeVars
<1>4. CASE TransferNext
  BY <1>2, <1>3, <1>4
  DEF TransferNext, TransferStep, TransferWatcher, recoveryVars,
      StartTransferWatcher, SaveTransferMilestone
<1>5. ASSUME NEW i \in Positions,
             CheckSignature(i) \/ StoreSignature(i) \/ CheckMajority(i)
      PROVE  Stays
  BY <1>5 DEF CheckSignature, StoreSignature, CheckMajority, storeVars,
              transferVars
<1>6. ASSUME MessageWatcher
      PROVE  Stays
  BY <1>6 DEF MessageWatcher, StartMessageWatcher, DeliverMessage,
              SaveMessageMilestone, storeVars, transferVars
<1>7. CASE SignatureNext
  BY <1>5, <1>6, <1>7
  DEF SignatureNext, SignatureStep, HandlerRoutine, recoveryVars
<1>8. CASE Main
  BY <1>8 DEF Main, Boot, FetchMessages, RecoverMessage, StartPairs,
              storeVars, transferVars, recoveryVars
<1> QED
  BY <1>1, <1>4, <1>7, <1>8 DEF Next

LEMMA SubmissionOrderStep ==
  ASSUME SubmissionsInHand, [Next]_vars
  PROVE  SubmissionOrder'
<1> USE DEF SubmissionOrder, InHand
<1>1. /\ status \in [Transfers -> TransferStatuses \cup {NoRow}]
      /\ signatureMsgStatus \in [Transfers -> SignatureMsgStatuses]
      /\ flow \in [Transfers -> FlowSteps]
      /\ sigWait \subseteq Transfers
      /\ unfinished \subseteq Transfers
  BY DEF SubmissionsInHand, TypeOKStore, TypeOKTransfer, TypeOKRecovery
<1>2. SubmissionOrder /\ ProcessOrder
  BY DEF SubmissionsInHand
<1>3. CASE UNCHANGED <<status, signatureMsgStatus, flow, sigWait, unfinished>>
  BY <1>2, <1>3
<1>4. CASE PollTransfers /\ UNCHANGED unfinished
  <2>1. /\ UNCHANGED <<status, signatureMsgStatus, sigWait, unfinished>>
        /\ \A t \in Transfers : flow'[t] \in {"spawned", flow[t]}
    BY <1>4 DEF PollTransfers, storeVars
  <2> QED
    BY <1>2, <2>1
<1>5. ASSUME NEW t \in Transfers, CheckTransaction(t) \/ SubmitSignature(t),
             UNCHANGED unfinished
      PROVE  SubmissionOrder'
  <2>1. /\ UNCHANGED <<status, signatureMsgStatus, sigWait, unfinished>>
        /\ \A u \in Transfers : u # t => flow'[u] = flow[u]
        /\ flow'[t] \in {"submit", "record"} => t \in InHand
    BY <1>1, <1>5 DEF CheckTransaction, SubmitSignature, Goto, storeVars
  <2> QED
    BY <1>2, <2>1
<1>6. ASSUME NEW t \in Transfers, HandleTransfer(t), UNCHANGED unfinished
      PROVE  SubmissionOrder'
  <2>1. /\ UNCHANGED <<signatureMsgStatus, sigWait>>
        /\ \A u \in Transfers : u # t => /\ flow'[u] = flow[u]
                                         /\ status'[u] = status[u]
        /\ flow'[t] \in {"submit", "idle"}
        /\ flow'[t] = "submit" => status'[t] = "INITIAL"
        /\ status'[t] = status[t] \/ status[t] = NoRow
    BY <1>1, <1>6 DEF HandleTransfer, CreateTransfer, BeginProcessing, Goto
  <2>2. unfinished = {}
    BY <1>2, <1>6 DEF HandleTransfer, ProcessOrder
  <2>3. NoRow \notin {"IN_PROGRESS", "COMPLETED", "INITIAL"}
    BY DEF NoRow
  <2>4. flow'[t] = "submit" => signatureMsgStatus[t] = ""
    BY <1>2, <2>1, <2>3
  <2> QED
    BY <1>1, <1>2, <1>6, <2>1, <2>2, <2>3, <2>4
<1>7. ASSUME NEW t \in Transfers, RecordSubmission(t), UNCHANGED unfinished
      PROVE  SubmissionOrder'
  <2>1. /\ status[t] # NoRow
        /\ flow' = [flow EXCEPT ![t] = "idle"]
        /\ t \notin unfinished
    BY <1>2, <1>7 DEF RecordSubmission, Goto
  <2>2. CASE UNCHANGED <<status, signatureMsgStatus, sigWait>>
    BY <1>1, <1>2, <1>7, <2>1, <2>2
  <2>3. CASE /\ status' = [status EXCEPT ![t] = "IN_PROGRESS"]
             /\ signatureMsgStatus' =
                  [signatureMsgStatus EXCEPT ![t] = "SIGNATURE_SUBMITTED"]
             /\ sigWait' = sigWait \cup {t}
    <3>1. /\ \A u \in Transfers :
               u # t => /\ flow'[u] = flow[u]
                        /\ status'[u] = status[u]
                        /\ signatureMsgStatus'[u] = signatureMsgStatus[u]
          /\ flow'[t] = "idle"
          /\ status'[t] = "IN_PROGRESS"
          /\ signatureMsgStatus'[t] = "SIGNATURE_SUBMITTED"
      BY <1>1, <2>1, <2>3
    <3> QED
      BY <1>1, <1>2, <1>7, <2>1, <2>3, <3>1
  <2> QED
    BY <1>7, <2>1, <2>2, <2>3
    DEF RecordSubmission, UpdateStatusSignatureSubmitted
<1>8. ASSUME NEW t \in Transfers, SignatureMined(t), UNCHANGED unfinished
      PROVE  SubmissionOrder'
  <2>1. /\ UNCHANGED <<status, flow>>
        /\ signatureMsgStatus[t] # ""
        /\ sigWait' \subseteq sigWait
        /\ \A u \in Transfers : u # t =>
             signatureMsgStatus'[u] = signatureMsgStatus[u]
        /\ signatureMsgStatus'[t] # ""
    BY <1>1, <1>2, <1>8 DEF SignatureMined, UpdateStatusSignatureMined
  <2> QED
    BY <1>1, <1>2, <1>8, <2>1
<1>9. ASSUME NEW t \in Transfers, ProcessUnfinished(t)
      PROVE  SubmissionOrder'
  <2>1. /\ UNCHANGED <<status, signatureMsgStatus, sigWait>>
        /\ t \in unfinished
        /\ unfinished' = unfinished \ {t}
        /\ flow' = [flow EXCEPT ![t] = "submit"]
    BY <1>9 DEF ProcessUnfinished, BeginProcessing, Goto, storeVars
  <2> QED
    BY <1>1, <1>2, <2>1
<1>10. ASSUME NEW i \in Positions, CompleteTransfer(i), UNCHANGED unfinished
       PROVE  SubmissionOrder'
  <2>1. /\ UNCHANGED <<signatureMsgStatus, flow, sigWait>>
        /\ \A u \in Transfers :
             \/ status'[u] = status[u]
             \/ status[u] # NoRow /\ status'[u] = "COMPLETED"
    BY <1>1, <1>10 DEF CompleteTransfer, UpdateStatusCompleted, transferVars
  <2> QED
    BY <1>1, <1>2, <1>10, <2>1 DEF NoRow
<1>11. CASE RecoverTransfer
  <2>1. /\ UNCHANGED <<signatureMsgStatus, flow, sigWait, unfinished>>
        /\ \A u \in Transfers :
             \/ status'[u] = status[u]
             \/ status[u] = NoRow /\ status'[u] = "RECOVERED"
    BY <1>1, <1>11 DEF RecoverTransfer, CreateTransfer, transferVars
  <2> QED
    BY <1>1, <1>2, <2>1 DEF NoRow
<1>12. CASE FetchUnfinished
  <2>1. /\ UNCHANGED <<status, signatureMsgStatus, flow, sigWait>>
        /\ unfinished' = GetUnprocessedTransfers
        /\ InHand = {}
    BY <1>2, <1>12 DEF FetchUnfinished, storeVars, transferVars, ProcessOrder
  <2>2. \A t \in GetUnprocessedTransfers :
          status[t] # NoRow /\ signatureMsgStatus[t] = ""
    BY <1>2 DEF GetUnprocessedTransfers, NoRow
  <2> QED
    BY <1>2, <2>1, <2>2
<1>13. CASE Crash
  BY <1>2, <1>13 DEF Crash, ResetTransfer, storeVars
<1> QED
  BY <1>3, <1>4, <1>5, <1>6, <1>7, <1>8, <1>9, <1>10, <1>11, <1>12, <1>13,
     SubmissionVariables DEF TransferRoutine

LEMMA SubmissionsHold == Spec => []SubmissionsInHand
<1>1. Init => SubmissionsInHand
  <2>1. ASSUME Init
        PROVE  ProcessOrder /\ SubmissionOrder
    BY <2>1 DEF Init, InitStore, InitTransfer, InitSignature, InitRecovery,
                ProcessOrder, SubmissionOrder, InHand
  <2> QED
    BY <2>1, InitType DEF SubmissionsInHand, TypeOK
<1>2. TypeOK' /\ SubmissionsInHand /\ [Next]_vars => SubmissionsInHand'
  BY ProcessOrderStep, SubmissionOrderStep DEF SubmissionsInHand, TypeOK
<1> QED
  BY <1>1, <1>2, TypeCorrect, PTL DEF Spec

(* What a step appends to the ledger, if it appends anything.              *)
LEMMA LedgerSteps ==
  ASSUME [Next]_vars
  PROVE  \/ UNCHANGED ledger
         \/ \E t \in Transfers : Deposit(t) /\ UNCHANGED storeVars
         \/ \E t \in Transfers, s \in Signers :
              Publish(t, s) /\ UNCHANGED storeVars
         \/ \E t \in Transfers : /\ SubmitSignature(t)
                                 /\ flow[t] = "submit"
                                 /\ Present < MaxLedger
                                 /\ Reach(AgreedSignature(t, Self))
                                 /\ UNCHANGED <<storeVars, recoveryVars>>
<1>1. CASE EnvironmentNext
  BY <1>1 DEF EnvironmentNext, Environment, Settle
<1>2. CASE TransferWatcher
  BY <1>2 DEF TransferWatcher, StartTransferWatcher, PollTransfers,
              SaveTransferMilestone, ledgerVars
<1>3. ASSUME NEW t \in Transfers, TransferRoutine(t)
      PROVE  \/ UNCHANGED ledger
             \/ /\ SubmitSignature(t)
                /\ flow[t] = "submit"
                /\ Present < MaxLedger
                /\ Reach(AgreedSignature(t, Self))
                /\ UNCHANGED storeVars
  BY <1>3 DEF TransferRoutine, CheckTransaction, HandleTransfer,
              SubmitSignature, RecordSubmission, ledgerVars, storeVars
<1>4. ASSUME NEW t \in Transfers, FeeRoutine(t) \/ SignatureMined(t)
      PROVE  UNCHANGED ledger
  BY <1>4 DEF FeeRoutine, ScheduleFee, RecordFee, RecordFeeFailure, FeeMined,
              SignatureMined, ledgerVars
<1>5. CASE TransferNext
  BY <1>2, <1>3, <1>4, <1>5 DEF TransferNext, TransferStep
<1>6. CASE SignatureNext
  BY <1>6
  DEF SignatureNext, SignatureStep, MessageWatcher, HandlerRoutine,
      StartMessageWatcher, DeliverMessage, SaveMessageMilestone,
      CheckSignature, StoreSignature, CheckMajority, CompleteTransfer,
      ledgerVars
<1>7. CASE Main \/ Crash
  BY <1>7
  DEF Main, Boot, RecoverTransfer, FetchMessages, RecoverMessage,
      FetchUnfinished, ProcessUnfinished, StartPairs, Crash, ledgerVars
<1>8. CASE UNCHANGED vars
  BY <1>8 DEF vars, ledgerVars
<1> QED
  BY <1>1, <1>5, <1>6, <1>7, <1>8 DEF Next

(* An item that is not the one appended is there as often as before.       *)
LEMMA OtherCopiesStay ==
  ASSUME TypeOKLedger, NEW item, NEW other, other # item, Reach(item)
  PROVE  CopiesOf(other)' = CopiesOf(other)
<1>1. ledger \in Seq(Deposits \cup Signatures)
  BY DEF TypeOKLedger
<1>2. /\ Len(ledger') = Len(ledger) + 1
      /\ \A i \in 1..Len(ledger) : ledger'[i] = ledger[i]
      /\ ledger'[Len(ledger) + 1] = item
  BY <1>1 DEF Reach
<1>3. Len(ledger) \in Nat
  BY <1>1, LenProperties
<1>4. {i \in 1..Len(ledger') : ledger'[i] = other}
        = {i \in 1..Len(ledger) : ledger[i] = other}
  BY <1>2, <1>3
<1> QED
  BY <1>4 DEF CopiesOf

(* This node's signature is appended by the transfer's own goroutine only, *)
(* which has it in hand.                                                   *)
LEMMA OwnCopiesStay ==
  ASSUME TypeOKLedger, SubmissionOrder, [Next]_vars,
         NEW t \in Transfers, signatureMsgStatus[t] # ""
  PROVE  CopiesOf(OwnSignature(t))' = CopiesOf(OwnSignature(t))
<1> DEFINE own == AgreedSignature(t, Self)
<1>1. SUFFICES CopiesOf(own)' = CopiesOf(own)
  BY DEF OwnSignature, CopiesOf, AgreedSignature
<1>2. CASE UNCHANGED ledger
  BY <1>2 DEF CopiesOf
<1>3. ASSUME NEW u \in Transfers, Deposit(u)
      PROVE  CopiesOf(own)' = CopiesOf(own)
  <2>1. own # [deposit |-> u]
    BY DEF AgreedSignature
  <2>2. Reach([deposit |-> u])
    BY <1>3 DEF Deposit
  <2> QED
    BY <2>1, <2>2, OtherCopiesStay
<1>4. ASSUME NEW u \in Transfers, NEW s \in Signers, Publish(u, s)
      PROVE  CopiesOf(own)' = CopiesOf(own)
  <2> DEFINE m == [tx |-> u, signer |-> s,
                   auth |-> IF s \in Misconfigured THEN "other" ELSE "agreed"]
  <2>1. own # m
    BY <1>4 DEF AgreedSignature, Publish
  <2>2. Reach(m)
    BY <1>4 DEF Publish
  <2> QED
    BY <2>1, <2>2, OtherCopiesStay
<1>5. ASSUME NEW u \in Transfers, flow[u] = "submit",
             Reach(AgreedSignature(u, Self))
      PROVE  CopiesOf(own)' = CopiesOf(own)
  <2>1. u # t
    BY <1>5 DEF SubmissionOrder, InHand
  <2>2. own # AgreedSignature(u, Self)
    BY <2>1 DEF AgreedSignature
  <2> QED
    BY <1>5, <2>2, OtherCopiesStay
<1> QED
  BY <1>2, <1>3, <1>4, <1>5, LedgerSteps

(* Once the submission is recorded the signature is never sent again,      *)
(* whatever the recovery of a later start finds.                           *)
THEOREM SubmittedIsFinal == Spec => SubmittedOnce
<1>1. ASSUME TypeOK, SubmissionsInHand, [Next]_vars
      PROVE  [\A t \in Transfers :
                signatureMsgStatus[t] # "" =>
                  CopiesOf(OwnSignature(t))' = CopiesOf(OwnSignature(t))]_vars
  BY <1>1, OwnCopiesStay DEF TypeOK, SubmissionsInHand
<1> QED
  BY <1>1, TypeCorrect, SubmissionsHold, PTL DEF Spec, SubmittedOnce

(* Only the recording of a submission takes COMPLETED back.                *)
LEMMA CompletedLeavesStep ==
  ASSUME SubmissionsInHand, [Next]_vars, NEW t \in Transfers,
         status[t] = "COMPLETED"
  PROVE  status'[t] = "COMPLETED" \/ RecordSubmission(t)
<1>1. status \in [Transfers -> TransferStatuses \cup {NoRow}]
  BY DEF SubmissionsInHand, TypeOKStore
<1>2. CASE UNCHANGED status
  BY <1>2
<1>3. ASSUME NEW u \in Transfers, RecordSubmission(u), u # t
      PROVE  status'[t] = "COMPLETED"
  BY <1>1, <1>3 DEF RecordSubmission, UpdateStatusSignatureSubmitted
<1>4. ASSUME NEW u \in Transfers, HandleTransfer(u)
      PROVE  status'[t] = "COMPLETED"
  BY <1>1, <1>4 DEF HandleTransfer, CreateTransfer, NoRow
<1>5. ASSUME NEW u \in Transfers, CheckTransaction(u) \/ SubmitSignature(u)
      PROVE  UNCHANGED status
  BY <1>5 DEF CheckTransaction, SubmitSignature, storeVars
<1>6. CASE \E i \in Positions : CompleteTransfer(i)
  BY <1>1, <1>6 DEF CompleteTransfer, UpdateStatusCompleted, NoRow
<1>7. CASE RecoverTransfer
  BY <1>1, <1>7 DEF RecoverTransfer, CreateTransfer, NoRow
<1>8. CASE PollTransfers \/ FetchUnfinished \/ Crash
  BY <1>2, <1>8 DEF PollTransfers, FetchUnfinished, Crash, storeVars
<1>9. ASSUME NEW u \in Transfers, SignatureMined(u) \/ ProcessUnfinished(u)
       PROVE  UNCHANGED status
  BY <1>9 DEF SignatureMined, ProcessUnfinished, storeVars
<1> QED
  BY <1>2, <1>3, <1>4, <1>5, <1>6, <1>7, <1>8, <1>9, SubmissionVariables
  DEF TransferRoutine

(* And it is in hand no more once it is recorded.                          *)
LEMMA CompletedStaysStep ==
  ASSUME SubmissionsInHand, [Next]_vars, NEW t \in Transfers,
         status[t] = "COMPLETED", signatureMsgStatus[t] # ""
  PROVE  status'[t] = "COMPLETED"
<1>1. flow[t] # "record"
  BY DEF SubmissionsInHand, SubmissionOrder, InHand
<1> QED
  BY <1>1, CompletedLeavesStep DEF RecordSubmission

(* A transfer reported as COMPLETED after this node recorded its own       *)
(* signature stays COMPLETED.  (Before that it need not: see               *)
(* CompletedIsTerminal.)                                                   *)
THEOREM CompletedIsFinal == Spec => CompletedStays
<1>1. ASSUME SubmissionsInHand, [Next]_vars
      PROVE  [\A t \in Transfers :
                status[t] = "COMPLETED" /\ signatureMsgStatus[t] # ""
                  => status'[t] = "COMPLETED"]_vars
  BY <1>1, CompletedStaysStep
<1> QED
  BY <1>1, SubmissionsHold, PTL DEF Spec, CompletedStays

(* What takes COMPLETED back before that is one statement only: the        *)
(* UPDATE after the receipt of a submission that is on the topic, the      *)
(* first one recorded of the transfer (service.go:234).                    *)
WithdrawnByRecording(t) ==
  /\ status'[t] = "IN_PROGRESS"
  /\ flow[t] = "record"
  /\ signatureMsgStatus[t] = ""
  /\ OnLedger(OwnSignature(t))

(* COMPLETED is lost to the node's own recording or not at all.            *)
THEOREM OnlyRecordingWithdraws ==
  Spec => [][\A t \in Transfers :
               status[t] = "COMPLETED" =>
                 status'[t] = "COMPLETED" \/ WithdrawnByRecording(t)]_vars
<1>1. ASSUME Inductive, SubmissionsInHand, [Next]_vars,
             NEW t \in Transfers, status[t] = "COMPLETED",
             status'[t] # "COMPLETED"
      PROVE  WithdrawnByRecording(t)
  <2>1. RecordSubmission(t)
    BY <1>1, CompletedLeavesStep
  <2>2. status \in [Transfers -> TransferStatuses \cup {NoRow}]
    BY <1>1 DEF SubmissionsInHand, TypeOKStore
  <2>3. flow[t] = "record" /\ status'[t] = "IN_PROGRESS"
    BY <1>1, <2>1, <2>2
    DEF RecordSubmission, UpdateStatusSignatureSubmitted, NoRow
  <2>4. signatureMsgStatus[t] = ""
    BY <1>1, CompletedStaysStep
  <2>5. OnLedger(OwnSignature(t))
    BY <1>1, <2>3 DEF Inductive, SubmissionOnLedger
  <2> QED
    BY <2>3, <2>4, <2>5 DEF WithdrawnByRecording
<1>2. ASSUME Inductive, SubmissionsInHand, [Next]_vars
      PROVE  [\A t \in Transfers :
                status[t] = "COMPLETED" =>
                  status'[t] = "COMPLETED" \/ WithdrawnByRecording(t)]_vars
  BY <1>1, <1>2
<1> QED
  BY <1>2, InductiveHolds, SubmissionsHold, PTL DEF Spec

-----------------------------------------------------------------------------
(* The content of what is stored.                                          *)

(* Nothing but the content this node agrees with reaches the messages      *)
(* table where every member is configured alike, or where the process      *)
(* never recovers.  (Recovery compares nothing, so this cannot be dropped: *)
(* one death and one member with another fee percentage break it.)         *)
Uninterrupted == RecoverFrom = Absent /\ MaxCrashes = 0
ContentIsChecked == Misconfigured = {} \/ Uninterrupted

MembersAgree ==
  \A i \in SignaturesAfter(0) :
    ledger[i].signer \in Members \ Misconfigured => ledger[i].auth = "agreed"

HandlersAgree ==
  \A i \in Positions : handler[i] = "create" => ledger[i].auth = "agreed"

NeverRecovers ==
  Uninterrupted => /\ phase \in {"down", "running"}
                   /\ phase = "down" => txMilestone = Absent

ContentAgreed ==
  /\ MembersAgree
  /\ HandlersAgree
  /\ NeverRecovers
  /\ ContentIsChecked => StoredIsAgreed

(* A signature is either there already, or the one just appended.          *)
LEMMA SignaturesAppended ==
  ASSUME TypeOKLedger, NEW item, Reach(item), NEW i \in SignaturesAfter(0)'
  PROVE  \/ i \in SignaturesAfter(0) /\ ledger'[i] = ledger[i]
         \/ ledger'[i] = item
<1>1. ledger \in Seq(Deposits \cup Signatures) /\ Len(ledger) \in Nat
  BY LenProperties DEF TypeOKLedger
<1>2. /\ Len(ledger') = Len(ledger) + 1
      /\ \A j \in 1..Len(ledger) : ledger'[j] = ledger[j]
      /\ ledger'[Len(ledger) + 1] = item
  BY <1>1 DEF Reach
<1>3. /\ i \in 1..Len(ledger')
      /\ ledger'[i] \in Signatures
  BY DEF SignaturesAfter, Present
<1> QED
  BY <1>1, <1>2, <1>3 DEF SignaturesAfter, Present

(* A member that is configured like this node computes the same content.   *)
LEMMA MembersAgreeStep ==
  ASSUME TypeOKLedger, MembersAgree, [Next]_vars
  PROVE  MembersAgree'
<1> DEFINE Agrees(m) ==
      m.signer \in Members \ Misconfigured => m.auth = "agreed"
<1>1. ASSUME NEW item, Reach(item), item \in Signatures => Agrees(item)
      PROVE  MembersAgree'
  <2>1. ASSUME NEW i \in SignaturesAfter(0)'
        PROVE  Agrees(ledger'[i])
    <3>1. ledger'[i] \in Signatures
      BY DEF SignaturesAfter
    <3> QED
      BY <1>1, <3>1, SignaturesAppended DEF MembersAgree
  <2> QED
    BY <2>1 DEF MembersAgree
<1>2. CASE UNCHANGED ledger
  BY <1>2 DEF MembersAgree, SignaturesAfter, Present
<1>3. ASSUME NEW t \in Transfers, Deposit(t)
      PROVE  MembersAgree'
  <2>1. [deposit |-> t] \notin Signatures
    BY DEF Signatures
  <2> QED
    BY <1>1, <1>3, <2>1 DEF Deposit
<1>4. ASSUME NEW t \in Transfers, NEW s \in Signers, Publish(t, s)
      PROVE  MembersAgree'
  <2> DEFINE m == [tx |-> t, signer |-> s,
                   auth |-> IF s \in Misconfigured THEN "other" ELSE "agreed"]
  <2>1. Agrees(m)
    OBVIOUS
  <2>2. Reach(m)
    BY <1>4 DEF Publish
  <2> QED
    BY <1>1, <2>1, <2>2
<1>5. ASSUME NEW t \in Transfers, Reach(AgreedSignature(t, Self))
      PROVE  MembersAgree'
  <2>1. Agrees(AgreedSignature(t, Self))
    BY DEF AgreedSignature
  <2> QED
    BY <1>1, <1>5, <2>1
<1> QED
  BY <1>2, <1>3, <1>4, <1>5, LedgerSteps

(* A handler stores what SanityCheckSignature let pass.                    *)
LEMMA HandlersAgreeStep ==
  ASSUME Inductive, HandlersAgree, [Next]_vars
  PROVE  HandlersAgree'
<1>1. handler \in [Positions -> HandlerSteps]
  BY DEF Inductive, TypeOK, TypeOKSignature
<1>2. \A i \in Positions :
        handler'[i] = "create" => handler[i] = "create" \/ CheckSignature(i)
  <2> SUFFICES ASSUME NEW i \in Positions, handler'[i] = "create"
               PROVE  handler[i] = "create" \/ CheckSignature(i)
    OBVIOUS
  <2>1. CASE DeliverMessage
    BY <1>1, <2>1 DEF DeliverMessage, GotoHandler
  <2>2. ASSUME NEW j \in Positions, HandlerRoutine(j)
        PROVE  handler[i] = "create" \/ CheckSignature(i)
    BY <1>1, <2>2
    DEF HandlerRoutine, CheckSignature, StoreSignature, CheckMajority,
        CompleteTransfer, GotoHandler
  <2>3. CASE StartMessageWatcher \/ SaveMessageMilestone
    BY <2>3 DEF StartMessageWatcher, SaveMessageMilestone, signatureVars
  <2>4. CASE SignatureNext
    BY <2>1, <2>2, <2>3, <2>4 DEF SignatureNext, SignatureStep, MessageWatcher
  <2>5. CASE Crash
    BY <2>5 DEF Crash, ResetSignature
  <2>6. CASE EnvironmentNext \/ TransferNext \/ Main \/ UNCHANGED vars
    BY <2>6
    DEF EnvironmentNext, TransferNext, vars, signatureVars, Main, Boot,
        RecoverTransfer, FetchMessages, RecoverMessage, FetchUnfinished,
        ProcessUnfinished, StartPairs
  <2> QED
    BY <2>4, <2>5, <2>6 DEF Next
<1>3. ASSUME NEW i \in Positions, handler'[i] = "create"
      PROVE  ledger'[i].auth = "agreed"
  <2>1. ledger[i].auth = "agreed"
    BY <1>1, <1>2, <1>3 DEF HandlersAgree, CheckSignature, GotoHandler
  <2>2. handler[i] # "idle"
    BY <1>2, <1>3 DEF CheckSignature
  <2>3. ledger'[i] = ledger[i]
    <3>1. LedgerGrows
      BY NextGrows DEF Inductive, TypeOK
    <3> QED
      BY <2>2, <3>1, PositionsStay
      DEF Inductive, TypeOK, HandlersOnLedger
  <2> QED
    BY <2>1, <2>3
<1> QED
  BY <1>3 DEF HandlersAgree

(* Without a configured interval the first start recovers nothing, and     *)
(* there is no second one.                                                 *)
LEMMA NeverRecoversStep ==
  ASSUME TypeOK, ProcessOrder, NeverRecovers, [Next]_vars
  PROVE  NeverRecovers'
<1>1. SUFFICES ASSUME Uninterrupted
               PROVE  /\ phase' \in {"down", "running"}
                      /\ phase' = "down" => txMilestone' = Absent
  BY DEF NeverRecovers, Uninterrupted
<1>2. /\ phase \in {"down", "running"}
      /\ phase = "down" => txMilestone = Absent
  BY <1>1 DEF NeverRecovers
<1>3. CASE UNCHANGED <<phase, txMilestone>>
  BY <1>2, <1>3
<1>4. CASE Boot
  BY <1>1, <1>2, <1>4 DEF Boot, Uninterrupted, TransfersFrom
<1>5. CASE Crash
  BY <1>1, <1>5 DEF Crash, Uninterrupted, TypeOK, TypeOKRecovery
<1>6. CASE RecoverTransfer \/ FetchMessages \/ RecoverMessage
           \/ FetchUnfinished \/ StartPairs
           \/ \E t \in Transfers : ProcessUnfinished(t)
  BY <1>2, <1>6
  DEF RecoverTransfer, FetchMessages, RecoverMessage, FetchUnfinished,
      StartPairs, ProcessUnfinished
<1>7. CASE StartTransferWatcher \/ SaveTransferMilestone
  BY <1>2, <1>7 DEF StartTransferWatcher, SaveTransferMilestone, ProcessOrder
<1>8. CASE TransferNext
  BY <1>3, <1>7, <1>8
  DEF TransferNext, TransferStep, TransferWatcher, TransferRoutine, FeeRoutine,
      PollTransfers, CheckTransaction, HandleTransfer, SubmitSignature,
      RecordSubmission, SignatureMined, ScheduleFee, RecordFee,
      RecordFeeFailure, FeeMined, storeVars
<1>9. CASE SignatureNext
  BY <1>3, <1>9
  DEF SignatureNext, SignatureStep, MessageWatcher, HandlerRoutine,
      StartMessageWatcher, DeliverMessage, SaveMessageMilestone,
      CheckSignature, StoreSignature, CheckMajority, CompleteTransfer,
      storeVars
<1>10. CASE EnvironmentNext \/ UNCHANGED vars
  BY <1>3, <1>10 DEF EnvironmentNext, vars, storeVars, processVars
<1> QED
  BY <1>4, <1>5, <1>6, <1>8, <1>9, <1>10 DEF Next, Main

(* The two writers of the messages table.                                  *)
LEMMA MessageVariables ==
  ASSUME [Next]_vars
  PROVE  \/ UNCHANGED messages
         \/ \E i \in Positions : StoreSignature(i)
         \/ RecoverMessage
<1>1. CASE SignatureNext
  BY <1>1
  DEF SignatureNext, SignatureStep, MessageWatcher, HandlerRoutine,
      StartMessageWatcher, DeliverMessage, SaveMessageMilestone,
      CheckSignature, CheckMajority, CompleteTransfer, storeVars
<1>2. CASE TransferNext
  BY <1>2
  DEF TransferNext, TransferStep, TransferWatcher, TransferRoutine, FeeRoutine,
      StartTransferWatcher, PollTransfers, SaveTransferMilestone,
      CheckTransaction, HandleTransfer, SubmitSignature, RecordSubmission,
      SignatureMined, ScheduleFee, RecordFee, RecordFeeFailure, FeeMined,
      storeVars
<1>3. CASE Main \/ Crash
  BY <1>3
  DEF Main, Boot, RecoverTransfer, FetchMessages, FetchUnfinished,
      ProcessUnfinished, StartPairs, Crash, storeVars
<1>4. CASE EnvironmentNext \/ UNCHANGED vars
  BY <1>4 DEF EnvironmentNext, vars, storeVars
<1> QED
  BY <1>1, <1>2, <1>3, <1>4 DEF Next

(* Both writers store what a member published, one after another.          *)
LEMMA StoredFromLedger ==
  ASSUME Inductive, [Next]_vars, NEW m \in messages', m \notin messages
  PROVE  /\ UNCHANGED <<ledger, status, signatureMsgStatus>>
         /\ messages' = messages \cup {m}
         /\ m.signer \in Members
         /\ \E i \in SignaturesAfter(0) :
              /\ m = ledger[i]
              /\ \/ i \in Positions /\ handler[i] = "create"
                 \/ i \in backlog /\ phase = "messages"
<1>1. ASSUME NEW i \in Positions, StoreSignature(i)
      PROVE  /\ UNCHANGED <<ledger, status, signatureMsgStatus>>
             /\ messages' = messages \cup {m}
             /\ m.signer \in Members
             /\ i \in SignaturesAfter(0)
             /\ m = ledger[i]
             /\ handler[i] = "create"
  <2>1. handler[i] = "create" /\ messages' = messages \cup {ledger[i]}
    BY <1>1 DEF StoreSignature, CreateMessage
  <2>2. /\ UNCHANGED <<ledger, status, signatureMsgStatus>>
        /\ m = ledger[i]
    BY <1>1, <2>1 DEF StoreSignature, ledgerVars
  <2> QED
    BY <2>1, <2>2 DEF Inductive, HandlersOnLedger
<1>2. CASE RecoverMessage
  <2>1. PICK i \in backlog : /\ messages' = messages \cup {ledger[i]}
                             /\ ledger[i].signer \in Members
    BY <1>2 DEF RecoverMessage, CreateMessage, IsMember
  <2>2. /\ UNCHANGED <<ledger, status, signatureMsgStatus>>
        /\ m = ledger[i]
        /\ i \in backlog /\ phase = "messages"
        /\ i \in SignaturesAfter(0)
    BY <1>2, <2>1 DEF RecoverMessage, ledgerVars, Inductive, BacklogOnLedger
  <2> QED
    BY <2>1, <2>2
<1> QED
  BY <1>1, <1>2, MessageVariables

(* What a handler stores was compared; what the recovery stores comes from *)
(* a member that computes the same content.                                *)
LEMMA StoredAgreedStep ==
  ASSUME Inductive, ContentAgreed, ContentIsChecked, [Next]_vars
  PROVE  StoredIsAgreed'
<1>1. ASSUME NEW m \in messages', m \notin messages
      PROVE  m.auth = "agreed"
  <2>1. m.signer \in Members
    BY <1>1, StoredFromLedger
  <2>2. PICK i \in SignaturesAfter(0) :
          /\ m = ledger[i]
          /\ (i \in Positions /\ handler[i] = "create") \/ phase = "messages"
    BY <1>1, StoredFromLedger
  <2>3. CASE i \in Positions /\ handler[i] = "create"
    BY <2>2, <2>3 DEF ContentAgreed, HandlersAgree
  <2>4. CASE phase = "messages"
    <3>1. Misconfigured = {}
      BY <2>4 DEF ContentIsChecked, ContentAgreed, NeverRecovers
    <3> QED
      BY <2>1, <2>2, <3>1 DEF ContentAgreed, MembersAgree
  <2> QED
    BY <2>2, <2>3, <2>4
<1> QED
  BY <1>1 DEF ContentAgreed, StoredIsAgreed

LEMMA ContentHolds == Spec => []ContentAgreed
<1>1. ASSUME Init
      PROVE  ContentAgreed
  <2>1. SignaturesAfter(0) = {}
    BY <1>1 DEF Init, InitLedger, SignaturesAfter, Present
  <2>2. /\ \A i \in Positions : handler[i] = "idle"
        /\ phase = "down" /\ txMilestone = Absent
        /\ messages = {}
    BY <1>1 DEF Init, InitStore, InitTransfer, InitSignature
  <2> QED
    BY <2>1, <2>2
    DEF ContentAgreed, MembersAgree, HandlersAgree, NeverRecovers,
        StoredIsAgreed
<1>2. Inductive /\ SubmissionsInHand /\ ContentAgreed /\ [Next]_vars
        => ContentAgreed'
  BY MembersAgreeStep, HandlersAgreeStep, NeverRecoversStep, StoredAgreedStep
  DEF ContentAgreed, Inductive, TypeOK, SubmissionsInHand, ContentIsChecked,
      Uninterrupted
<1> QED
  BY <1>1, <1>2, InductiveHolds, SubmissionsHold, PTL DEF Spec

(* Every stored signature is over the content this node agrees with, as    *)
(* long as the members are configured alike or the process never recovers. *)
THEOREM StoredIsAlwaysAgreed == ContentIsChecked => (Spec => []StoredIsAgreed)
<1> SUFFICES ASSUME ContentIsChecked
             PROVE  Spec => []StoredIsAgreed
  OBVIOUS
<1>1. ContentAgreed => StoredIsAgreed
  BY DEF ContentAgreed
<1> QED
  BY <1>1, ContentHolds, PTL

(* A transfer is COMPLETED only with the signatures of a majority of the   *)
(* members over the content this node agrees with.                         *)
THEOREM CompletedAlwaysByMajority ==
  ContentIsChecked => (Spec => []CompletedByMajority)
<1> SUFFICES ASSUME ContentIsChecked
             PROVE  Spec => []CompletedByMajority
  OBVIOUS
<1>1. ASSUME Inductive, StoredIsAgreed
      PROVE  CompletedByMajority
  <2>1. \A t \in Transfers : AgreedMessagesOf(t) = MessagesOf(t)
    BY <1>1 DEF StoredIsAgreed, AgreedMessagesOf, MessagesOf
  <2> QED
    BY <1>1, <2>1
    DEF Inductive, CompletedIsServed, TransferDataMajority, HasMajority,
        CompletedByMajority
<1>2. Spec => []StoredIsAgreed
  BY StoredIsAlwaysAgreed
<1> QED
  BY <1>1, <1>2, InductiveHolds, PTL

-----------------------------------------------------------------------------
(* The node implements SignatureQuorum.                                    *)

(* What the refinement maps the state to.                                  *)
Published == {ts \in Transfers \X Members :
                OnLedger(AgreedSignature(ts[1], ts[2]))}
Collected == {ts \in Transfers \X Members :
                AgreedSignature(ts[1], ts[2]) \in messages}
Recorded  == {t \in Transfers : signatureMsgStatus[t] # ""}
Completed == {t \in Transfers : status[t] = "COMPLETED"}

QuorumStays == UNCHANGED <<Published, Collected, Recorded, Completed>>

LEMMA QuorumCardinality == \A S : Quorum!Cardinality(S) = Cardinality(S)
  BY DEF Quorum!Cardinality, Cardinality

(* The actions of SignatureQuorum, spelt out over the mapped sets.         *)
LEMMA QuorumSteps ==
  ASSUME NEW t \in Transfers
  PROVE  /\ \A s \in Members :
              /\ Published' = Published \cup {<<t, s>>}
              /\ UNCHANGED <<Collected, Recorded, Completed>>
              => Quorum!QNext
         /\ \A s \in Members :
              /\ <<t, s>> \in Published
              /\ Collected' = Collected \cup {<<t, s>>}
              /\ UNCHANGED <<Published, Recorded, Completed>>
              => Quorum!QNext
         /\ /\ t \notin Recorded
            /\ <<t, Self>> \in Published
            /\ Recorded' = Recorded \cup {t}
            /\ Completed' = Completed \ {t}
            /\ UNCHANGED <<Published, Collected>>
            => Quorum!QNext
         /\ /\ Cardinality({s \in Members : <<t, s>> \in Collected})
                 >= RequiredSigCount
            /\ Completed' = Completed \cup {t}
            /\ UNCHANGED <<Published, Collected, Recorded>>
            => Quorum!QNext
<1> USE DEF Published, Collected, Recorded, Completed
<1>1. ASSUME NEW s \in Members,
             Published' = Published \cup {<<t, s>>},
             UNCHANGED <<Collected, Recorded, Completed>>
      PROVE  Quorum!QPublish(t, s)
  BY <1>1 DEF Quorum!QPublish
<1>2. ASSUME NEW s \in Members,
             <<t, s>> \in Published,
             Collected' = Collected \cup {<<t, s>>},
             UNCHANGED <<Published, Recorded, Completed>>
      PROVE  Quorum!QCollect(t, s)
  BY <1>2 DEF Quorum!QCollect
<1>3. ASSUME t \notin Recorded,
             <<t, Self>> \in Published,
             Recorded' = Recorded \cup {t},
             Completed' = Completed \ {t},
             UNCHANGED <<Published, Collected>>
      PROVE  Quorum!QRecord(t)
  BY <1>3 DEF Quorum!QRecord
<1>4. ASSUME Cardinality({s \in Members : <<t, s>> \in Collected})
               >= RequiredSigCount,
             Completed' = Completed \cup {t},
             UNCHANGED <<Published, Collected, Recorded>>
      PROVE  Quorum!QComplete(t)
  BY <1>4, QuorumCardinality
  DEF Quorum!QComplete, Quorum!SignersOf, Quorum!QuorumSize, RequiredSigCount
<1> HIDE DEF Published, Collected, Recorded, Completed
<1> QED
  BY <1>1, <1>2, <1>3, <1>4 DEF Quorum!QNext

LEMMA AgreedInjective ==
  \A t, s, u, r : AgreedSignature(t, s) = AgreedSignature(u, r)
                    => t = u /\ s = r
  BY DEF AgreedSignature

(* Appending an item publishes one member's agreed signature or nothing.   *)
LEMMA PublishImplements ==
  ASSUME TypeOKLedger, NEW item, Reach(item), UNCHANGED storeVars
  PROVE  Quorum!QNext \/ QuorumStays
<1>1. \A x : (\E i \in 1..Len(ledger') : ledger'[i] = x)
               <=> OnLedger(x) \/ x = item
  <2>1. /\ Len(ledger') = Len(ledger) + 1
        /\ \A i \in 1..Len(ledger) : ledger'[i] = ledger[i]
        /\ ledger'[Len(ledger) + 1] = item
        /\ Len(ledger) \in Nat
    BY LenProperties DEF Reach, TypeOKLedger
  <2> QED
    BY <2>1 DEF OnLedger
<1>2. UNCHANGED <<Collected, Recorded, Completed>>
  BY DEF storeVars, Collected, Recorded, Completed
<1>3. Published' = {ts \in Transfers \X Members :
                      \/ OnLedger(AgreedSignature(ts[1], ts[2]))
                      \/ AgreedSignature(ts[1], ts[2]) = item}
  BY <1>1 DEF Published, OnLedger
<1>4. ASSUME NEW t \in Transfers, NEW s \in Members,
             item = AgreedSignature(t, s)
      PROVE  Published' = Published \cup {<<t, s>>}
  BY <1>3, <1>4, AgreedInjective DEF Published
<1>5. CASE \A t \in Transfers, s \in Members : item # AgreedSignature(t, s)
  BY <1>2, <1>3, <1>5 DEF Published, QuorumStays
<1> QED
  BY <1>2, <1>4, <1>5, QuorumSteps

(* Storing a message collects one published signature, or one over another *)
(* content, which counts for nothing here.                                 *)
LEMMA CollectImplements ==
  ASSUME Inductive, [Next]_vars, NEW m \in messages', m \notin messages
  PROVE  Quorum!QNext \/ QuorumStays
<1>1. /\ UNCHANGED <<ledger, status, signatureMsgStatus>>
      /\ messages' = messages \cup {m}
      /\ m.signer \in Members
      /\ m \in Signatures
      /\ OnLedger(m)
  BY StoredFromLedger DEF SignaturesAfter, Present, OnLedger
<1>2. UNCHANGED <<Published, Recorded, Completed>>
  BY <1>1 DEF Published, Recorded, Completed, OnLedger
<1>3. Collected' = {ts \in Transfers \X Members :
                      \/ AgreedSignature(ts[1], ts[2]) \in messages
                      \/ AgreedSignature(ts[1], ts[2]) = m}
  BY <1>1 DEF Collected
<1>4. CASE m.auth = "agreed"
  <2>1. m.tx \in Transfers /\ m = AgreedSignature(m.tx, m.signer)
    BY <1>1, <1>4 DEF Signatures, AgreedSignature
  <2>2. <<m.tx, m.signer>> \in Published
    BY <1>1, <2>1 DEF Published
  <2>3. Collected' = Collected \cup {<<m.tx, m.signer>>}
    BY <1>1, <1>3, <2>1, AgreedInjective DEF Collected
  <2> QED
    BY <1>1, <1>2, <2>1, <2>2, <2>3, QuorumSteps
<1>5. CASE m.auth # "agreed"
  <2>1. \A t, s : AgreedSignature(t, s) # m
    BY <1>5 DEF AgreedSignature
  <2> QED
    BY <1>2, <1>3, <2>1 DEF Collected, QuorumStays
<1> QED
  BY <1>4, <1>5

(* The messages of a majority come from as many members.                   *)
LEMMA MajorityOfMembers ==
  ASSUME Inductive, StoredIsAgreed, NEW t \in Transfers, HasMajority(t)
  PROVE  Cardinality({s \in Members : <<t, s>> \in Collected})
           >= RequiredSigCount
<1> DEFINE from == {s \in Members : <<t, s>> \in Collected}
           signerOf == [m \in MessagesOf(t) |-> m.signer]
<1>1. \A m \in MessagesOf(t) :
        /\ m = AgreedSignature(t, m.signer)
        /\ m.signer \in Members
        /\ m \in messages
  BY DEF Inductive, TypeOK, TypeOKStore, StoredIsPublished, StoredIsAgreed,
         MessagesOf, Signatures, AgreedSignature
<1>2. signerOf \in Injection(MessagesOf(t), from)
  <2>1. \A m \in MessagesOf(t) : m.signer \in from
    BY <1>1 DEF Collected
  <2>2. \A m, n \in MessagesOf(t) : m.signer = n.signer => m = n
    BY <1>1
  <2>3. signerOf \in [MessagesOf(t) -> from]
    BY <2>1
  <2> QED
    BY <2>2, <2>3 DEF Injection, IsInjective
<1>3. IsFiniteSet(from)
  BY SignersAssumption, FS_Subset DEF SignersAssumption
<1>4. Cardinality(MessagesOf(t)) <= Cardinality(from)
  BY <1>2, <1>3, FS_Injection
<1>5. /\ IsFiniteSet(MessagesOf(t))
      /\ RequiredSigCount \in Int
  <2>1. IsFiniteSet(messages)
    BY DEF Inductive, HandlersKnowTransfer
  <2>2. IsFiniteSet(MessagesOf(t))
    BY <2>1, FS_Subset DEF MessagesOf
  <2>3. RequiredSigCount \in Int
    BY SignersAssumption, FS_CardinalityType
    DEF SignersAssumption, RequiredSigCount
  <2> QED
    BY <2>2, <2>3
<1> QED
  BY <1>3, <1>4, <1>5, FS_CardinalityType DEF HasMajority

(* The two status columns change by a completion, by one withdrawal, or in *)
(* a way the specification does not see.                                   *)
LEMMA StatusImplements ==
  ASSUME Inductive, SubmissionsInHand, StoredIsAgreed, [Next]_vars,
         UNCHANGED <<ledger, messages>>
  PROVE  Quorum!QNext \/ QuorumStays
<1>1. UNCHANGED <<Published, Collected>>
  BY DEF Published, Collected, OnLedger
<1>2. /\ status \in [Transfers -> TransferStatuses \cup {NoRow}]
      /\ signatureMsgStatus \in [Transfers -> SignatureMsgStatuses]
      /\ flow \in [Transfers -> FlowSteps]
  BY DEF SubmissionsInHand, TypeOKStore, TypeOKTransfer
<1>3. CASE UNCHANGED <<Recorded, Completed>>
  BY <1>1, <1>3 DEF QuorumStays
<1>4. CASE UNCHANGED <<status, signatureMsgStatus>>
  BY <1>3, <1>4 DEF Recorded, Completed
<1>5. ASSUME NEW t \in Transfers, NEW s \in {"INITIAL", "RECOVERED"},
             CreateTransfer(t, s), UNCHANGED signatureMsgStatus
      PROVE  Quorum!QNext \/ QuorumStays
  <2>1. UNCHANGED <<Recorded, Completed>>
    BY <1>2, <1>5 DEF CreateTransfer, Recorded, Completed, NoRow
  <2> QED
    BY <1>3, <2>1
<1>6. ASSUME NEW t \in Transfers, HandleTransfer(t)
      PROVE  Quorum!QNext \/ QuorumStays
  <2>1. /\ UNCHANGED signatureMsgStatus
        /\ UNCHANGED status \/ CreateTransfer(t, "INITIAL")
    BY <1>6 DEF HandleTransfer
  <2> QED
    BY <1>4, <1>5, <2>1
<1>7. CASE RecoverTransfer
  <2>1. PICK i \in backlog :
          UNCHANGED status \/ CreateTransfer(ledger[i].deposit, "RECOVERED")
    BY <1>7 DEF RecoverTransfer
  <2>2. ledger[i].deposit \in Transfers /\ UNCHANGED signatureMsgStatus
    BY <1>7 DEF RecoverTransfer, Inductive, BacklogOnLedger, DepositsAfter,
                Deposits
  <2> QED
    BY <1>4, <1>5, <2>1, <2>2
<1>8. ASSUME NEW t \in Transfers, RecordSubmission(t)
      PROVE  Quorum!QNext \/ QuorumStays
  <2>1. /\ t \notin Recorded
        /\ status[t] # NoRow
    BY <1>8 DEF RecordSubmission, SubmissionsInHand, SubmissionOrder, InHand,
                Recorded
  <2>2. <<t, Self>> \in Published
    BY <1>8, SignersAssumption
    DEF RecordSubmission, Inductive, SubmissionOnLedger, OwnSignature,
        Published, SignersAssumption
  <2>3. CASE UNCHANGED <<status, signatureMsgStatus>>
    BY <1>4, <2>3
  <2>4. CASE UpdateStatusSignatureSubmitted(t)
    <3>1. Recorded' = Recorded \cup {t}
      BY <1>2, <2>1, <2>4 DEF UpdateStatusSignatureSubmitted, Recorded
    <3>2. Completed' = Completed \ {t}
      BY <1>2, <2>1, <2>4 DEF UpdateStatusSignatureSubmitted, Completed
    <3> QED
      BY <1>1, <2>1, <2>2, <3>1, <3>2, QuorumSteps
  <2> QED
    BY <1>8, <2>3, <2>4 DEF RecordSubmission
<1>9. ASSUME NEW t \in Transfers, SignatureMined(t)
      PROVE  Quorum!QNext \/ QuorumStays
  <2>1. signatureMsgStatus[t] # ""
    BY <1>9 DEF SignatureMined, SubmissionsInHand, SubmissionOrder
  <2>2. /\ UNCHANGED status
        /\ \A u \in Transfers : signatureMsgStatus'[u] # "" <=>
                                  signatureMsgStatus[u] # ""
    BY <1>2, <1>9, <2>1 DEF SignatureMined, UpdateStatusSignatureMined
  <2>3. UNCHANGED <<Recorded, Completed>>
    BY <2>2 DEF Recorded, Completed
  <2> QED
    BY <1>3, <2>3
<1>10. ASSUME NEW i \in Positions, CompleteTransfer(i)
       PROVE  Quorum!QNext \/ QuorumStays
  <2> DEFINE t == ledger[i].tx
  <2>1. TransferKnown(t) /\ HasMajority(t)
    BY <1>10 DEF CompleteTransfer, Inductive, HandlersKnowTransfer
  <2>2. i \in SignaturesAfter(0)
    BY <1>10 DEF CompleteTransfer, Inductive, HandlersOnLedger
  <2>3. t \in Transfers
    BY <2>2 DEF SignaturesAfter, Signatures
  <2>4. UNCHANGED signatureMsgStatus
    BY <1>10 DEF CompleteTransfer
  <2>5. CASE UNCHANGED status
    BY <1>4, <2>4, <2>5
  <2>6. CASE UpdateStatusCompleted(t)
    <3> HIDE DEF t
    <3>1. Completed' = Completed \cup {t}
      BY <1>2, <2>1, <2>3, <2>6
      DEF UpdateStatusCompleted, TransferKnown, Completed
    <3>2. UNCHANGED Recorded
      BY <2>4 DEF Recorded
    <3>3. Cardinality({s \in Members : <<t, s>> \in Collected})
            >= RequiredSigCount
      BY <2>1, <2>3, MajorityOfMembers
    <3> QED
      BY <1>1, <2>3, <3>1, <3>2, <3>3, QuorumSteps
  <2> QED
    BY <1>10, <2>5, <2>6 DEF CompleteTransfer
<1>11. CASE PollTransfers \/ FetchUnfinished \/ Crash
  BY <1>4, <1>11 DEF PollTransfers, FetchUnfinished, Crash, storeVars
<1>12. ASSUME NEW t \in Transfers,
              \/ CheckTransaction(t)
              \/ SubmitSignature(t)
              \/ ProcessUnfinished(t)
       PROVE  UNCHANGED <<status, signatureMsgStatus>>
  BY <1>12 DEF CheckTransaction, SubmitSignature, ProcessUnfinished, storeVars
<1> QED
  BY <1>4, <1>6, <1>7, <1>8, <1>9, <1>10, <1>11, <1>12, SubmissionVariables
  DEF TransferRoutine

LEMMA QuorumInit ==
  ASSUME Init
  PROVE  Quorum!QInit
<1>1. /\ ledger = <<>>
      /\ messages = {}
      /\ \A t \in Transfers : signatureMsgStatus[t] = "" /\ status[t] = NoRow
  BY DEF Init, InitLedger, InitStore
<1>2. \A x : ~OnLedger(x)
  <2>1. Len(ledger) = 0
    BY <1>1
  <2> QED
    BY <2>1 DEF OnLedger
<1>3. Published = {} /\ Collected = {}
  BY <1>1, <1>2 DEF Published, Collected
<1>4. Recorded = {} /\ Completed = {}
  BY <1>1 DEF Recorded, Completed, NoRow
<1> QED
  BY <1>3, <1>4 DEF Quorum!QInit, Published, Collected, Recorded, Completed

LEMMA QuorumStep ==
  ASSUME Inductive, SubmissionsInHand, StoredIsAgreed, [Next]_vars
  PROVE  [Quorum!QNext]_(Quorum!quorumVars)
<1>1. QuorumStays => UNCHANGED Quorum!quorumVars
  BY DEF QuorumStays, Published, Collected, Recorded, Completed,
         Quorum!quorumVars
<1>2. CASE UNCHANGED <<ledger, messages>>
  BY <1>1, <1>2, StatusImplements
<1>3. CASE messages' # messages
  BY <1>1, <1>3, MessagesGrow, CollectImplements
<1>4. CASE ledger' # ledger
  <2>1. PICK item : Reach(item) /\ UNCHANGED storeVars
    BY <1>4, LedgerSteps DEF Deposit, Publish
  <2> QED
    BY <1>1, <2>1, PublishImplements DEF Inductive, TypeOK
<1> QED
  BY <1>2, <1>3, <1>4

(* The node implements SignatureQuorum: every interleaving of its writers  *)
(* of signatures and statuses, with lost calls and restarts, amounts to    *)
(* collecting what members published, completing with a quorum of it, and  *)
(* withdrawing the report at most once.                                    *)
THEOREM NodeImplementsQuorum == ContentIsChecked => (Spec => ImplementsQuorum)
<1> SUFFICES ASSUME ContentIsChecked
             PROVE  Spec => ImplementsQuorum
  OBVIOUS
<1>1. Init => Quorum!QInit
  BY QuorumInit
<1>2. Inductive /\ SubmissionsInHand /\ StoredIsAgreed /\ [Next]_vars
        => [Quorum!QNext]_(Quorum!quorumVars)
  BY QuorumStep
<1>3. Spec => []StoredIsAgreed
  BY StoredIsAlwaysAgreed
<1> QED
  BY <1>1, <1>2, <1>3, InductiveHolds, SubmissionsHold, PTL
  DEF Spec, ImplementsQuorum, Quorum!QSpec
=============================================================================

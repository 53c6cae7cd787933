----------------------- MODULE ValidatorNodeGapProofs -----------------------
(***************************************************************************)
(* What the node does not miss and does not do twice, for every set of     *)
(* transfers, signers and members and every bound.  As long as no call has *)
(* failed, a deposit or a signature a watcher has passed is recorded or in *)
(* a goroutine's hand, and a recovery from the beginning leaves nothing    *)
(* behind.  The counter errors stands in these theorems, so they speak of  *)
(* every behaviour up to its first failed call.  And whatever fails, the   *)
(* node acts on deposits only, recovery alone stores what was not compared *)
(* with the node's own content, and one life of the process sends a        *)
(* signature at most once.                                                 *)
(***************************************************************************)
EXTENDS ValidatorNodeStepProofs

USE DEF SubmitTopicConsensusMessage, WaitForTransaction

-----------------------------------------------------------------------------
(* Nobody signs or records what was not deposited.                         *)

SignedAfterDeposit ==
  \A i \in SignaturesAfter(0) :
    ledger[i].signer \in Members =>
      \E j \in 1..i : ledger[j] = [deposit |-> ledger[i].tx]

KnownIsDeposited ==
  \A t \in Transfers : status[t] # NoRow \/ flow[t] # "idle" => Deposited(t)

FeeIsOfDeposit ==
  \A t \in Transfers :
    feeFlow[t] # "idle" \/ scheduled[t] # "none" => Deposited(t)

DepositFirst == SignedAfterDeposit /\ KnownIsDeposited /\ FeeIsOfDeposit

LEMMA SignedAfterDepositStep ==
  ASSUME TypeOKLedger, DepositFirst, [Next]_vars
  PROVE  SignedAfterDeposit'
<1>1. ledger \in Seq(Deposits \cup Signatures) /\ Len(ledger) \in Nat
  BY LenProperties DEF TypeOKLedger
<1>2. ASSUME NEW item, Reach(item),
             item \in Signatures /\ item.signer \in Members
               => Deposited(item.tx)
      PROVE  SignedAfterDeposit'
  <2>1. /\ Len(ledger') = Len(ledger) + 1
        /\ \A j \in 1..Len(ledger) : ledger'[j] = ledger[j]
        /\ ledger'[Len(ledger) + 1] = item
    BY <1>1, <1>2 DEF Reach
  <2>2. ASSUME NEW i \in SignaturesAfter(0)', ledger'[i].signer \in Members
        PROVE  \E j \in 1..i : ledger'[j] = [deposit |-> ledger'[i].tx]
    <3>1. /\ i \in 1..(Len(ledger) + 1)
          /\ ledger'[i] \in Signatures
      BY <2>1 DEF SignaturesAfter, Present
    <3>2. CASE i \in 1..Len(ledger)
      <4>1. i \in SignaturesAfter(0) /\ ledger'[i] = ledger[i]
        BY <2>1, <3>1, <3>2 DEF SignaturesAfter, Present
      <4>2. PICK j \in 1..i : ledger[j] = [deposit |-> ledger[i].tx]
        BY <2>2, <4>1 DEF DepositFirst, SignedAfterDeposit
      <4> QED
        BY <1>1, <2>1, <3>2, <4>1, <4>2
    <3>3. CASE i = Len(ledger) + 1
      <4>1. ledger'[i] = item /\ Deposited(item.tx)
        BY <1>2, <2>1, <2>2, <3>1, <3>3
      <4>2. PICK j \in 1..Len(ledger) : ledger[j] = [deposit |-> item.tx]
        BY <4>1 DEF Deposited, OnLedger
      <4> QED
        BY <1>1, <2>1, <3>3, <4>1, <4>2
    <3> QED
      BY <1>1, <3>1, <3>2, <3>3
  <2> QED
    BY <2>2 DEF SignedAfterDeposit
<1>3. CASE UNCHANGED ledger
  BY <1>3 DEF DepositFirst, SignedAfterDeposit, SignaturesAfter, Present
<1>4. ASSUME NEW t \in Transfers, Deposit(t)
      PROVE  SignedAfterDeposit'
  <2>1. [deposit |-> t] \notin Signatures
    BY DEF Signatures
  <2> QED
    BY <1>2, <1>4, <2>1 DEF Deposit
<1>5. ASSUME NEW t \in Transfers, NEW s \in Signers, Publish(t, s)
      PROVE  SignedAfterDeposit'
  <2> DEFINE m == [tx |-> t, signer |-> s,
                   auth |-> IF s \in Misconfigured THEN "other" ELSE "agreed"]
  <2>1. m.signer \in Members => Deposited(m.tx)
    BY <1>5 DEF Publish
  <2>2. Reach(m)
    BY <1>5 DEF Publish
  <2> QED
    BY <1>2, <2>1, <2>2
<1>6. ASSUME NEW t \in Transfers, flow[t] = "submit",
             Reach(AgreedSignature(t, Self))
      PROVE  SignedAfterDeposit'
  <2>1. Deposited(AgreedSignature(t, Self).tx)
    BY <1>6 DEF AgreedSignature, DepositFirst, KnownIsDeposited
  <2> QED
    BY <1>2, <1>6, <2>1
<1> QED
  BY <1>3, <1>4, <1>5, <1>6, LedgerSteps

LEMMA KnownIsDepositedStep ==
  ASSUME Inductive, SubmissionsInHand, DepositFirst, [Next]_vars
  PROVE  KnownIsDeposited'
<1>1. \A t \in Transfers : Deposited(t) => Deposited(t)'
  <2>1. LedgerGrows /\ TypeOKLedger
    BY NextGrows DEF Inductive, TypeOK
  <2> QED
    BY <2>1, OnLedgerStays DEF Deposited
<1>2. /\ status \in [Transfers -> TransferStatuses \cup {NoRow}]
      /\ flow \in [Transfers -> FlowSteps]
  BY DEF SubmissionsInHand, TypeOKStore, TypeOKTransfer
<1>3. SUFFICES ASSUME NEW t \in Transfers,
                      status'[t] # NoRow \/ flow'[t] # "idle"
               PROVE  status[t] # NoRow \/ flow[t] # "idle" \/ Deposited(t)
  BY <1>1, <1>3 DEF DepositFirst, KnownIsDeposited
<1> DEFINE Known == status[t] # NoRow \/ flow[t] # "idle" \/ Deposited(t)
<1>4. \A i \in DepositsAfter(0) : Deposited(ledger[i].deposit)
  BY DEF DepositsAfter, Deposits, Deposited, OnLedger, Present
<1>5. CASE UNCHANGED <<status, flow>>
  BY <1>3, <1>5
<1>6. CASE PollTransfers
  <2>1. /\ UNCHANGED status
        /\ flow'[t] = flow[t]
           \/ \E i \in DepositsAfter(txSeen) : ledger[i].deposit = t
    BY <1>6 DEF PollTransfers, storeVars
  <2>2. DepositsAfter(txSeen) \subseteq DepositsAfter(0)
    <3>1. Present \in Nat /\ txSeen \in Nat
      BY LenProperties
      DEF Inductive, TypeOK, TypeOKLedger, TypeOKTransfer, Present
    <3> QED
      BY <3>1 DEF DepositsAfter
  <2> QED
    BY <1>3, <1>4, <2>1, <2>2
<1>7. ASSUME NEW u \in Transfers, TransferRoutine(u)
      PROVE  Known
  <2>1. /\ flow[u] # "idle"
        /\ u # t => flow'[t] = flow[t] /\ status'[t] = status[t]
    BY <1>2, <1>7
    DEF TransferRoutine, CheckTransaction, HandleTransfer, BeginProcessing,
        CreateTransfer, SubmitSignature, RecordSubmission,
        UpdateStatusSignatureSubmitted, Goto, storeVars
  <2> QED
    BY <1>3, <2>1
<1>8. ASSUME NEW u \in Transfers, ProcessUnfinished(u)
      PROVE  Known
  <2>1. /\ UNCHANGED status
        /\ flow' = [flow EXCEPT ![u] = "submit"]
        /\ status[u] # NoRow
    BY <1>8 DEF ProcessUnfinished, BeginProcessing, Goto, storeVars,
                SubmissionsInHand, SubmissionOrder
  <2> QED
    BY <1>2, <1>3, <2>1
<1>9. ASSUME NEW i \in Positions, CompleteTransfer(i)
      PROVE  Known
  <2>1. UNCHANGED flow /\ (status'[t] # NoRow => status[t] # NoRow)
    BY <1>2, <1>9
    DEF CompleteTransfer, UpdateStatusCompleted, transferVars
  <2> QED
    BY <1>3, <2>1
<1>10. CASE RecoverTransfer
  <2>1. PICK i \in backlog :
          \/ CreateTransfer(ledger[i].deposit, "RECOVERED")
          \/ UNCHANGED status
    BY <1>10 DEF RecoverTransfer
  <2>2. /\ Deposited(ledger[i].deposit)
        /\ UNCHANGED flow
    BY <1>4, <1>10
    DEF RecoverTransfer, Inductive, BacklogOnLedger, transferVars
  <2> QED
    BY <1>2, <1>3, <2>1, <2>2 DEF CreateTransfer
<1>11. CASE FetchUnfinished \/ Crash
  BY <1>3, <1>11 DEF FetchUnfinished, Crash, ResetTransfer, transferVars,
                     storeVars
<1>12. ASSUME NEW u \in Transfers, SignatureMined(u)
       PROVE  UNCHANGED <<status, flow>>
  BY <1>12 DEF SignatureMined
<1> QED
  BY <1>5, <1>6, <1>7, <1>8, <1>9, <1>10, <1>11, <1>12, SubmissionVariables

(* The fee goroutine starts with the processing of a record, and the       *)
(* scheduled transaction is its work.                                      *)
LEMMA FeeIsOfDepositStep ==
  ASSUME Inductive, SubmissionsInHand, DepositFirst, [Next]_vars
  PROVE  FeeIsOfDeposit'
<1>1. \A t \in Transfers : Deposited(t) => Deposited(t)'
  <2>1. LedgerGrows /\ TypeOKLedger
    BY NextGrows DEF Inductive, TypeOK
  <2> QED
    BY <2>1, OnLedgerStays DEF Deposited
<1>2. /\ scheduled \in [Transfers -> Schedules]
      /\ feeFlow \in [Transfers -> FeeSteps]
  BY DEF Inductive, TypeOK, TypeOKLedger, TypeOKTransfer
<1>3. SUFFICES ASSUME NEW t \in Transfers,
                      feeFlow'[t] # "idle" \/ scheduled'[t] # "none"
               PROVE  \/ feeFlow[t] # "idle" \/ scheduled[t] # "none"
                      \/ flow[t] # "idle" \/ status[t] # NoRow
  BY <1>1, <1>3 DEF DepositFirst, KnownIsDeposited, FeeIsOfDeposit
<1>4. CASE UNCHANGED <<scheduled, feeFlow>>
  BY <1>3, <1>4
<1>5. ASSUME NEW u \in Transfers, Settle(u), UNCHANGED feeFlow
      PROVE  feeFlow[t] # "idle" \/ scheduled[t] # "none"
  BY <1>2, <1>3, <1>5 DEF Settle
<1>6. ASSUME NEW u \in Transfers, GotoFee(u, "schedule"), UNCHANGED scheduled,
             flow[u] # "idle" \/ u \in unfinished
      PROVE  \/ feeFlow[t] # "idle" \/ scheduled[t] # "none"
             \/ flow[t] # "idle" \/ status[t] # NoRow
  <2>1. flow[u] # "idle" \/ status[u] # NoRow
    BY <1>6 DEF SubmissionsInHand, SubmissionOrder
  <2> QED
    BY <1>2, <1>3, <1>6, <2>1 DEF GotoFee
<1>7. ASSUME NEW u \in Transfers, FeeRoutine(u)
      PROVE  feeFlow[t] # "idle" \/ scheduled[t] # "none"
  BY <1>2, <1>3, <1>7
  DEF FeeRoutine, ScheduleFee, RecordFee, RecordFeeFailure, FeeMined, GotoFee,
      ledgerVars
<1>8. CASE /\ feeFlow' = [u \in Transfers |-> "idle"]
           /\ UNCHANGED scheduled
  BY <1>3, <1>8
<1> QED
  BY <1>4, <1>5, <1>6, <1>7, <1>8, FeeVariables

LEMMA DepositFirstHolds == Spec => []DepositFirst
<1>1. ASSUME Init
      PROVE  DepositFirst
  <2>1. SignaturesAfter(0) = {}
    BY <1>1 DEF Init, InitLedger, SignaturesAfter, Present
  <2>2. \A t \in Transfers : /\ status[t] = NoRow /\ flow[t] = "idle"
                            /\ feeFlow[t] = "idle" /\ scheduled[t] = "none"
    BY <1>1 DEF Init, InitLedger, InitStore, InitTransfer
  <2> QED
    BY <2>1, <2>2
    DEF DepositFirst, SignedAfterDeposit, KnownIsDeposited, FeeIsOfDeposit
<1>2. Inductive /\ SubmissionsInHand /\ DepositFirst /\ [Next]_vars
        => DepositFirst'
  BY SignedAfterDepositStep, KnownIsDepositedStep, FeeIsOfDepositStep
  DEF DepositFirst, Inductive, TypeOK
<1> QED
  BY <1>1, <1>2, InductiveHolds, SubmissionsHold, PTL DEF Spec

(* What the node has done, or is doing, for a transfer: it has a record, a *)
(* stored signature or a goroutine of it, or scheduled its fee.            *)
ActsFor(t) ==
  \/ status[t] # NoRow
  \/ \E m \in messages : m.tx = t
  \/ flow[t] # "idle"
  \/ feeFlow[t] # "idle"
  \/ scheduled[t] # "none"

SignedOnlyAfterDeposit(t) ==
  \A i \in 1..Len(ledger) :
    ledger[i] = OwnSignature(t) => \E j \in 1..i : ledger[j] = [deposit |-> t]

OnlyOnDeposits ==
  \A t \in Transfers :
    (ActsFor(t) => Deposited(t)) /\ SignedOnlyAfterDeposit(t)

(* This node acts on deposits only: whatever table or goroutine of it      *)
(* knows a transfer, and whichever of watcher and recovery brought it      *)
(* there, the transfer was deposited; and where this node's own signature  *)
(* is on the topic, the deposit came before it in consensus order.         *)
THEOREM ActsOnlyOnDeposits == Spec => []OnlyOnDeposits
<1>1. ASSUME Inductive, DepositFirst, NEW t \in Transfers
      PROVE  ActsFor(t) => Deposited(t)
  <2>1. \A m \in messages : m.tx = t => status[t] # NoRow
    BY <1>1 DEF Inductive, StoredIsPublished
  <2> QED
    BY <1>1, <2>1 DEF ActsFor, DepositFirst, KnownIsDeposited, FeeIsOfDeposit
<1>2. ASSUME DepositFirst, NEW t \in Transfers
      PROVE  SignedOnlyAfterDeposit(t)
  <2> SUFFICES ASSUME NEW i \in 1..Len(ledger), ledger[i] = OwnSignature(t)
               PROVE  \E j \in 1..i : ledger[j] = [deposit |-> t]
    BY DEF SignedOnlyAfterDeposit
  <2>1. /\ ledger[i] \in Signatures
        /\ ledger[i].signer \in Members
        /\ ledger[i].tx = t
    BY SignersAssumption
    DEF OwnSignature, AgreedSignature, Signatures, SignersAssumption
  <2>2. i \in SignaturesAfter(0)
    BY <2>1 DEF SignaturesAfter, Present
  <2> QED
    BY <1>2, <2>1, <2>2 DEF DepositFirst, SignedAfterDeposit
<1>3. Inductive /\ DepositFirst => OnlyOnDeposits
  BY <1>1, <1>2 DEF OnlyOnDeposits
<1> QED
  BY <1>3, DepositFirstHolds, InductiveHolds, PTL

-----------------------------------------------------------------------------
(* The watchers pass over nothing.                                         *)

(* Watching starts, and has come, no further than the ledger.              *)
WatchedIsPresent ==
  /\ Len(ledger) <= MaxLedger
  /\ startTimestamp <= Len(ledger)
  /\ txWatch = "on" => txSeen <= Len(ledger)
  /\ msgWatch = "on" => msgSeen <= Len(ledger)

(* A handler counts, or completes, only with its own signature stored.     *)
CountedIsStored ==
  \A i \in Positions :
    handler[i] \in {"count", "complete"} => ledger[i] \in messages

WatchersInHand ==
  /\ WatchedIsPresent
  /\ CountedIsStored
  /\ errors = 0 => DepositsInHand /\ SignaturesInHand

LEMMA LedgerLength ==
  ASSUME TypeOKLedger, Len(ledger) <= MaxLedger, [Next]_vars
  PROVE  /\ Len(ledger) \in Nat
         /\ Len(ledger') \in Nat
         /\ Len(ledger) <= Len(ledger')
         /\ Len(ledger') <= MaxLedger
<1>1. /\ Len(ledger) \in Nat /\ Len(ledger') \in Nat
      /\ Len(ledger) <= Len(ledger')
  BY NextGrows, LenProperties DEF LedgerGrows, TypeOKLedger
<1>2. ASSUME NEW item, Reach(item), Present < MaxLedger
      PROVE  Len(ledger') <= MaxLedger
  <2>1. Len(ledger') = Len(ledger) + 1
    BY <1>2, AppendProperties DEF Reach, TypeOKLedger
  <2> QED
    BY <1>1, <1>2, <2>1, BoundsAssumption DEF BoundsAssumption, Present
<1>3. UNCHANGED ledger \/ \E item : Reach(item) /\ Present < MaxLedger
  BY LedgerSteps DEF Deposit, Publish
<1> QED
  BY <1>1, <1>2, <1>3

(* Who moves the start, the watchers and their milestones in memory.       *)
LEMMA WatchVariables ==
  ASSUME [Next]_vars
  PROVE  /\ UNCHANGED startTimestamp \/ Boot
         /\ \/ UNCHANGED <<txWatch, txSeen>>
            \/ StartTransferWatcher
            \/ PollTransfers
            \/ Crash /\ txWatch' = "off"
         /\ \/ UNCHANGED <<msgWatch, msgSeen>>
            \/ StartMessageWatcher
            \/ DeliverMessage
            \/ Crash /\ msgWatch' = "off"
<1>1. CASE TransferNext
  BY <1>1
  DEF TransferNext, TransferStep, TransferWatcher, TransferRoutine, FeeRoutine,
      StartTransferWatcher, PollTransfers, SaveTransferMilestone,
      CheckTransaction, HandleTransfer, SubmitSignature, RecordSubmission,
      SignatureMined, ScheduleFee, RecordFee, RecordFeeFailure, FeeMined,
      transferVars, signatureVars
<1>2. CASE SignatureNext
  BY <1>2
  DEF SignatureNext, SignatureStep, MessageWatcher, HandlerRoutine,
      StartMessageWatcher, DeliverMessage, SaveMessageMilestone,
      CheckSignature, StoreSignature, CheckMajority, CompleteTransfer,
      transferVars, signatureVars
<1>3. CASE Main
  BY <1>3
  DEF Main, Boot, RecoverTransfer, FetchMessages, RecoverMessage,
      FetchUnfinished, ProcessUnfinished, StartPairs, transferVars,
      signatureVars
<1>4. CASE Crash
  BY <1>4 DEF Crash, ResetTransfer, ResetSignature
<1>5. CASE EnvironmentNext \/ UNCHANGED vars
  BY <1>5 DEF EnvironmentNext, vars, processVars, transferVars, signatureVars
<1> QED
  BY <1>1, <1>2, <1>3, <1>4, <1>5 DEF Next

LEMMA WatchedIsPresentStep ==
  ASSUME TypeOK, ProcessOrder, WatchedIsPresent, [Next]_vars
  PROVE  WatchedIsPresent'
<1>1. /\ Len(ledger) \in Nat
      /\ Len(ledger') \in Nat
      /\ Len(ledger) <= Len(ledger')
      /\ Len(ledger') <= MaxLedger
  BY LedgerLength DEF TypeOK, WatchedIsPresent
<1>2. startTimestamp' \in {startTimestamp, Len(ledger)}
  BY WatchVariables DEF Boot, Present
<1>3. startTimestamp' <= Len(ledger')
  BY <1>1, <1>2 DEF WatchedIsPresent, TypeOK, TypeOKTransfer
<1>4. txWatch' = "on" => txSeen' <= Len(ledger')
  <2>1. CASE UNCHANGED <<txWatch, txSeen>>
    BY <1>1, <2>1 DEF WatchedIsPresent, TypeOK, TypeOKTransfer
  <2>2. CASE StartTransferWatcher
    BY <1>1, <2>2
    DEF StartTransferWatcher, WatchedIsPresent, TypeOK, TypeOKTransfer
  <2>3. CASE PollTransfers
    <3>1. txSeen' \in DepositsAfter(txSeen)
      BY <2>3 DEF PollTransfers
    <3>2. txSeen' \in 1..Len(ledger)
      BY <1>1, <3>1 DEF DepositsAfter, Present, TypeOK, TypeOKTransfer
    <3> QED
      BY <1>1, <3>2
  <2> QED
    BY <2>1, <2>2, <2>3, WatchVariables
<1>5. msgWatch' = "on" => msgSeen' <= Len(ledger')
  <2>1. CASE UNCHANGED <<msgWatch, msgSeen>>
    BY <1>1, <2>1 DEF WatchedIsPresent, TypeOK, TypeOKSignature
  <2>2. CASE StartMessageWatcher
    BY <1>1, <2>2
    DEF StartMessageWatcher, WatchedIsPresent, TypeOK, TypeOKTransfer
  <2>3. CASE DeliverMessage
    <3>1. msgSeen' \in SignaturesAfter(msgSeen)
      BY <2>3 DEF DeliverMessage
    <3>2. msgSeen' \in 1..Len(ledger)
      BY <1>1, <3>1 DEF SignaturesAfter, Present, TypeOK, TypeOKSignature
    <3> QED
      BY <1>1, <3>2
  <2> QED
    BY <2>1, <2>2, <2>3, WatchVariables
<1> QED
  BY <1>1, <1>3, <1>4, <1>5 DEF WatchedIsPresent

(* What a position below a bound holds, it held before.                    *)
LEMMA EarlierItems ==
  ASSUME TypeOKLedger, LedgerGrows, NEW from \in Nat, NEW i \in Nat,
         i <= Len(ledger)
  PROVE  /\ i \in DepositsAfter(from)' =>
              i \in DepositsAfter(from) /\ ledger'[i] = ledger[i]
         /\ i \in SignaturesAfter(from)' =>
              i \in SignaturesAfter(from) /\ ledger'[i] = ledger[i]
  BY LenProperties
  DEF TypeOKLedger, LedgerGrows, DepositsAfter, SignaturesAfter, Present

(* Errors only grow, so a behaviour without one had none before.           *)
LEMMA ErrorsGrow ==
  ASSUME TypeOKTransfer, [Next]_vars, errors' = 0
  PROVE  errors = 0
<1>1. errors \in Nat
  BY ErrorsAssumption DEF TypeOKTransfer, ErrorsAssumption
<1>2. Ok \/ Fault \/ UNCHANGED errors
  <2>1. CASE TransferNext
    BY <2>1
    DEF TransferNext, TransferStep, TransferWatcher, TransferRoutine,
        FeeRoutine, StartTransferWatcher, PollTransfers, SaveTransferMilestone,
        CheckTransaction, HandleTransfer, SubmitSignature, RecordSubmission,
        SignatureMined, ScheduleFee, RecordFee, RecordFeeFailure, FeeMined
  <2>2. CASE SignatureNext
    BY <2>2
    DEF SignatureNext, SignatureStep, MessageWatcher, HandlerRoutine,
        StartMessageWatcher, DeliverMessage, SaveMessageMilestone,
        CheckSignature, StoreSignature, CheckMajority, CompleteTransfer
  <2>3. CASE Main \/ Crash
    BY <2>3
    DEF Main, Boot, RecoverTransfer, FetchMessages, RecoverMessage,
        FetchUnfinished, ProcessUnfinished, StartPairs, Crash
  <2>4. CASE EnvironmentNext \/ UNCHANGED vars
    BY <2>4 DEF EnvironmentNext, vars, processVars
  <2> QED
    BY <2>1, <2>2, <2>3, <2>4 DEF Next
<1> QED
  BY <1>1, <1>2 DEF Ok, Fault

(* What moves one handler.                                                 *)
LEMMA HandlerVariables ==
  ASSUME TypeOKSignature, [Next]_vars, NEW i \in Positions
  PROVE  \/ handler'[i] = handler[i]
         \/ DeliverMessage /\ handler'[i] = "await"
         \/ HandlerRoutine(i)
         \/ Crash
<1>1. handler \in [Positions -> HandlerSteps]
  BY DEF TypeOKSignature
<1>2. ASSUME DeliverMessage
      PROVE  handler'[i] \in {handler[i], "await"}
  BY <1>1, <1>2 DEF DeliverMessage, GotoHandler
<1>3. ASSUME NEW j \in Positions, HandlerRoutine(j), j # i
      PROVE  handler'[i] = handler[i]
  BY <1>1, <1>3 DEF HandlerRoutine, CheckSignature, StoreSignature,
                    CheckMajority, CompleteTransfer, GotoHandler
<1>4. CASE StartMessageWatcher \/ SaveMessageMilestone
  BY <1>4 DEF StartMessageWatcher, SaveMessageMilestone, signatureVars
<1>5. CASE SignatureNext
  BY <1>2, <1>3, <1>4, <1>5
  DEF SignatureNext, SignatureStep, MessageWatcher
<1>6. CASE EnvironmentNext \/ TransferNext \/ Main \/ UNCHANGED vars
  BY <1>6
  DEF EnvironmentNext, TransferNext, vars, signatureVars, Main, Boot,
      RecoverTransfer, FetchMessages, RecoverMessage, FetchUnfinished,
      ProcessUnfinished, StartPairs
<1> QED
  BY <1>5, <1>6 DEF Next

LEMMA CountedIsStoredStep ==
  ASSUME Inductive, CountedIsStored, [Next]_vars
  PROVE  CountedIsStored'
<1>1. SUFFICES ASSUME NEW i \in Positions, handler'[i] \in {"count", "complete"}
               PROVE  ledger'[i] \in messages'
  BY DEF CountedIsStored
<1>2. handler \in [Positions -> HandlerSteps]
  BY DEF Inductive, TypeOK, TypeOKSignature
<1>3. messages \subseteq messages'
  BY MessagesGrow
<1>4. handler[i] # "idle" => ledger'[i] = ledger[i]
  <2>1. LedgerGrows
    BY NextGrows DEF Inductive, TypeOK
  <2> QED
    BY <2>1, PositionsStay DEF Inductive, TypeOK, HandlersOnLedger
<1>5. CASE handler'[i] = handler[i]
  BY <1>1, <1>3, <1>4, <1>5 DEF CountedIsStored
<1>6. CASE CheckSignature(i)
  BY <1>1, <1>2, <1>3, <1>4, <1>6 DEF CheckSignature, GotoHandler
<1>7. CASE StoreSignature(i)
  BY <1>1, <1>2, <1>4, <1>7
  DEF StoreSignature, GotoHandler, CreateMessage, CanCreateMessage
<1>8. CASE CheckMajority(i)
  BY <1>1, <1>2, <1>3, <1>4, <1>8
  DEF CheckMajority, GotoHandler, CountedIsStored
<1>9. CASE CompleteTransfer(i)
  BY <1>1, <1>2, <1>9 DEF CompleteTransfer, GotoHandler
<1>10. CASE Crash
  BY <1>1, <1>10 DEF Crash, ResetSignature
<1> QED
  BY <1>1, <1>5, <1>6, <1>7, <1>8, <1>9, <1>10, HandlerVariables
  DEF HandlerRoutine, Inductive, TypeOK

(* Without a failed call a transfer is dropped by no goroutine: it goes on *)
(* until it has a record.                                                  *)
LEMMA TransferKept ==
  ASSUME Inductive, SubmissionsInHand, [Next]_vars, errors' = 0, ~Crash,
         NEW t \in Transfers, status[t] # NoRow \/ flow[t] # "idle"
  PROVE  status'[t] # NoRow \/ flow'[t] # "idle"
<1>1. /\ status \in [Transfers -> TransferStatuses \cup {NoRow}]
      /\ flow \in [Transfers -> FlowSteps]
      /\ RecordsStay
  BY NextRecordsStay DEF SubmissionsInHand, TypeOKStore, TypeOKTransfer
<1>2. ~Fault
  BY ErrorsGrow DEF Inductive, TypeOK, Fault
<1>3. SUFFICES ASSUME status[t] = NoRow, flow[t] # "idle"
               PROVE  status'[t] # NoRow \/ flow'[t] # "idle"
  BY <1>1 DEF RecordsStay
<1>4. CASE UNCHANGED flow
  BY <1>3, <1>4
<1>5. CASE PollTransfers
  BY <1>3, <1>5 DEF PollTransfers
<1>6. ASSUME NEW u \in Transfers, TransferRoutine(u)
      PROVE  status'[t] # NoRow \/ flow'[t] # "idle"
  <2>1. CASE CheckTransaction(u) \/ SubmitSignature(u)
    BY <1>1, <1>2, <1>3, <2>1 DEF CheckTransaction, SubmitSignature, Goto
  <2>2. CASE HandleTransfer(u)
    BY <1>1, <1>2, <1>3, <2>2
    DEF HandleTransfer, CreateTransfer, BeginProcessing, Goto, NoRow
  <2>3. CASE RecordSubmission(u)
    <3>1. u # t
      BY <1>3, <2>3
      DEF RecordSubmission, SubmissionsInHand, SubmissionOrder, InHand
    <3> QED
      BY <1>1, <1>3, <2>3, <3>1 DEF RecordSubmission, Goto
  <2> QED
    BY <1>6, <2>1, <2>2, <2>3 DEF TransferRoutine
<1>7. ASSUME NEW u \in Transfers, ProcessUnfinished(u)
      PROVE  flow'[t] # "idle"
  BY <1>1, <1>3, <1>7 DEF ProcessUnfinished, BeginProcessing, Goto
<1>8. ASSUME NEW u, SignatureMined(u) \/ CompleteTransfer(u)
      PROVE  UNCHANGED flow
  BY <1>8 DEF SignatureMined, CompleteTransfer, transferVars
<1>9. CASE RecoverTransfer \/ FetchUnfinished
  BY <1>4, <1>9 DEF RecoverTransfer, FetchUnfinished, transferVars
<1> QED
  BY <1>4, <1>5, <1>6, <1>7, <1>8, <1>9, SubmissionVariables

LEMMA DepositsInHandStep ==
  ASSUME Inductive, SubmissionsInHand, WatchersInHand, [Next]_vars,
         errors' = 0
  PROVE  DepositsInHand'
<1>1. SUFFICES ASSUME txWatch' = "on",
                      NEW i \in DepositsAfter(startTimestamp)',
                      i <= txSeen'
               PROVE  \/ status'[ledger'[i].deposit] # NoRow
                      \/ flow'[ledger'[i].deposit] # "idle"
  BY DEF DepositsInHand
<1>2. /\ DepositsInHand
      /\ ~Crash
      /\ ~Boot
  BY <1>1, ErrorsGrow
  DEF Inductive, TypeOK, WatchersInHand, Crash, ResetTransfer, Boot,
      SubmissionsInHand, ProcessOrder, transferVars
<1>3. startTimestamp' = startTimestamp
  BY <1>2, WatchVariables
<1>4. /\ startTimestamp \in Nat /\ txSeen \in Nat /\ Len(ledger) \in Nat
      /\ LedgerGrows
  BY NextGrows, LenProperties
  DEF Inductive, TypeOK, TypeOKTransfer, TypeOKLedger
<1>5. i \in Nat /\ i > startTimestamp
  <2>1. Len(ledger') \in Nat
    BY <1>4, LenProperties DEF LedgerGrows
  <2> QED
    BY <1>3, <1>4, <2>1 DEF DepositsAfter, Present
<1>6. ASSUME i <= Len(ledger)
      PROVE  /\ i \in DepositsAfter(startTimestamp)
             /\ ledger'[i] = ledger[i]
             /\ ledger[i].deposit \in Transfers
  <2>1. i \in DepositsAfter(startTimestamp)'
    BY <1>1
  <2>2. i \in DepositsAfter(startTimestamp) /\ ledger'[i] = ledger[i]
    BY <1>3, <1>4, <1>5, <1>6, EarlierItems
    DEF DepositsAfter, Present, Inductive, TypeOK
  <2> QED
    BY <2>2 DEF DepositsAfter, Deposits
<1>7. CASE UNCHANGED <<txWatch, txSeen>>
  <2>1. i <= txSeen /\ txSeen <= Len(ledger)
    BY <1>1, <1>7 DEF WatchersInHand, WatchedIsPresent
  <2>2. i <= Len(ledger)
    BY <1>4, <1>5, <2>1
  <2>3. \/ status[ledger[i].deposit] # NoRow
        \/ flow[ledger[i].deposit] # "idle"
    BY <1>1, <1>2, <1>6, <1>7, <2>1, <2>2 DEF DepositsInHand
  <2> QED
    BY <1>2, <1>6, <2>2, <2>3, TransferKept
<1>8. CASE StartTransferWatcher
  BY <1>1, <1>4, <1>5, <1>8 DEF StartTransferWatcher
<1>9. CASE PollTransfers
  <2>1. PICK last \in DepositsAfter(txSeen) :
          /\ txSeen' = last
          /\ flow' = [t \in Transfers |->
                        IF \E j \in DepositsAfter(txSeen) :
                             j <= last /\ ledger[j].deposit = t
                        THEN "spawned" ELSE flow[t]]
    BY <1>9 DEF PollTransfers
  <2>2. UNCHANGED <<ledger, status, txWatch>>
    BY <1>9 DEF PollTransfers, ledgerVars, storeVars
  <2>3. last \in Nat /\ i <= Len(ledger)
    BY <1>1, <1>4, <1>5, <2>1 DEF DepositsAfter, Present
  <2>4. CASE i <= txSeen
    BY <1>1, <1>2, <1>6, <2>1, <2>2, <2>3, <2>4 DEF DepositsInHand
  <2>5. CASE i > txSeen
    <3>1. i \in DepositsAfter(txSeen)
      BY <1>4, <1>6, <2>3, <2>5 DEF DepositsAfter, Present
    <3> QED
      BY <1>1, <1>6, <2>1, <2>3, <3>1
  <2> QED
    BY <1>4, <1>5, <2>4, <2>5
<1> QED
  BY <1>1, <1>7, <1>8, <1>9, WatchVariables

(* Without a failed call no handler gives up on a member's agreed          *)
(* signature before it is stored, by itself or by another handler.         *)
LEMMA SignatureKept ==
  ASSUME Inductive, CountedIsStored, [Next]_vars, errors' = 0, ~Crash,
         NEW i \in Positions, i \in SignaturesAfter(0),
         ledger[i].auth = "agreed", IsMember(ledger[i].signer),
         ledger[i] \in messages \/ handler[i] # "idle"
  PROVE  ledger[i] \in messages' \/ handler'[i] # "idle"
<1>1. /\ handler \in [Positions -> HandlerSteps]
      /\ messages \subseteq messages'
  BY MessagesGrow DEF Inductive, TypeOK, TypeOKSignature
<1>2. ~Fault
  BY ErrorsGrow DEF Inductive, TypeOK, Fault
<1>3. SUFFICES ASSUME ledger[i] \notin messages, handler[i] # "idle"
               PROVE  ledger[i] \in messages' \/ handler'[i] # "idle"
  BY <1>1
<1>4. CASE CheckSignature(i)
  BY <1>1, <1>2, <1>3, <1>4 DEF CheckSignature, GotoHandler
<1>5. CASE StoreSignature(i)
  <2>1. status[ledger[i].tx] # NoRow
    BY <1>5 DEF StoreSignature, Inductive, HandlersOnLedger
  <2> QED
    BY <1>2, <1>3, <1>5, <2>1
    DEF StoreSignature, CreateMessage, CanCreateMessage
<1>6. CASE CheckMajority(i) \/ CompleteTransfer(i)
  BY <1>3, <1>6 DEF CheckMajority, CompleteTransfer, CountedIsStored
<1>7. CASE handler'[i] = handler[i] \/ handler'[i] = "await"
  BY <1>3, <1>7
<1> QED
  BY <1>4, <1>5, <1>6, <1>7, HandlerVariables
  DEF HandlerRoutine, Inductive, TypeOK

LEMMA SignaturesInHandStep ==
  ASSUME Inductive, SubmissionsInHand, WatchersInHand, [Next]_vars,
         errors' = 0
  PROVE  SignaturesInHand'
<1>1. SUFFICES ASSUME msgWatch' = "on",
                      NEW i \in SignaturesAfter(startTimestamp)',
                      i <= msgSeen',
                      ledger'[i].auth = "agreed",
                      IsMember(ledger'[i].signer)
               PROVE  ledger'[i] \in messages' \/ handler'[i] # "idle"
  BY DEF SignaturesInHand, IsMember
<1>2. /\ SignaturesInHand
      /\ ~Crash
      /\ ~Boot
  BY <1>1, ErrorsGrow
  DEF Inductive, TypeOK, WatchersInHand, Crash, ResetSignature, Boot,
      SubmissionsInHand, ProcessOrder, signatureVars
<1>3. startTimestamp' = startTimestamp
  BY <1>2, WatchVariables
<1>4. /\ startTimestamp \in Nat /\ msgSeen \in Nat /\ Len(ledger) \in Nat
      /\ MaxLedger \in Nat
      /\ LedgerGrows
      /\ handler \in [Positions -> HandlerSteps]
  BY NextGrows, LenProperties, BoundsAssumption
  DEF Inductive, TypeOK, TypeOKTransfer, TypeOKLedger, TypeOKSignature,
      BoundsAssumption
<1>5. i \in Nat /\ i > startTimestamp
  <2>1. Len(ledger') \in Nat
    BY <1>4, LenProperties DEF LedgerGrows
  <2> QED
    BY <1>3, <1>4, <2>1 DEF SignaturesAfter, Present
<1>6. ASSUME i <= Len(ledger)
      PROVE  /\ i \in SignaturesAfter(startTimestamp)
             /\ i \in SignaturesAfter(0)
             /\ i \in Positions
             /\ ledger'[i] = ledger[i]
  <2>1. i \in SignaturesAfter(startTimestamp)'
    BY <1>1
  <2>2. i \in SignaturesAfter(startTimestamp) /\ ledger'[i] = ledger[i]
    BY <1>3, <1>4, <1>5, <1>6, <2>1, EarlierItems
    DEF SignaturesAfter, Present, Inductive, TypeOK
  <2>3. i \in SignaturesAfter(0)
    BY <1>4, <1>5, <1>6, <2>2 DEF SignaturesAfter, Present
  <2>4. i \in Positions
    BY <1>4, <1>5, <1>6 DEF Positions, WatchersInHand, WatchedIsPresent
  <2> QED
    BY <2>2, <2>3, <2>4
<1>7. ASSUME i <= Len(ledger), ledger[i] \in messages \/ handler[i] # "idle"
      PROVE  ledger'[i] \in messages' \/ handler'[i] # "idle"
  BY <1>1, <1>2, <1>6, <1>7, SignatureKept DEF WatchersInHand
<1>8. CASE UNCHANGED <<msgWatch, msgSeen>>
  <2>1. i <= msgSeen /\ msgSeen <= Len(ledger)
    BY <1>1, <1>8 DEF WatchersInHand, WatchedIsPresent
  <2>2. i <= Len(ledger)
    BY <1>4, <1>5, <2>1
  <2>3. ledger[i] \in messages \/ handler[i] # "idle"
    BY <1>1, <1>2, <1>6, <1>8, <2>1, <2>2 DEF SignaturesInHand
  <2> QED
    BY <1>7, <2>2, <2>3
<1>9. CASE StartMessageWatcher
  BY <1>1, <1>4, <1>5, <1>9 DEF StartMessageWatcher
<1>10. CASE DeliverMessage
  <2>1. PICK next \in SignaturesAfter(msgSeen) :
          /\ \A j \in SignaturesAfter(msgSeen) : next <= j
          /\ msgSeen' = next
          /\ handler' = [handler EXCEPT ![next] = "await"]
    BY <1>10 DEF DeliverMessage, GotoHandler
  <2>2. UNCHANGED <<ledger, messages, msgWatch>>
    BY <1>10 DEF DeliverMessage, ledgerVars, storeVars
  <2>3. next \in Nat /\ i <= Len(ledger)
    BY <1>1, <1>4, <1>5, <2>1 DEF SignaturesAfter, Present
  <2>4. CASE i <= msgSeen
    <3>1. ledger[i] \in messages \/ handler[i] # "idle"
      BY <1>1, <1>2, <1>6, <2>2, <2>3, <2>4 DEF SignaturesInHand
    <3> QED
      BY <1>7, <2>3, <3>1
  <2>5. CASE i > msgSeen
    <3>1. i \in SignaturesAfter(msgSeen)
      BY <1>4, <1>6, <2>3, <2>5 DEF SignaturesAfter, Present
    <3>2. i = next
      BY <1>1, <1>5, <2>1, <2>3, <3>1
    <3> QED
      BY <1>4, <1>6, <2>1, <2>3, <3>2
  <2> QED
    BY <1>4, <1>5, <2>4, <2>5
<1> QED
  BY <1>1, <1>8, <1>9, <1>10, WatchVariables

LEMMA WatchersHold == Spec => []WatchersInHand
<1>1. ASSUME Init
      PROVE  WatchersInHand
  <2>1. Len(ledger) = 0
    BY <1>1 DEF Init, InitLedger
  <2>2. /\ startTimestamp = 0
        /\ txWatch = "off" /\ msgWatch = "off"
        /\ \A i \in Positions : handler[i] = "idle"
    BY <1>1 DEF Init, InitTransfer, InitSignature
  <2> QED
    BY <2>1, <2>2, BoundsAssumption
    DEF WatchersInHand, WatchedIsPresent, CountedIsStored, DepositsInHand,
        SignaturesInHand, BoundsAssumption
<1>2. ASSUME Inductive, SubmissionsInHand, WatchersInHand, [Next]_vars
      PROVE  WatchersInHand'
  <2>1. WatchedIsPresent' /\ CountedIsStored'
    BY <1>2, WatchedIsPresentStep, CountedIsStoredStep
    DEF WatchersInHand, Inductive, SubmissionsInHand
  <2>2. ASSUME errors' = 0
        PROVE  DepositsInHand' /\ SignaturesInHand'
    BY <1>2, <2>2, DepositsInHandStep, SignaturesInHandStep
  <2> QED
    BY <2>1, <2>2 DEF WatchersInHand
<1> QED
  BY <1>1, <1>2, InductiveHolds, SubmissionsHold, PTL DEF Spec

(* Up to the first failed call, no deposit the transfer watcher has passed *)
(* is dropped: it has a record or a goroutine that still works on it.      *)
THEOREM NoDepositDropped == Spec => [](errors = 0 => DepositsInHand)
<1>1. WatchersInHand => (errors = 0 => DepositsInHand)
  BY DEF WatchersInHand
<1> QED
  BY <1>1, WatchersHold, PTL

(* Nor is a member's agreed signature the topic watcher has passed: it is  *)
(* stored or in a handler's hand, also where two handlers race to store    *)
(* the same one.                                                           *)
THEOREM NoSignatureDropped == Spec => [](errors = 0 => SignaturesInHand)
<1>1. WatchersInHand => (errors = 0 => SignaturesInHand)
  BY DEF WatchersInHand
<1> QED
  BY <1>1, WatchersHold, PTL

-----------------------------------------------------------------------------
(* A recovery from the beginning leaves no gap.                            *)

(* Recovery is configured from the beginning and its queries are answered  *)
(* in full (nothing late, one page).                                       *)
RecoversEverything == RecoverFrom = 0 /\ WholeAnswers

(* What was there at the start is recovered or still in the backlog.       *)
DepositsRecovering ==
  phase = "transfers" =>
    \A i \in DepositsAfter(0) :
      i <= startTimestamp =>
        i \in backlog \/ status[ledger[i].deposit] # NoRow

SignaturesRecovering ==
  phase = "messages" =>
    \A i \in SignaturesAfter(0) :
      i <= startTimestamp /\ IsMember(ledger[i].signer) =>
        i \in backlog \/ ledger[i] \in messages

NoGap ==
  errors = 0 => /\ DepositsRecovering
                /\ RecoveredDeposits
                /\ SignaturesRecovering
                /\ RecoveredSignatures

(* Who moves main, and what it works on.                                   *)
LEMMA MainVariables ==
  ASSUME [Next]_vars
  PROVE  \/ UNCHANGED <<phase, startTimestamp, backlog>>
         \/ Boot
         \/ RecoverTransfer
         \/ FetchMessages
         \/ RecoverMessage
         \/ FetchUnfinished
         \/ StartPairs
         \/ Crash
<1>1. CASE TransferNext
  BY <1>1
  DEF TransferNext, TransferStep, TransferWatcher, TransferRoutine, FeeRoutine,
      StartTransferWatcher, PollTransfers, SaveTransferMilestone,
      CheckTransaction, HandleTransfer, SubmitSignature, RecordSubmission,
      SignatureMined, ScheduleFee, RecordFee, RecordFeeFailure, FeeMined,
      recoveryVars
<1>2. CASE SignatureNext
  BY <1>2
  DEF SignatureNext, SignatureStep, MessageWatcher, HandlerRoutine,
      StartMessageWatcher, DeliverMessage, SaveMessageMilestone,
      CheckSignature, StoreSignature, CheckMajority, CompleteTransfer,
      recoveryVars
<1>3. CASE EnvironmentNext \/ UNCHANGED vars
  BY <1>3 DEF EnvironmentNext, vars, processVars, recoveryVars
<1>4. ASSUME NEW t \in Transfers, ProcessUnfinished(t)
      PROVE  UNCHANGED <<phase, startTimestamp, backlog>>
  BY <1>4 DEF ProcessUnfinished
<1> QED
  BY <1>1, <1>2, <1>3, <1>4 DEF Next, Main

(* What was recovered before the start stays recovered.                    *)
LEMMA RecoveredStays ==
  ASSUME Inductive, WatchedIsPresent, [Next]_vars, UNCHANGED startTimestamp
  PROVE  /\ \A i \in DepositsAfter(0)' : i <= startTimestamp =>
              /\ i \in DepositsAfter(0)
              /\ ledger'[i] = ledger[i]
              /\ status[ledger[i].deposit] # NoRow
                   => status'[ledger[i].deposit] # NoRow
         /\ \A i \in SignaturesAfter(0)' : i <= startTimestamp =>
              /\ i \in SignaturesAfter(0)
              /\ ledger'[i] = ledger[i]
              /\ ledger[i] \in messages => ledger[i] \in messages'
<1>1. /\ LedgerGrows /\ RecordsStay
      /\ messages \subseteq messages'
      /\ startTimestamp \in Nat /\ Len(ledger) \in Nat /\ Len(ledger') \in Nat
      /\ startTimestamp <= Len(ledger)
  BY NextGrows, NextRecordsStay, MessagesGrow, LenProperties
  DEF Inductive, TypeOK, TypeOKLedger, TypeOKTransfer, LedgerGrows,
      WatchedIsPresent
<1>2. ASSUME NEW i \in DepositsAfter(0)', i <= startTimestamp
      PROVE  /\ i \in DepositsAfter(0)
             /\ ledger'[i] = ledger[i]
             /\ ledger[i].deposit \in Transfers
  <2>1. i \in Nat /\ i <= Len(ledger)
    BY <1>1, <1>2 DEF DepositsAfter, Present
  <2>2. i \in DepositsAfter(0) /\ ledger'[i] = ledger[i]
    BY <1>1, <1>2, <2>1, EarlierItems
    DEF DepositsAfter, Present, Inductive, TypeOK
  <2> QED
    BY <2>2 DEF DepositsAfter, Deposits
<1>3. ASSUME NEW i \in SignaturesAfter(0)', i <= startTimestamp
      PROVE  i \in SignaturesAfter(0) /\ ledger'[i] = ledger[i]
  <2>1. i \in Nat /\ i <= Len(ledger)
    BY <1>1, <1>3 DEF SignaturesAfter, Present
  <2> QED
    BY <1>1, <1>3, <2>1, EarlierItems
    DEF SignaturesAfter, Present, Inductive, TypeOK
<1> QED
  BY <1>1, <1>2, <1>3 DEF RecordsStay

LEMMA DepositsRecoveredStep ==
  ASSUME RecoversEverything, Inductive, WatchedIsPresent, NoGap, [Next]_vars,
         errors' = 0
  PROVE  DepositsRecovering' /\ RecoveredDeposits'
<1>1. /\ ~Fault
      /\ DepositsRecovering
      /\ RecoveredDeposits
  BY ErrorsGrow DEF Inductive, TypeOK, Fault, NoGap
<1>2. CASE Boot
  <2>1. TransfersFrom = 0 /\ TransfersFrom # Absent
    BY DEF RecoversEverything, TransfersFrom, Absent
  <2>2. phase' = "transfers" /\ backlog' = DepositsAfter(0)
    BY <1>2, <2>1 DEF Boot, Answers, RecoversEverything
  <2>3. UNCHANGED ledger
    BY <1>2 DEF Boot, ledgerVars
  <2> QED
    BY <2>2, <2>3
    DEF DepositsRecovering, RecoveredDeposits, DepositsAfter, Present
<1>3. CASE phase' = "down"
  BY <1>3 DEF DepositsRecovering, RecoveredDeposits
<1>4. CASE RecoverTransfer
  <2>1. PICK j \in backlog :
          /\ backlog' = backlog \ {j}
          /\ CreateTransfer(ledger[j].deposit, "RECOVERED")
    BY <1>1, <1>4 DEF RecoverTransfer
  <2>2. /\ UNCHANGED <<startTimestamp, phase, ledger>>
        /\ phase = "transfers"
    BY <1>4 DEF RecoverTransfer, ledgerVars
  <2>3. j \in DepositsAfter(0)
    BY <2>2 DEF Inductive, BacklogOnLedger
  <2>4. status'[ledger[j].deposit] # NoRow
    BY <2>1, <2>3
    DEF CreateTransfer, Inductive, TypeOK, TypeOKStore, DepositsAfter,
        Deposits, NoRow
  <2> QED
    BY <1>1, <2>1, <2>2, <2>4, RecoveredStays
    DEF DepositsRecovering, RecoveredDeposits
<1>5. CASE FetchMessages
  <2>1. /\ UNCHANGED <<startTimestamp, ledger, status>>
        /\ phase = "transfers" /\ phase' = "messages"
        /\ backlog = {}
    BY <1>5 DEF FetchMessages, ledgerVars, storeVars
  <2> QED
    BY <1>1, <2>1
    DEF DepositsRecovering, RecoveredDeposits, DepositsAfter, Present
<1>6. CASE RecoverMessage \/ FetchUnfinished \/ StartPairs
  <2>1. /\ UNCHANGED startTimestamp
        /\ phase \in {"messages", "unfinished"}
        /\ phase' \in {"messages", "unfinished", "running"}
    BY <1>6 DEF RecoverMessage, FetchUnfinished, StartPairs
  <2> QED
    BY <1>1, <2>1, RecoveredStays DEF DepositsRecovering, RecoveredDeposits
<1>7. CASE UNCHANGED <<phase, startTimestamp, backlog>>
  BY <1>1, <1>7, RecoveredStays DEF DepositsRecovering, RecoveredDeposits
<1> QED
  BY <1>2, <1>3, <1>4, <1>5, <1>6, <1>7, MainVariables DEF Crash

(* A member's signature comes after its deposit, which has a record by now *)
(* (RecoveredDeposits): so the INSERT of the signature never fails.        *)
LEMMA SignaturesRecoveredStep ==
  ASSUME RecoversEverything, Inductive, WatchedIsPresent, SignedAfterDeposit,
         NoGap, [Next]_vars, errors' = 0
  PROVE  SignaturesRecovering' /\ RecoveredSignatures'
<1>1. /\ ~Fault
      /\ SignaturesRecovering
      /\ RecoveredSignatures
      /\ RecoveredDeposits
  BY ErrorsGrow DEF Inductive, TypeOK, Fault, NoGap
<1>2. CASE phase' \in {"down", "transfers"}
  BY <1>2 DEF SignaturesRecovering, RecoveredSignatures
<1>3. CASE Boot
  <2>1. TransfersFrom # Absent
    BY DEF RecoversEverything, TransfersFrom, Absent
  <2> QED
    BY <1>2, <1>3, <2>1 DEF Boot
<1>4. CASE FetchMessages
  <2>1. MessagesFrom = 0
    BY DEF RecoversEverything, MessagesFrom, Absent
  <2>2. /\ phase' = "messages"
        /\ backlog' = {i \in SignaturesAfter(0) : i <= startTimestamp}
        /\ UNCHANGED <<ledger, startTimestamp>>
    BY <1>4, <2>1
    DEF FetchMessages, Answers, RecoversEverything, ledgerVars
  <2> QED
    BY <2>2
    DEF SignaturesRecovering, RecoveredSignatures, SignaturesAfter, Present
<1>5. CASE RecoverMessage
  <2>1. PICK j \in backlog :
          /\ backlog' = backlog \ {j}
          /\ IF IsMember(ledger[j].signer) THEN CreateMessage(ledger[j])
             ELSE UNCHANGED messages
    BY <1>1, <1>5 DEF RecoverMessage
  <2>2. /\ UNCHANGED <<startTimestamp, phase, ledger>>
        /\ phase = "messages"
    BY <1>5 DEF RecoverMessage, ledgerVars
  <2>3. j \in SignaturesAfter(0)
    BY <2>2 DEF Inductive, BacklogOnLedger
  <2>4. ASSUME j <= startTimestamp, IsMember(ledger[j].signer)
        PROVE  ledger[j] \in messages'
    <3>1. PICK k \in 1..j : ledger[k] = [deposit |-> ledger[j].tx]
      BY <2>3, <2>4 DEF SignedAfterDeposit, IsMember
    <3>2. /\ k \in DepositsAfter(0)
          /\ k <= startTimestamp
          /\ ledger[k].deposit = ledger[j].tx
      <4>1. ledger[j].tx \in Transfers
        BY <2>3 DEF SignaturesAfter, Signatures
      <4>2. Len(ledger) \in Nat /\ startTimestamp \in Nat
        BY LenProperties
        DEF Inductive, TypeOK, TypeOKLedger, TypeOKTransfer
      <4>3. k \in 1..Len(ledger) /\ k <= startTimestamp
        BY <2>3, <2>4, <4>2 DEF SignaturesAfter, Present
      <4>4. ledger[k] \in Deposits
        BY <3>1, <4>1 DEF Deposits
      <4> QED
        BY <3>1, <4>3, <4>4 DEF DepositsAfter, Present
    <3>3. status[ledger[j].tx] # NoRow
      BY <1>1, <2>2, <3>2 DEF RecoveredDeposits
    <3> QED
      BY <2>1, <2>4, <3>3 DEF CreateMessage, CanCreateMessage
  <2> QED
    BY <1>1, <2>1, <2>2, <2>4, RecoveredStays
    DEF SignaturesRecovering, RecoveredSignatures
<1>6. CASE FetchUnfinished
  <2>1. /\ UNCHANGED <<startTimestamp, ledger, messages>>
        /\ phase = "messages" /\ phase' = "unfinished"
        /\ backlog = {}
    BY <1>6 DEF FetchUnfinished, ledgerVars, storeVars
  <2> QED
    BY <1>1, <2>1
    DEF SignaturesRecovering, RecoveredSignatures, SignaturesAfter, Present
<1>7. CASE RecoverTransfer
  BY <1>2, <1>7 DEF RecoverTransfer
<1>8. CASE StartPairs
  <2>1. /\ UNCHANGED startTimestamp
        /\ phase = "unfinished" /\ phase' = "running"
    BY <1>8 DEF StartPairs
  <2> QED
    BY <1>1, <2>1, RecoveredStays
    DEF SignaturesRecovering, RecoveredSignatures
<1>9. CASE UNCHANGED <<phase, startTimestamp, backlog>>
  BY <1>1, <1>9, RecoveredStays DEF SignaturesRecovering, RecoveredSignatures
<1> QED
  BY <1>2, <1>3, <1>4, <1>5, <1>6, <1>7, <1>8, <1>9, MainVariables DEF Crash

LEMMA NoGapHolds == RecoversEverything => (Spec => []NoGap)
<1> SUFFICES ASSUME RecoversEverything
             PROVE  Spec => []NoGap
  OBVIOUS
<1>1. Init => NoGap
  BY DEF Init, InitTransfer, NoGap, DepositsRecovering, RecoveredDeposits,
         SignaturesRecovering, RecoveredSignatures
<1>2. Inductive /\ WatchersInHand /\ DepositFirst /\ NoGap /\ [Next]_vars
        => NoGap'
  BY DepositsRecoveredStep, SignaturesRecoveredStep
  DEF NoGap, WatchersInHand, DepositFirst
<1> QED
  BY <1>1, <1>2, InductiveHolds, WatchersHold, DepositFirstHolds, PTL DEF Spec

(* When the watchers start after a recovery from the beginning, every      *)
(* deposit before their start has a record.                                *)
THEOREM EveryDepositRecovered ==
  RecoversEverything => (Spec => [](errors = 0 => RecoveredDeposits))
<1> SUFFICES ASSUME RecoversEverything
             PROVE  Spec => [](errors = 0 => RecoveredDeposits)
  OBVIOUS
<1>1. NoGap => (errors = 0 => RecoveredDeposits)
  BY DEF NoGap
<1> QED
  BY <1>1, NoGapHolds, PTL

(* And every signature a member published before it is stored, though the  *)
(* recovery stores signatures only of transfers that have a record.        *)
THEOREM EverySignatureRecovered ==
  RecoversEverything => (Spec => [](errors = 0 => RecoveredSignatures))
<1> SUFFICES ASSUME RecoversEverything
             PROVE  Spec => [](errors = 0 => RecoveredSignatures)
  OBVIOUS
<1>1. NoGap => (errors = 0 => RecoveredSignatures)
  BY DEF NoGap
<1> QED
  BY <1>1, NoGapHolds, PTL

-----------------------------------------------------------------------------
(* What recovery alone stores.                                             *)

MessagesArePast == phase = "messages" => \A i \in backlog : i <= startTimestamp

ForeignKnown == MessagesArePast /\ ForeignIsRecovered

LEMMA MessagesArePastStep ==
  ASSUME TypeOK, MessagesArePast, [Next]_vars
  PROVE  MessagesArePast'
<1>1. CASE FetchMessages
  <2>1. /\ backlog' \subseteq {i \in SignaturesAfter(MessagesFrom) :
                                 i <= startTimestamp}
        /\ UNCHANGED startTimestamp
    BY <1>1, AnswersAreItems DEF FetchMessages
  <2> QED
    BY <2>1 DEF MessagesArePast
<1>2. CASE RecoverMessage
  BY <1>2 DEF RecoverMessage, MessagesArePast
<1>3. CASE UNCHANGED <<phase, startTimestamp, backlog>>
  BY <1>3 DEF MessagesArePast
<1>4. CASE phase' # "messages"
  BY <1>4 DEF MessagesArePast
<1> QED
  BY <1>1, <1>2, <1>3, <1>4, MainVariables
  DEF Boot, RecoverTransfer, FetchUnfinished, StartPairs, Crash

(* A handler stores only what it has compared; recovery only what is       *)
(* before the start.  What is stored stays on the ledger, and no later     *)
(* start is earlier.                                                       *)
LEMMA ForeignIsRecoveredStep ==
  ASSUME Inductive, HandlersAgree, ForeignKnown, [Next]_vars
  PROVE  ForeignIsRecovered'
<1> DEFINE Past(m) == \E i \in SignaturesAfter(0) :
                        i <= startTimestamp /\ ledger[i] = m
<1>1. /\ SignaturesAfter(0) \subseteq SignaturesAfter(0)'
      /\ \A i \in SignaturesAfter(0) : ledger'[i] = ledger[i]
      /\ SignaturesAfter(0) \subseteq 1..Len(ledger)
      /\ Len(ledger) \in Nat
  BY NextGrows, PositionsStay, LenProperties
  DEF Inductive, TypeOK, TypeOKLedger, SignaturesAfter, Present
<1>2. ASSUME NEW m \in messages, m.auth # "agreed"
      PROVE  Past(m)'
  <2>1. CASE UNCHANGED startTimestamp
    BY <1>1, <1>2, <2>1 DEF ForeignKnown, ForeignIsRecovered
  <2>2. CASE Boot
    <3>1. PICK i \in SignaturesAfter(0) : ledger[i] = m
      BY <1>2 DEF ForeignKnown, ForeignIsRecovered
    <3>2. startTimestamp' = Len(ledger)
      BY <2>2 DEF Boot, Present
    <3> QED
      BY <1>1, <3>1, <3>2
  <2> QED
    BY <2>1, <2>2, WatchVariables
<1>3. ASSUME NEW m \in messages', m \notin messages, m.auth # "agreed"
      PROVE  Past(m)'
  <2>1. PICK i \in SignaturesAfter(0) :
          /\ m = ledger[i]
          /\ \/ i \in Positions /\ handler[i] = "create"
             \/ i \in backlog /\ phase = "messages"
    BY <1>3, StoredFromLedger
  <2>2. i \in backlog /\ phase = "messages"
    BY <1>3, <2>1 DEF HandlersAgree
  <2>3. i <= startTimestamp
    BY <2>2 DEF ForeignKnown, MessagesArePast
  <2>4. UNCHANGED startTimestamp
    BY <2>2, WatchVariables DEF Boot
  <2> QED
    BY <1>1, <2>1, <2>3, <2>4
<1> QED
  BY <1>2, <1>3 DEF ForeignIsRecovered

(* A stored signature over other content than this node's was published    *)
(* before the present start of the process, and so was stored by a         *)
(* recovery: no handler of the watcher lets one pass, whoever signs what   *)
(* and whatever fails.                                                     *)
THEOREM ForeignIsAlwaysRecovered == Spec => []ForeignIsRecovered
<1>1. Init => ForeignKnown
  BY DEF Init, InitStore, InitTransfer, ForeignKnown, MessagesArePast,
         ForeignIsRecovered
<1>2. Inductive /\ ContentAgreed /\ ForeignKnown /\ [Next]_vars
        => ForeignKnown'
  BY MessagesArePastStep, ForeignIsRecoveredStep
  DEF ForeignKnown, ContentAgreed, Inductive
<1>3. ForeignKnown => ForeignIsRecovered
  BY DEF ForeignKnown
<1> QED
  BY <1>1, <1>2, <1>3, ContentHolds, InductiveHolds, PTL DEF Spec

-----------------------------------------------------------------------------
(* One life of the process sends a signature at most once.                 *)

(* Where the watching of deposits has come in this life.                   *)
Watched   == IF txWatch = "on" THEN txSeen ELSE startTimestamp
Passed(t) == \E i \in 1..Len(ledger) :
               i <= Watched /\ ledger[i] = [deposit |-> t]

(* A goroutine of this life, or its recovery, may still come to send it.   *)
MaySend(t) ==
  \/ phase \notin {"unfinished", "running"}
  \/ t \in unfinished
  \/ flow[t] \in {"spawned", "queued", "submit"}
  \/ ~Passed(t)

DepositedOnce ==
  \A i, j \in DepositsAfter(0) : ledger[i] = ledger[j] => i = j

(* What is in hand, and what recovery has a record of, was passed.         *)
InHandIsPassed ==
  \A t \in Transfers :
    /\ flow[t] # "idle" => Passed(t)
    /\ phase \in {"transfers", "messages", "unfinished"} /\ status[t] # NoRow
         => Passed(t)

BacklogIsPassed == phase = "transfers" => \A i \in backlog : i <= startTimestamp

SentOncePerLife ==
  \A t \in Transfers :
    /\ CopiesOf(OwnSignature(t)) \in Nat
    /\ CopiesOf(OwnSignature(t)) <= crashes + 1
    /\ MaySend(t) => CopiesOf(OwnSignature(t)) <= crashes

SendsInHand ==
  /\ DepositedOnce
  /\ InHandIsPassed
  /\ BacklogIsPassed
  /\ SentOncePerLife

(* Everything the steps below know of a state.                             *)
Known ==
  /\ Inductive
  /\ SubmissionsInHand
  /\ DepositFirst
  /\ WatchedIsPresent
  /\ SendsInHand

LEMMA DepositedOnceStep ==
  ASSUME Known, [Next]_vars
  PROVE  DepositedOnce'
<1>1. /\ ledger \in Seq(Deposits \cup Signatures)
      /\ TypeOKLedger
      /\ Len(ledger) \in Nat
      /\ DepositedOnce
  BY LenProperties DEF Known, Inductive, TypeOK, TypeOKLedger, SendsInHand
<1>2. ASSUME NEW item, Reach(item), item \in Deposits => ~OnLedger(item)
      PROVE  DepositedOnce'
  <2>1. /\ Len(ledger') = Len(ledger) + 1
        /\ \A j \in 1..Len(ledger) : ledger'[j] = ledger[j]
        /\ ledger'[Len(ledger) + 1] = item
    BY <1>1, <1>2 DEF Reach
  <2>2. SUFFICES ASSUME NEW i \in DepositsAfter(0)',
                        NEW j \in DepositsAfter(0)',
                        ledger'[i] = ledger'[j]
                 PROVE  i = j
    BY DEF DepositedOnce
  <2>3. /\ i \in 1..(Len(ledger) + 1) /\ j \in 1..(Len(ledger) + 1)
        /\ ledger'[i] \in Deposits
    BY <2>1 DEF DepositsAfter, Present
  <2>4. CASE i <= Len(ledger) /\ j <= Len(ledger)
    <3>1. /\ i \in DepositsAfter(0) /\ j \in DepositsAfter(0)
          /\ ledger[i] = ledger[j]
      BY <1>1, <2>1, <2>2, <2>3, <2>4 DEF DepositsAfter, Present
    <3> QED
      BY <1>1, <3>1 DEF DepositedOnce
  <2>5. ASSUME NEW k \in 1..Len(ledger), ledger'[k] = item, item \in Deposits
        PROVE  FALSE
    BY <1>2, <2>1, <2>5 DEF OnLedger
  <2> QED
    BY <1>1, <2>1, <2>2, <2>3, <2>4, <2>5
<1>3. CASE UNCHANGED ledger
  BY <1>1, <1>3 DEF DepositedOnce, DepositsAfter, Present
<1>4. ASSUME NEW t \in Transfers, Deposit(t)
      PROVE  DepositedOnce'
  BY <1>2, <1>4 DEF Deposit, Deposited
<1>5. ASSUME NEW t \in Transfers, NEW s \in Signers, Publish(t, s)
      PROVE  DepositedOnce'
  <2> DEFINE m == [tx |-> t, signer |-> s,
                   auth |-> IF s \in Misconfigured THEN "other" ELSE "agreed"]
  <2>1. m \notin Deposits
    BY DEF Deposits
  <2>2. Reach(m)
    BY <1>5 DEF Publish
  <2> QED
    BY <1>2, <2>1, <2>2
<1>6. ASSUME NEW t \in Transfers, Reach(AgreedSignature(t, Self))
      PROVE  DepositedOnce'
  <2>1. AgreedSignature(t, Self) \notin Deposits
    BY DEF AgreedSignature, Deposits
  <2> QED
    BY <1>2, <1>6, <2>1
<1> QED
  BY <1>3, <1>4, <1>5, <1>6, LedgerSteps

(* Within a life, watching goes forward.                                   *)
LEMMA PassedStays ==
  ASSUME Known, [Next]_vars, ~Boot, ~Crash, NEW t \in Transfers, Passed(t)
  PROVE  Passed(t)'
<1>1. /\ LedgerGrows
      /\ Len(ledger) \in Nat /\ Len(ledger') \in Nat
      /\ startTimestamp \in Nat /\ txSeen \in Nat
  BY NextGrows, LenProperties
  DEF Known, Inductive, TypeOK, TypeOKLedger, TypeOKTransfer, LedgerGrows
<1>2. startTimestamp' = startTimestamp
  BY WatchVariables
<1>3. Watched <= Watched' /\ Watched \in Nat /\ Watched' \in Nat
  <2>1. CASE UNCHANGED <<txWatch, txSeen>>
    BY <1>1, <1>2, <2>1 DEF Watched
  <2>2. CASE StartTransferWatcher
    BY <1>1, <1>2, <2>2 DEF StartTransferWatcher, Watched
  <2>3. CASE PollTransfers
    <3>1. /\ txWatch = "on" /\ txWatch' = "on"
          /\ txSeen' \in DepositsAfter(txSeen)
      BY <2>3 DEF PollTransfers
    <3> QED
      BY <1>1, <3>1 DEF DepositsAfter, Present, Watched
  <2> QED
    BY <2>1, <2>2, <2>3, WatchVariables
<1>4. PICK i \in 1..Len(ledger) : i <= Watched /\ ledger[i] = [deposit |-> t]
  BY DEF Passed
<1>5. i \in 1..Len(ledger') /\ ledger'[i] = [deposit |-> t] /\ i <= Watched'
  BY <1>1, <1>3, <1>4 DEF LedgerGrows
<1> QED
  BY <1>5 DEF Passed

LEMMA BacklogIsPassedStep ==
  ASSUME Known, [Next]_vars
  PROVE  BacklogIsPassed'
<1>1. /\ BacklogIsPassed
      /\ TypeOKStore
      /\ Len(ledger) \in Nat
  BY LenProperties
  DEF Known, SendsInHand, Inductive, TypeOK, TypeOKLedger
<1>2. CASE Boot
  <2>1. CASE phase' = "transfers"
    <3>1. /\ TransfersFrom # Absent
          /\ backlog' \in Answers(DepositsAfter(TransfersFrom))
          /\ startTimestamp' = Len(ledger)
      BY <1>2, <2>1 DEF Boot, Present
    <3>2. TransfersFrom \in Nat
      BY <1>1, <3>1, IntervalsAreNat
    <3>3. backlog' \subseteq DepositsAfter(TransfersFrom)
      BY <3>1, AnswersAreItems
    <3>4. \A i \in DepositsAfter(TransfersFrom) : i <= Len(ledger)
      BY <1>1, <3>2 DEF DepositsAfter, Present
    <3> QED
      BY <3>1, <3>3, <3>4 DEF BacklogIsPassed
  <2> QED
    BY <2>1 DEF BacklogIsPassed
<1>3. CASE RecoverTransfer
  <2>1. backlog' \subseteq backlog /\ UNCHANGED <<phase, startTimestamp>>
    BY <1>3 DEF RecoverTransfer
  <2> QED
    BY <1>1, <2>1 DEF BacklogIsPassed
<1>4. CASE phase' # "transfers"
  BY <1>4 DEF BacklogIsPassed
<1>5. CASE UNCHANGED <<phase, startTimestamp, backlog>>
  BY <1>1, <1>5 DEF BacklogIsPassed
<1> QED
  BY <1>2, <1>3, <1>4, <1>5, MainVariables
  DEF FetchMessages, RecoverMessage, FetchUnfinished, StartPairs, Crash

LEMMA InHandIsPassedStep ==
  ASSUME Known, [Next]_vars
  PROVE  InHandIsPassed'
<1>1. /\ status \in [Transfers -> TransferStatuses \cup {NoRow}]
      /\ flow \in [Transfers -> FlowSteps]
      /\ TypeOKLedger
      /\ Len(ledger) \in Nat /\ startTimestamp \in Nat /\ txSeen \in Nat
      /\ InHandIsPassed
      /\ ProcessOrder
  BY LenProperties
  DEF Known, SendsInHand, SubmissionsInHand, Inductive, TypeOK, TypeOKLedger,
      TypeOKStore, TypeOKTransfer
<1> DEFINE Recovering == phase \in {"transfers", "messages", "unfinished"}
           InHandNow(t) == flow[t] # "idle" \/ (Recovering /\ status[t] # NoRow)
<1>2. \A t \in Transfers : InHandNow(t) => Passed(t)
  BY <1>1 DEF InHandIsPassed
<1>3. CASE Crash
  BY <1>3 DEF Crash, ResetTransfer, InHandIsPassed
<1>4. CASE Boot
  <2>1. /\ UNCHANGED <<status, flow, txWatch, ledger>>
        /\ phase = "down"
        /\ startTimestamp' = Len(ledger)
    BY <1>4 DEF Boot, storeVars, transferVars, ledgerVars, Present
  <2>2. \A t \in Transfers : flow[t] = "idle" /\ txWatch # "on"
    BY <1>1, <2>1 DEF ProcessOrder
  <2>3. ASSUME NEW t \in Transfers, status[t] # NoRow
        PROVE  Passed(t)'
    <3>1. Deposited(t)
      BY <2>3 DEF Known, DepositFirst, KnownIsDeposited
    <3>2. PICK i \in 1..Len(ledger) : ledger[i] = [deposit |-> t]
      BY <3>1 DEF Deposited, OnLedger
    <3>3. Watched' = Len(ledger)
      BY <2>1, <2>2, <1>1 DEF Watched
    <3>4. i <= Watched' /\ i \in 1..Len(ledger') /\ ledger'[i] = [deposit |-> t]
      BY <1>1, <2>1, <3>2, <3>3
    <3> QED
      BY <3>4 DEF Passed
  <2> QED
    BY <2>1, <2>2, <2>3 DEF InHandIsPassed
<1>5. SUFFICES ASSUME ~Crash, ~Boot, NEW t \in Transfers,
                      \/ flow'[t] # "idle"
                      \/ Recovering' /\ status'[t] # NoRow
               PROVE  InHandNow(t) \/ Passed(t)'
  BY <1>2, <1>3, <1>4, <1>5, PassedStays DEF InHandIsPassed
<1>6. Recovering' => Recovering
  BY <1>5, MainVariables
  DEF RecoverTransfer, FetchMessages, RecoverMessage, FetchUnfinished,
      StartPairs
<1>7. CASE UNCHANGED <<status, flow>>
  BY <1>5, <1>6, <1>7
<1>8. CASE PollTransfers
  <2>1. PICK last \in DepositsAfter(txSeen) :
          /\ txSeen' = last
          /\ flow' = [u \in Transfers |->
                        IF \E j \in DepositsAfter(txSeen) :
                             j <= last /\ ledger[j].deposit = u
                        THEN "spawned" ELSE flow[u]]
    BY <1>8 DEF PollTransfers
  <2>2. /\ UNCHANGED <<ledger, status, txWatch>>
        /\ txWatch = "on"
    BY <1>8 DEF PollTransfers, ledgerVars, storeVars
  <2>3. ASSUME NEW j \in DepositsAfter(txSeen), j <= last,
               ledger[j].deposit = t
        PROVE  Passed(t)'
    <3>1. /\ j \in 1..Len(ledger)
          /\ ledger[j] = [deposit |-> t]
      BY <1>1, <2>3 DEF DepositsAfter, Present, Deposits
    <3>2. j <= Watched' /\ j \in 1..Len(ledger') /\ ledger'[j] = [deposit |-> t]
      BY <2>1, <2>2, <2>3, <3>1 DEF Watched
    <3> QED
      BY <3>2 DEF Passed
  <2> QED
    BY <1>5, <1>6, <2>1, <2>2, <2>3
<1>9. ASSUME NEW u \in Transfers, TransferRoutine(u)
      PROVE  InHandNow(t)
  <2>1. /\ flow[u] # "idle"
        /\ u # t => flow'[t] = flow[t] /\ status'[t] = status[t]
    BY <1>1, <1>9
    DEF TransferRoutine, CheckTransaction, HandleTransfer, BeginProcessing,
        CreateTransfer, SubmitSignature, RecordSubmission,
        UpdateStatusSignatureSubmitted, Goto, storeVars
  <2> QED
    BY <1>5, <1>6, <2>1
<1>10. ASSUME NEW u \in Transfers, ProcessUnfinished(u)
       PROVE  InHandNow(t)
  <2>1. /\ UNCHANGED status
        /\ flow' = [flow EXCEPT ![u] = "submit"]
        /\ status[u] # NoRow
        /\ phase = "unfinished"
    BY <1>10 DEF ProcessUnfinished, BeginProcessing, Goto, storeVars, Known,
                 SubmissionsInHand, SubmissionOrder
  <2> QED
    BY <1>1, <1>5, <1>6, <2>1
<1>11. ASSUME NEW i \in Positions, CompleteTransfer(i)
       PROVE  InHandNow(t)
  <2>1. UNCHANGED flow /\ (status'[t] # NoRow => status[t] # NoRow)
    BY <1>1, <1>11 DEF CompleteTransfer, UpdateStatusCompleted, transferVars
  <2> QED
    BY <1>5, <1>6, <2>1
<1>12. CASE RecoverTransfer
  <2>1. PICK i \in backlog :
          \/ CreateTransfer(ledger[i].deposit, "RECOVERED")
          \/ UNCHANGED status
    BY <1>12 DEF RecoverTransfer
  <2>2. /\ UNCHANGED <<flow, ledger, txWatch, startTimestamp, phase>>
        /\ phase = "transfers"
    BY <1>12 DEF RecoverTransfer, transferVars, ledgerVars
  <2>3. i \in DepositsAfter(0) /\ i <= startTimestamp
    BY <2>2 DEF Known, Inductive, BacklogOnLedger, SendsInHand,
                BacklogIsPassed
  <2>4. CASE ledger[i].deposit = t
    <3>1. /\ i \in 1..Len(ledger)
          /\ ledger[i] = [deposit |-> t]
      BY <1>1, <2>3, <2>4 DEF DepositsAfter, Present, Deposits
    <3>2. Watched' = startTimestamp
      BY <1>1, <2>2 DEF Watched, ProcessOrder
    <3> QED
      BY <2>2, <2>3, <3>1, <3>2 DEF Passed
  <2>5. CASE ledger[i].deposit # t
    BY <1>1, <1>5, <1>6, <2>1, <2>2, <2>5 DEF CreateTransfer
  <2> QED
    BY <2>4, <2>5
<1>13. CASE FetchUnfinished
  BY <1>7, <1>13 DEF FetchUnfinished, transferVars, storeVars
<1>14. ASSUME NEW u \in Transfers, SignatureMined(u)
       PROVE  UNCHANGED <<status, flow>>
  BY <1>14 DEF SignatureMined
<1> QED
  BY <1>5, <1>7, <1>8, <1>9, <1>10, <1>11, <1>12, <1>13, <1>14,
     SubmissionVariables

(* A life that will not send a signature any more does not come to it      *)
(* again: a deposit is polled once, recovered before the start only, and   *)
(* handled once.                                                           *)
LEMMA MaySendBefore ==
  ASSUME Known, [Next]_vars, ~Crash, NEW t \in Transfers, MaySend(t)'
  PROVE  MaySend(t)
<1>1. /\ flow \in [Transfers -> FlowSteps]
      /\ Len(ledger) \in Nat /\ txSeen \in Nat
      /\ DepositedOnce
  BY LenProperties
  DEF Known, SendsInHand, Inductive, TypeOK, TypeOKLedger, TypeOKTransfer
<1>2. CASE phase \notin {"unfinished", "running"}
  BY <1>2 DEF MaySend
<1>3. SUFFICES ASSUME phase \in {"unfinished", "running"},
                      ~Boot
               PROVE  MaySend(t)
  BY <1>2 DEF Boot
<1>4. phase' \in {"unfinished", "running"}
  BY <1>3, MainVariables
  DEF RecoverTransfer, FetchMessages, RecoverMessage, FetchUnfinished,
      StartPairs
<1>5. CASE ~Passed(t)
  BY <1>5 DEF MaySend
<1>6. CASE t \in unfinished' \/ flow'[t] \in {"spawned", "queued", "submit"}
  <2>1. CASE UNCHANGED <<flow, unfinished>>
    BY <1>6, <2>1 DEF MaySend
  <2>2. CASE PollTransfers /\ UNCHANGED unfinished
    <3>1. /\ txWatch = "on"
          /\ flow'[t] = flow[t]
             \/ \E j \in DepositsAfter(txSeen) : ledger[j].deposit = t
      BY <2>2 DEF PollTransfers
    <3>2. ASSUME NEW j \in DepositsAfter(txSeen), ledger[j].deposit = t,
                 Passed(t)
          PROVE  FALSE
      <4>1. PICK i \in 1..Len(ledger) :
              i <= txSeen /\ ledger[i] = [deposit |-> t]
        BY <3>1, <3>2 DEF Passed, Watched
      <4>2. ledger[j] = [deposit |-> t] /\ j \in 1..Len(ledger) /\ j > txSeen
        BY <1>1, <3>2 DEF DepositsAfter, Deposits, Present
      <4>3. i \in DepositsAfter(0) /\ j \in DepositsAfter(0)
        BY <1>1, <4>1, <4>2 DEF DepositsAfter, Deposits, Present
      <4>4. i = j
        BY <1>1, <4>1, <4>2, <4>3 DEF DepositedOnce
      <4> QED
        BY <1>1, <4>1, <4>2, <4>4
    <3> QED
      BY <1>6, <2>2, <3>1, <3>2 DEF MaySend
  <2>3. ASSUME NEW u \in Transfers, TransferRoutine(u), UNCHANGED unfinished
        PROVE  MaySend(t)
    <3>1. u = t /\ flow'[t] \in {"spawned", "queued", "submit"}
            => flow[t] \in {"spawned", "queued"}
      BY <1>1, <2>3
      DEF TransferRoutine, CheckTransaction, HandleTransfer, BeginProcessing,
          SubmitSignature, RecordSubmission, Goto
    <3>2. u # t => flow'[t] = flow[t]
      BY <1>1, <2>3
      DEF TransferRoutine, CheckTransaction, HandleTransfer, BeginProcessing,
          SubmitSignature, RecordSubmission, Goto
    <3> QED
      BY <1>6, <2>3, <3>1, <3>2 DEF MaySend
  <2>4. ASSUME NEW u \in Transfers, ProcessUnfinished(u)
        PROVE  MaySend(t)
    BY <1>1, <1>6, <2>4
    DEF ProcessUnfinished, BeginProcessing, Goto, MaySend
  <2>5. ASSUME NEW u, SignatureMined(u) \/ CompleteTransfer(u)
        PROVE  UNCHANGED flow
    BY <2>5 DEF SignatureMined, CompleteTransfer, transferVars
  <2>6. CASE RecoverTransfer \/ FetchUnfinished
    BY <1>3, <2>6 DEF RecoverTransfer, FetchUnfinished
  <2> QED
    BY <2>1, <2>2, <2>3, <2>4, <2>5, <2>6, SubmissionVariables
<1> QED
  BY <1>3, <1>4, <1>5, <1>6, PassedStays DEF MaySend

(* One more copy.                                                          *)
LEMMA ReachCounts ==
  ASSUME TypeOKLedger, NEW item, Reach(item)
  PROVE  /\ CopiesOf(item) \in Nat
         /\ CopiesOf(item)' = CopiesOf(item) + 1
<1>1. ledger \in Seq(Deposits \cup Signatures)
  BY DEF TypeOKLedger
<1>2. /\ Len(ledger') = Len(ledger) + 1
      /\ \A i \in 1..Len(ledger) : ledger'[i] = ledger[i]
      /\ ledger'[Len(ledger) + 1] = item
      /\ Len(ledger) \in Nat
  BY <1>1, LenProperties DEF Reach
<1> DEFINE at == {i \in 1..Len(ledger) : ledger[i] = item}
           now == {i \in 1..Len(ledger') : ledger'[i] = item}
<1>3. IsFiniteSet(at)
  <2>1. 1 \in Int /\ Len(ledger) \in Int
    BY <1>2
  <2>2. IsFiniteSet(1..Len(ledger))
    BY <2>1, FS_Interval
  <2>3. at \subseteq 1..Len(ledger)
    OBVIOUS
  <2> HIDE DEF at
  <2> QED
    BY <2>2, <2>3, FS_Subset
<1>4. now = at \cup {Len(ledger) + 1} /\ Len(ledger) + 1 \notin at
  BY <1>2
<1>5. Cardinality(now) = Cardinality(at) + 1 /\ Cardinality(at) \in Nat
  BY <1>3, <1>4, FS_AddElement, FS_CardinalityType
<1> QED
  BY <1>5 DEF CopiesOf

LEMMA SentOncePerLifeStep ==
  ASSUME Known, [Next]_vars
  PROVE  SentOncePerLife'
<1> SUFFICES ASSUME NEW t \in Transfers
             PROVE  /\ (CopiesOf(OwnSignature(t)) \in Nat)'
                    /\ (CopiesOf(OwnSignature(t)) <= crashes + 1)'
                    /\ (MaySend(t) => CopiesOf(OwnSignature(t)) <= crashes)'
  BY DEF SentOncePerLife
<1> DEFINE own == AgreedSignature(t, Self)
<1>1. /\ CopiesOf(own) \in Nat
      /\ CopiesOf(own) <= crashes + 1
      /\ MaySend(t) => CopiesOf(own) <= crashes
      /\ crashes \in Nat
      /\ TypeOKLedger
  BY RecoveryAssumption
  DEF Known, SendsInHand, SentOncePerLife, OwnSignature, Inductive, TypeOK,
      TypeOKRecovery, RecoveryAssumption
<1>2. SUFFICES /\ CopiesOf(own)' \in Nat
               /\ CopiesOf(own)' <= crashes' + 1
               /\ MaySend(t)' => CopiesOf(own)' <= crashes'
  BY DEF OwnSignature, CopiesOf, AgreedSignature
<1>3. CASE Crash
  <2>1. crashes' = crashes + 1 /\ UNCHANGED ledger
    BY <1>3 DEF Crash, ledgerVars
  <2>2. CopiesOf(own)' = CopiesOf(own)
    BY <2>1 DEF CopiesOf
  <2> QED
    BY <1>1, <2>1, <2>2
<1>4. ASSUME ~Crash
      PROVE  UNCHANGED crashes
  <2>1. CASE SignatureNext
    BY <2>1 DEF SignatureNext, recoveryVars
  <2>2. CASE Main
    BY <2>2
    DEF Main, Boot, RecoverTransfer, FetchMessages, RecoverMessage,
        FetchUnfinished, ProcessUnfinished, StartPairs, recoveryVars
  <2>3. CASE EnvironmentNext \/ TransferNext \/ UNCHANGED vars
    BY <2>3 DEF EnvironmentNext, TransferNext, vars, recoveryVars
  <2> QED
    BY <1>4, <2>1, <2>2, <2>3 DEF Next
<1>5. CASE ~Crash /\ CopiesOf(own)' = CopiesOf(own)
  BY <1>1, <1>4, <1>5, MaySendBefore
<1>6. CASE UNCHANGED ledger
  <2>1. CopiesOf(own)' = CopiesOf(own)
    BY <1>6 DEF CopiesOf
  <2> QED
    BY <1>3, <1>5, <2>1
<1>7. ASSUME NEW item, Reach(item), item # own
      PROVE  CopiesOf(own)' = CopiesOf(own)
  BY <1>1, <1>7, OtherCopiesStay
<1>8. ASSUME NEW u \in Transfers, Deposit(u)
      PROVE  CopiesOf(own)' = CopiesOf(own)
  <2>1. [deposit |-> u] # own
    BY DEF AgreedSignature
  <2> QED
    BY <1>7, <1>8, <2>1 DEF Deposit
<1>9. ASSUME NEW u \in Transfers, NEW s \in Signers, Publish(u, s)
      PROVE  CopiesOf(own)' = CopiesOf(own)
  <2> DEFINE m == [tx |-> u, signer |-> s,
                   auth |-> IF s \in Misconfigured THEN "other" ELSE "agreed"]
  <2>1. m # own
    BY <1>9 DEF AgreedSignature, Publish
  <2>2. Reach(m)
    BY <1>9 DEF Publish
  <2> QED
    BY <1>7, <2>1, <2>2
<1>10. ASSUME NEW u \in Transfers, u # t, Reach(AgreedSignature(u, Self))
       PROVE  CopiesOf(own)' = CopiesOf(own)
  BY <1>7, <1>10, AgreedInjective
<1>11. CASE /\ SubmitSignature(t)
            /\ flow[t] = "submit"
            /\ Reach(own)
            /\ UNCHANGED recoveryVars
  <2>1. CopiesOf(own)' = CopiesOf(own) + 1
    BY <1>1, <1>11, ReachCounts
  <2>2. MaySend(t)
    BY <1>11 DEF MaySend
  <2>3. ~Crash /\ ~Boot
    BY <1>11 DEF Crash, recoveryVars, SubmitSignature, Boot, Known,
                 SubmissionsInHand, ProcessOrder
  <2>4. ~MaySend(t)'
    <3>1. Passed(t)
      BY <1>11 DEF Known, SendsInHand, InHandIsPassed
    <3>2. Passed(t)'
      BY <2>3, <3>1, PassedStays
    <3>3. phase' \in {"unfinished", "running"}
      BY <1>11 DEF SubmitSignature, Known, SubmissionsInHand, ProcessOrder
    <3>4. t \notin unfinished'
      BY <1>11 DEF recoveryVars, Known, SubmissionsInHand, SubmissionOrder,
                   InHand
    <3>5. flow'[t] \in {"record", "idle"}
      BY <1>11
      DEF SubmitSignature, Goto, Known, SubmissionsInHand, TypeOKTransfer
    <3> QED
      BY <3>2, <3>3, <3>4, <3>5 DEF MaySend
  <2> QED
    BY <1>1, <1>4, <2>1, <2>2, <2>3, <2>4
<1>12. ledger' # ledger => ~Crash
  BY DEF Crash, ledgerVars
<1> QED
  BY <1>5, <1>6, <1>8, <1>9, <1>10, <1>11, <1>12, LedgerSteps

LEMMA SendsInHandInit == Init => SendsInHand
<1> SUFFICES ASSUME Init
             PROVE  SendsInHand
  OBVIOUS
<1>1. /\ ledger = << >> /\ Len(ledger) = 0
      /\ \A t \in Transfers : flow[t] = "idle" /\ status[t] = NoRow
      /\ phase = "down" /\ crashes = 0
  BY DEF Init, InitLedger, InitStore, InitTransfer, InitRecovery
<1>2. DepositedOnce /\ InHandIsPassed /\ BacklogIsPassed
  BY <1>1 DEF DepositedOnce, DepositsAfter, Present, InHandIsPassed,
              BacklogIsPassed
<1>3. ASSUME NEW item
      PROVE  CopiesOf(item) = 0
  <2>1. {i \in 1..Len(ledger) : ledger[i] = item} = {}
    BY <1>1
  <2> QED
    BY <2>1, FS_EmptySet DEF CopiesOf
<1> QED
  BY <1>1, <1>2, <1>3 DEF SendsInHand, SentOncePerLife

LEMMA SendsInHandHolds == Spec => []SendsInHand
<1>1. Inductive /\ SubmissionsInHand /\ DepositFirst /\ WatchersInHand
        /\ SendsInHand /\ [Next]_vars => SendsInHand'
  BY DepositedOnceStep, InHandIsPassedStep, BacklogIsPassedStep,
     SentOncePerLifeStep
  DEF Known, SendsInHand, WatchersInHand
<1> QED
  BY <1>1, SendsInHandInit, InductiveHolds, SubmissionsHold,
     DepositFirstHolds, WatchersHold, PTL DEF Spec

(* A node that was restarted n times has sent its signature of a transfer  *)
(* at most n + 1 times, whatever failed: the watcher, the handler, the     *)
(* recovery and ProcessUnfinishedOperations together never submit twice in *)
(* one life of the process.  Another life sends another copy only if the   *)
(* submission was not recorded (service.go:225-234, SubmittedOnce).        *)
THEOREM SentOncePerProcess ==
  Spec => [](\A t \in Transfers : CopiesOf(OwnSignature(t)) <= crashes + 1)
<1>1. SendsInHand =>
        \A t \in Transfers : CopiesOf(OwnSignature(t)) <= crashes + 1
  BY DEF SendsInHand, SentOncePerLife
<1> QED
  BY <1>1, SendsInHandHolds, PTL
=============================================================================

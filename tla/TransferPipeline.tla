-------------------------- MODULE TransferPipeline --------------------------
(***************************************************************************)
(* From a deposit to the validator's own signature on the topic: the       *)
(* transfer watcher, the goroutine it starts per transaction, the transfer *)
(* handler with services/transfers behind it, the goroutine that schedules *)
(* the fee transaction, and the two pollers of the mirror node that record *)
(* the fate of what was submitted.                                         *)
(*                                                                         *)
(* A step ends where the code waits for another system or for the          *)
(* database.  A branch that needs a failure outside the process spends one *)
(* of MaxErrors.                                                           *)
(***************************************************************************)
EXTENDS ValidatorStore

CONSTANT MaxErrors     \* bound: failed calls in one behaviour

ASSUME ErrorsAssumption == MaxErrors \in Nat

VARIABLES
  phase,           \* what main is doing; "running" once the pairs listen
  startTimestamp,  \* end of the recovery interval, where watching starts
  errors,          \* failed calls so far
  txWatch,         \* the transfer watcher: "off", "on" or "dead"
  txSeen,          \* its milestone in memory
  flow,            \* goroutine of each transfer
  sigWait,         \* transfers whose submission is being polled
  feeFlow          \* fee goroutine of each transfer

processVars  == <<phase, startTimestamp, errors>>
transferVars == <<txWatch, txSeen, flow, sigWait, feeFlow>>

Phases    == {"down", "transfers", "messages", "unfinished", "running"}
Watches   == {"off", "on", "dead"}
FlowSteps == {"idle", "spawned", "queued", "submit", "record"}
FeeSteps  == {"idle", "schedule", "created", "failed", "wait"}

TypeOKTransfer ==
  /\ phase \in Phases
  /\ startTimestamp \in Nat
  /\ errors \in 0..MaxErrors
  /\ txWatch \in Watches
  /\ txSeen \in Nat
  /\ flow \in [Transfers -> FlowSteps]
  /\ sigWait \subseteq Transfers
  /\ feeFlow \in [Transfers -> FeeSteps]

(* Memory of a process that has just started or died.                      *)
ResetTransfer ==
  /\ txWatch' = "off"
  /\ txSeen' = 0
  /\ flow' = [t \in Transfers |-> "idle"]
  /\ sigWait' = {}
  /\ feeFlow' = [t \in Transfers |-> "idle"]

InitTransfer ==
  /\ phase = "down"
  /\ startTimestamp = 0
  /\ errors = 0
  /\ txWatch = "off"
  /\ txSeen = 0
  /\ flow = [t \in Transfers |-> "idle"]
  /\ sigWait = {}
  /\ feeFlow = [t \in Transfers |-> "idle"]

Ok    == UNCHANGED errors
Fault == errors < MaxErrors /\ errors' = errors + 1

Goto(t, step)    == flow' = [flow EXCEPT ![t] = step]
GotoFee(t, step) == feeFlow' = [feeFlow EXCEPT ![t] = step]

-----------------------------------------------------------------------------
(* Watch: an account the mirror node does not confirm leaves the pair      *)
(* without a watcher for the life of the process.                          *)
StartTransferWatcher ==
  /\ phase = "running"
  /\ txWatch = "off"
  /\ \/ /\ Ok
        /\ txWatch' = "on"
        /\ txMilestone' = startTimestamp
        /\ txSeen' = startTimestamp
     \/ /\ Fault
        /\ txWatch' = "dead"
        /\ UNCHANGED <<txMilestone, txSeen>>
  /\ UNCHANGED <<ledgerVars, status, signatureMsgStatus, fees, messages,
                 msgMilestone, phase, startTimestamp, flow, sigWait, feeFlow>>

(* Fault: of one answer only the last transaction is processed.            *)
PollLastTransfer ==
  /\ txWatch = "on"
  /\ txSeen = txMilestone
  /\ \E last \in DepositsAfter(txSeen) :
        txSeen' = last /\ Goto(ledger[last].deposit, "spawned")
  /\ Ok
  /\ UNCHANGED <<ledgerVars, storeVars, phase, startTimestamp, txWatch,
                 sigWait, feeFlow>>

(* beginWatching, the query: the answer is what the mirror node already    *)
(* shows after the milestone, and a goroutine starts for each transaction. *)
(* A failed query restarts the loop from the saved milestone, which is the *)
(* one in memory: nothing changes.                                         *)
PollTransfers ==
  /\ txWatch = "on"
  /\ txSeen = txMilestone
  /\ \E last \in DepositsAfter(txSeen) :
        /\ txSeen' = last
        /\ flow' = [t \in Transfers |->
                      IF \E i \in DepositsAfter(txSeen) :
                           i <= last /\ ledger[i].deposit = t
                      THEN "spawned" ELSE flow[t]]
  /\ Ok
  /\ UNCHANGED <<ledgerVars, storeVars, phase, startTimestamp, txWatch,
                 sigWait, feeFlow>>

(* beginWatching, updateStatusTimestamp after the goroutines were started. *)
SaveTransferMilestone ==
  /\ txWatch = "on"
  /\ txSeen # txMilestone
  /\ txMilestone' = txSeen
  /\ Ok
  /\ UNCHANGED <<ledgerVars, status, signatureMsgStatus, fees, messages,
                 msgMilestone, phase, startTimestamp, transferVars>>

(* processTransaction: a transaction that fails a check, or whose state    *)
(* proof cannot be fetched, is dropped; any other goes to the handler.     *)
CheckTransaction(t) ==
  /\ flow[t] = "spawned"
  /\ \/ Ok /\ Goto(t, "queued")
     \/ Fault /\ Goto(t, "idle")
  /\ UNCHANGED <<ledgerVars, storeVars, phase, startTimestamp, txWatch, txSeen,
                 sigWait, feeFlow>>

(* ProcessTransfer up to the submission: the fee goroutine is started.     *)
BeginProcessing(t) == Goto(t, "submit") /\ GotoFee(t, "schedule")

(* Handle: the record is found or created, and processed if INITIAL.       *)
HandleTransfer(t) ==
  /\ flow[t] = "queued"
  /\ \/ /\ Ok
        /\ CreateTransfer(t, "INITIAL")
        /\ IF status'[t] = "INITIAL" THEN BeginProcessing(t)
           ELSE Goto(t, "idle") /\ UNCHANGED feeFlow
     \/ /\ Fault
        /\ Goto(t, "idle")
        /\ UNCHANGED <<status, feeFlow>>
  /\ UNCHANGED <<ledgerVars, signatureMsgStatus, fees, messages, txMilestone,
                 msgMilestone, phase, startTimestamp, txWatch, txSeen, sigWait>>

(* The message reaches consensus, whether its receipt arrives or not.      *)
SubmitTopicConsensusMessage(t) == Reach(AgreedSignature(t, Self))

(* Fault: the error of the submission is not checked.                      *)
SubmitUnchecked(t) ==
  /\ flow[t] = "submit"
  /\ \/ Ok /\ SubmitTopicConsensusMessage(t)
     \/ Fault /\ UNCHANGED ledger
  /\ Goto(t, "record")
  /\ Present < MaxLedger
  /\ UNCHANGED <<scheduled, storeVars, phase, startTimestamp, txWatch, txSeen,
                 sigWait, feeFlow>>

(* ProcessTransfer: the signature reaches consensus and its receipt says   *)
(* so; or it never does; or it does, and the receipt is lost.              *)
SubmitSignature(t) ==
  /\ flow[t] = "submit"
  /\ \/ Ok /\ SubmitTopicConsensusMessage(t) /\ Goto(t, "record")
     \/ Fault /\ UNCHANGED ledger /\ Goto(t, "idle")
     \/ Fault /\ SubmitTopicConsensusMessage(t) /\ Goto(t, "idle")
  /\ Present < MaxLedger
  /\ UNCHANGED <<scheduled, storeVars, phase, startTimestamp, txWatch, txSeen,
                 sigWait, feeFlow>>

(* UpdateStatusSignatureSubmitted, then WaitForTransaction.                *)
RecordSubmission(t) ==
  /\ flow[t] = "record"
  /\ Goto(t, "idle")
  /\ \/ /\ Ok
        /\ UpdateStatusSignatureSubmitted(t)
        /\ sigWait' = sigWait \cup {t}
     \/ /\ Fault
        /\ UNCHANGED <<status, signatureMsgStatus, sigWait>>
  /\ UNCHANGED <<ledgerVars, fees, messages, txMilestone, msgMilestone, phase,
                 startTimestamp, txWatch, txSeen, feeFlow>>

(* The poller of a submitted signature ends: the receipt was a success, so *)
(* the mirror node shows one in the end, or a query fails.                 *)
WaitForTransaction(t) ==
  /\ t \in sigWait
  /\ sigWait' = sigWait \ {t}

SignatureMined(t) ==
  /\ WaitForTransaction(t)
  /\ \/ Ok /\ UpdateStatusSignatureMined(t)
     \/ Fault /\ UNCHANGED signatureMsgStatus
  /\ UNCHANGED <<ledgerVars, status, fees, messages, txMilestone, msgMilestone,
                 phase, startTimestamp, txWatch, txSeen, flow, feeFlow>>

-----------------------------------------------------------------------------
(* processFeeTransfer and Execute: ScheduleCreate makes the schedule, or   *)
(* finds the identical one and signs it (a failed sign is only logged).    *)
(* Failures: nothing was sent, and no callback runs; the network refused;  *)
(* the schedule exists and its receipt is lost.                            *)
ScheduleFee(t) ==
  LET created == [scheduled EXCEPT ![t] = IF @ = "none" THEN "pending" ELSE @]
  IN /\ feeFlow[t] = "schedule"
     /\ \/ Ok /\ scheduled' = created /\ GotoFee(t, "created")
        \/ Fault /\ UNCHANGED scheduled /\ GotoFee(t, "idle")
        \/ Fault /\ UNCHANGED scheduled /\ GotoFee(t, "failed")
        \/ Fault /\ scheduled' = created /\ GotoFee(t, "failed")
     /\ UNCHANGED <<ledger, storeVars, phase, startTimestamp, txWatch, txSeen,
                    flow, sigWait>>

(* onExecutionSuccess; an error of the INSERT is logged and the poller     *)
(* starts all the same.                                                    *)
RecordFee(t) ==
  /\ feeFlow[t] = "created"
  /\ GotoFee(t, "wait")
  /\ \/ Ok /\ CreateFee(t, t, "SUBMITTED")
     \/ Fault /\ UNCHANGED fees
  /\ UNCHANGED <<ledgerVars, status, signatureMsgStatus, messages, txMilestone,
                 msgMilestone, phase, startTimestamp, txWatch, txSeen, flow,
                 sigWait>>

(* onExecutionFail: the row has neither transaction id nor schedule id.    *)
RecordFeeFailure(t) ==
  /\ feeFlow[t] = "failed"
  /\ GotoFee(t, "idle")
  /\ \/ Ok /\ CreateFee(Blank, t, "FAILED")
     \/ Fault /\ UNCHANGED fees
  /\ UNCHANGED <<ledgerVars, status, signatureMsgStatus, messages, txMilestone,
                 msgMilestone, phase, startTimestamp, txWatch, txSeen, flow,
                 sigWait>>

(* Fault: one transaction in the answer, the ScheduleCreate, is enough.    *)
FeeMinedEarly(t) ==
  /\ feeFlow[t] = "wait"
  /\ GotoFee(t, "idle")
  /\ Ok
  /\ UpdateFeeStatus(t, IF scheduled[t] = "FAILED" THEN "FAILED"
                        ELSE "COMPLETED")
  /\ UNCHANGED <<ledgerVars, status, signatureMsgStatus, messages, txMilestone,
                 msgMilestone, phase, startTimestamp, txWatch, txSeen, flow,
                 sigWait>>

(* WaitForScheduledTransferTransaction with scheduledTxMinedCallbacks.     *)
FeeMined(t) ==
  /\ feeFlow[t] = "wait"
  /\ scheduled[t] \in {"SUCCESS", "FAILED"}
  /\ GotoFee(t, "idle")
  /\ \/ /\ Ok
        /\ UpdateFeeStatus(t, IF scheduled[t] = "SUCCESS" THEN "COMPLETED"
                              ELSE "FAILED")
     \/ Fault /\ UNCHANGED fees
  /\ UNCHANGED <<ledgerVars, status, signatureMsgStatus, messages, txMilestone,
                 msgMilestone, phase, startTimestamp, txWatch, txSeen, flow,
                 sigWait>>

-----------------------------------------------------------------------------
(* The goroutines of this part.                                            *)
TransferWatcher ==
  StartTransferWatcher \/ PollTransfers \/ SaveTransferMilestone

TransferRoutine(t) ==
  \/ CheckTransaction(t)
  \/ HandleTransfer(t)
  \/ SubmitSignature(t)
  \/ RecordSubmission(t)

FeeRoutine(t) ==
  \/ ScheduleFee(t)
  \/ RecordFee(t)
  \/ RecordFeeFailure(t)
  \/ FeeMined(t)

TransferStep ==
  \/ TransferWatcher
  \/ \E t \in Transfers : \/ TransferRoutine(t)
                          \/ FeeRoutine(t)
                          \/ SignatureMined(t)
=============================================================================

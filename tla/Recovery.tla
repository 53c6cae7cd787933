------------------------------ MODULE Recovery ------------------------------
(***************************************************************************)
(* Death and start of the validator process: the recovery that main runs   *)
(* before the watchers exist (cmd/main.go, app/process/recovery).  It is   *)
(* one goroutine; only the goroutines that ProcessTransfer starts run      *)
(* beside it.                                                              *)
(***************************************************************************)
EXTENDS SignaturePipeline

CONSTANTS
  RecoverFrom,    \* validator.recovery.start_timestamp; Absent if unset
  WholeAnswers,   \* TRUE: the recovery queries miss nothing before `to'
  MaxCrashes      \* bound: deaths of the process

ASSUME RecoveryAssumption ==
  /\ RecoverFrom \in Nat \cup {Absent}
  /\ WholeAnswers \in BOOLEAN
  /\ MaxCrashes \in Nat

VARIABLES
  backlog,      \* positions of the fetched items still to recover
  unfinished,   \* transfers still to be processed again
  crashes       \* deaths so far

recoveryVars == <<backlog, unfinished, crashes>>

TypeOKRecovery ==
  /\ backlog \in SUBSET Nat
  /\ unfinished \subseteq Transfers
  /\ crashes \in 0..MaxCrashes

InitRecovery == backlog = {} /\ unfinished = {} /\ crashes = 0

(* A query answers with the first page of what the mirror node has          *)
(* imported: a prefix of the items, all of them if nothing is late and     *)
(* one page holds them.                                                    *)
Answers(items) ==
  IF WholeAnswers THEN {items}
  ELSE {{i \in items : i <= n} : n \in 0..Present}

-----------------------------------------------------------------------------
(* Faults: the configured timestamp is used only without a milestone.      *)
TransfersFromMilestone ==
  IF txMilestone # Absent THEN txMilestone ELSE RecoverFrom
MessagesFromMilestone ==
  IF msgMilestone # Absent THEN msgMilestone ELSE RecoverFrom

(* ComputeIntervals *)
TransfersFrom == IF RecoverFrom # Absent THEN RecoverFrom ELSE txMilestone
MessagesFrom  == IF RecoverFrom # Absent THEN RecoverFrom
                 ELSE IF msgMilestone = Absent THEN 0 ELSE msgMilestone

(* main: without a transfers milestone all of the recovery is skipped, the *)
(* messages too.  `to' is the time of the start; the items counted in      *)
(* Present are before it, those still to come after it.                    *)
Boot ==
  /\ phase = "down"
  /\ startTimestamp' = Present
  /\ IF TransfersFrom = Absent
     THEN phase' = "running" /\ UNCHANGED backlog
     ELSE /\ phase' = "transfers"
          /\ backlog' \in Answers(DepositsAfter(TransfersFrom))
  /\ UNCHANGED <<ledgerVars, storeVars, errors, transferVars, signatureVars,
                 unfinished, crashes>>

Oldest(i) == i \in backlog /\ \A j \in backlog : i <= j

(* transfersRecovery, one transaction: it is saved as RECOVERED unless a   *)
(* check or the INSERT fails; a record that exists stays as it is.         *)
RecoverTransfer ==
  /\ phase = "transfers"
  /\ \E i \in backlog :
        /\ Oldest(i)
        /\ backlog' = backlog \ {i}
        /\ \/ Ok /\ CreateTransfer(ledger[i].deposit, "RECOVERED")
           \/ Fault /\ UNCHANGED status
  /\ UNCHANGED <<ledgerVars, signatureMsgStatus, fees, messages, txMilestone,
                 msgMilestone, phase, startTimestamp, transferVars,
                 signatureVars, unfinished, crashes>>

(* topicMessagesRecovery, the query.                                       *)
FetchMessages ==
  /\ phase = "transfers"
  /\ backlog = {}
  /\ phase' = "messages"
  /\ backlog' \in Answers({i \in SignaturesAfter(MessagesFrom) :
                             i <= startTimestamp})
  /\ Ok
  /\ UNCHANGED <<ledgerVars, storeVars, startTimestamp, transferVars,
                 signatureVars, unfinished, crashes>>

(* topicMessagesRecovery, one message: ProcessSignature alone.  Nobody     *)
(* compares the content with the transfer, and nobody counts.              *)
RecoverMessage ==
  /\ phase = "messages"
  /\ \E i \in backlog :
        /\ Oldest(i)
        /\ backlog' = backlog \ {i}
        /\ \/ /\ Ok
              /\ IF IsMember(ledger[i].signer) THEN CreateMessage(ledger[i])
                 ELSE UNCHANGED messages
           \/ Fault /\ UNCHANGED messages
  /\ UNCHANGED <<ledgerVars, status, signatureMsgStatus, fees, txMilestone,
                 msgMilestone, phase, startTimestamp, transferVars,
                 signatureVars, unfinished, crashes>>

(* processUnfinishedOperations, the query.                                 *)
FetchUnfinished ==
  /\ phase = "messages"
  /\ backlog = {}
  /\ phase' = "unfinished"
  /\ unfinished' = GetUnprocessedTransfers
  /\ Ok
  /\ UNCHANGED <<ledgerVars, storeVars, startTimestamp, transferVars,
                 signatureVars, backlog, crashes>>

NoTransferInHand == \A t \in Transfers : flow[t] = "idle"

(* processUnfinishedOperations: ProcessTransfer of one after the other.    *)
ProcessUnfinished(t) ==
  /\ phase = "unfinished"
  /\ NoTransferInHand
  /\ t \in unfinished
  /\ unfinished' = unfinished \ {t}
  /\ BeginProcessing(t)
  /\ Ok
  /\ UNCHANGED <<ledgerVars, storeVars, phase, startTimestamp, txWatch, txSeen,
                 sigWait, signatureVars, backlog, crashes>>

(* main: the pairs are created and listen.                                 *)
StartPairs ==
  /\ phase = "unfinished"
  /\ NoTransferInHand
  /\ unfinished = {}
  /\ phase' = "running"
  /\ Ok
  /\ UNCHANGED <<ledgerVars, storeVars, startTimestamp, transferVars,
                 signatureVars, recoveryVars>>

(* The process dies: killed, or log.Fatal after a failed query or UPDATE   *)
(* of a milestone.  Only the database is left.                             *)
Crash ==
  /\ phase # "down"
  /\ crashes < MaxCrashes
  /\ crashes' = crashes + 1
  /\ phase' = "down"
  /\ backlog' = {}
  /\ unfinished' = {}
  /\ ResetTransfer
  /\ ResetSignature
  /\ UNCHANGED <<ledgerVars, storeVars, startTimestamp, errors>>

-----------------------------------------------------------------------------
(* The goroutine of main.                                                  *)
Main ==
  \/ Boot
  \/ RecoverTransfer
  \/ FetchMessages
  \/ RecoverMessage
  \/ FetchUnfinished
  \/ \E t \in Transfers : ProcessUnfinished(t)
  \/ StartPairs
=============================================================================

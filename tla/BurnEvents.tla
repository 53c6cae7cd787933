----------------------------- MODULE BurnEvents -----------------------------
(***************************************************************************)
(* From a burn on Ethereum to the payment on Hedera, by several validators *)
(* that watch the same contract: the watcher with a goroutine per log, the *)
(* confirmations, the handler with services/burn-event behind it, the      *)
(* scheduled transaction all validators sign, the poller that records its  *)
(* fate, and each validator's tables burn_events and fees.                 *)
(*                                                                         *)
(* An event is named by its transaction and its log index in the block, a  *)
(* log by its transaction and its place.  The validators compute the same  *)
(* transfers for an event, so an event has one schedule.  Fee arithmetic   *)
(* is the subject of BridgeAccounting.  A step ends where the code waits   *)
(* for another system or for the database.                                 *)
(***************************************************************************)
EXTENDS EvmChain

CONSTANTS
  Validators,
  Threshold,      \* signatures that make a schedule execute
  Confirmations,  \* block_confirmations
  MaxErrors       \* bound: failed calls, lost subscriptions and crashes

(* NewClient refuses to start without a confirmation.                      *)
ASSUME ValidatorsAssumption ==
  /\ IsFiniteSet(Validators)
  /\ Threshold \in 1..Cardinality(Validators)
  /\ Confirmations \in Nat \ {0}
  /\ MaxErrors \in Nat

VARIABLES
  watch,      \* each validator's subscription: "off", "on" or "dead"
  waiting,    \* goroutines of a log that wait for its confirmations
  pay,        \* where the goroutine that processes an event is
  row,        \* burn_events.status, or NoRow
  answer,     \* events whose row holds a transaction id
  fees,       \* rows of the fees table that belong to a burn event
  signatures, \* who signed the schedule of an event
  outcome,    \* what became of it
  errors      \* failures so far

networkVars == <<signatures, outcome>>
tableVars   == <<row, answer, fees>>
vars == <<chainVars, watch, waiting, pay, tableVars, networkVars, errors>>

Logs   == Burns \X Places
Events == [burn : Burns, index : Indexes]

(* BurnEvent.Id, {txHash}-{Raw.Index}.                                     *)
Event(b, p) == [burn |-> b, index |-> p.index]

NoRow    == "no record"
NoBurn   == "none"
NoEvent  == [burn |-> NoBurn, index |-> 0]   \* a blank schedule id
ASSUME NoBurnAssumption == NoBurn \notin Burns

PaySteps == {"idle", "execute", "sign", "accepted", "recordFee", "refused",
             "recordFailure", "wait", "settleFee"}
Statuses == {"INITIAL", "SUBMITTED", "COMPLETED", "FAILED"}
FeeRows  == [schedule : Events \cup {NoEvent}, event : Events,
             status : {"SUBMITTED", "COMPLETED", "FAILED"}]

(* Everything a variable may hold.                                         *)
BurnTypeOK ==
  /\ TypeOKChain
  /\ watch \in [Validators -> {"off", "on", "dead"}]
  /\ waiting \in [Validators -> [Logs -> Nat]]
  /\ pay \in [Validators -> [Events -> PaySteps]]
  /\ row \in [Validators -> [Events -> Statuses \cup {NoRow}]]
  /\ answer \in [Validators -> SUBSET Events]
  /\ fees \in [Validators -> SUBSET FeeRows]
  /\ signatures \in [Events -> SUBSET Validators]
  /\ outcome \in [Events -> {"none", "SUCCESS", "FAILED"}]
  /\ errors \in 0..MaxErrors

NoGoroutine == [l \in Logs |-> 0]
NoPayment   == [e \in Events |-> "idle"]

Init ==
  /\ InitChain
  /\ watch = [v \in Validators |-> "off"]
  /\ waiting = [v \in Validators |-> NoGoroutine]
  /\ pay = [v \in Validators |-> NoPayment]
  /\ row = [v \in Validators |-> [e \in Events |-> NoRow]]
  /\ answer = [v \in Validators |-> {}]
  /\ fees = [v \in Validators |-> {}]
  /\ signatures = [e \in Events |-> {}]
  /\ outcome = [e \in Events |-> "none"]
  /\ errors = 0

Ok    == UNCHANGED errors
Fault == errors < MaxErrors /\ errors' = errors + 1

-----------------------------------------------------------------------------
(* The chain moves.  Every subscribed validator starts a goroutine for a   *)
(* log of the new blocks; for a log that was removed it starts one that    *)
(* returns at once.                                                        *)
Deliver(b, p) ==
  waiting' = [v \in Validators |->
                IF watch[v] = "on"
                THEN [waiting[v] EXCEPT ![<<b, p>>] = @ + 1] ELSE waiting[v]]

Moved(b) ==
  \E fork \in 0..head, p \in Places \cup {Pending} :
     /\ Reorganise(b, fork, p)
     /\ IF p = Pending THEN UNCHANGED waiting ELSE Deliver(b, p)
     /\ UNCHANGED <<watch, pay, tableVars, networkVars, errors>>

Burn(b) ==
  \E p \in Places :
     /\ Mine(b, p)
     /\ Deliver(b, p)
     /\ UNCHANGED <<watch, pay, tableVars, networkVars, errors>>

NextBlock ==
  /\ EmptyBlock
  /\ UNCHANGED <<watch, waiting, pay, tableVars, networkVars, errors>>

-----------------------------------------------------------------------------
(* listenForEvents: a validator whose subscription is refused never asks   *)
(* again; one whose subscription breaks subscribes anew, and what was      *)
(* logged in between is lost to it.                                        *)
Subscribe(v) ==
  /\ watch[v] = "off"
  /\ \/ Ok /\ watch' = [watch EXCEPT ![v] = "on"]
     \/ Fault /\ watch' = [watch EXCEPT ![v] = "dead"]
  /\ UNCHANGED <<chainVars, waiting, pay, tableVars, networkVars>>

SubscriptionBreaks(v) ==
  /\ watch[v] = "on"
  /\ Fault
  /\ watch' = [watch EXCEPT ![v] = "off"]
  /\ UNCHANGED <<chainVars, waiting, pay, tableVars, networkVars>>

(* handleLog: a receiver that is no account, an asset without a native one *)
(* or a failed call, of the node or of the INSERT, ends the goroutine.     *)
DropLog(v, l) ==
  /\ waiting[v][l] > 0
  /\ Fault
  /\ waiting' = [waiting EXCEPT ![v][l] = @ - 1]
  /\ UNCHANGED <<chainVars, watch, pay, tableVars, networkVars>>

(* The statements on burn_events; the primary key refuses a second record. *)
Create(v, e)          == row' = [row EXCEPT ![v][e] = "INITIAL"]
UpdateStatus(v, e, s) == row' = [row EXCEPT ![v][e] = s]
UpdateStatusSubmitted(v, e) ==
  /\ UpdateStatus(v, e, "SUBMITTED")
  /\ answer' = [answer EXCEPT ![v] = @ \cup {e}]

(* Fault: an existing record does not stop a second processing.            *)
ProcessAgain(v, e) ==
  /\ Create(v, e)
  /\ pay' = [pay EXCEPT ![v][e] = "execute"]

(* ProcessEvent up to the scheduled transaction: the record is made, and   *)
(* whoever finds one, or cannot make it, stops.                            *)
ProcessEvent(v, e) ==
  IF row[v][e] = NoRow
  THEN /\ Create(v, e)
       /\ pay' = [pay EXCEPT ![v][e] = "execute"]
  ELSE UNCHANGED <<row, pay>>

(* Fault: only a receipt that is not found stops the event.                *)
MinedSomewhere(b, p) == mined[b] # Pending

(* The receipt's block is compared, and nothing else of it.                *)
MinedWhereLogged(b, p) == mined[b] # Pending /\ mined[b].block = p.block

(* WaitForConfirmations, then the queue and the handler.  The height only  *)
(* grows, so what BlockNumber answered still holds when the receipt is     *)
(* asked for: the two calls are one step.                                  *)
Confirm(v, l) ==
  /\ waiting[v][l] > 0
  /\ Buried(l[2].block, Confirmations)
  /\ waiting' = [waiting EXCEPT ![v][l] = @ - 1]
  /\ Ok
  /\ IF MinedWhereLogged(l[1], l[2])
     THEN ProcessEvent(v, Event(l[1], l[2])) ELSE UNCHANGED <<row, pay>>
  /\ UNCHANGED <<chainVars, watch, answer, fees, networkVars>>

-----------------------------------------------------------------------------
(* What the network does with a signature: the first makes the schedule,   *)
(* the one that reaches the threshold executes the transfer in it.         *)
Sign(v, e) ==
  LET signed == signatures[e] \cup {v}
  IN /\ signatures' = [signatures EXCEPT ![e] = signed]
     /\ IF outcome[e] = "none" /\ Cardinality(signed) >= Threshold
        THEN \E o \in {"SUCCESS", "FAILED"} :
                outcome' = [outcome EXCEPT ![e] = o]
        ELSE UNCHANGED outcome

GotoPay(v, e, step) == pay' = [pay EXCEPT ![v][e] = step]

(* SubmitScheduledTokenTransferTransaction and its like for hbars: the     *)
(* ScheduleCreate carries the operator's signature.                        *)
Submit(v, e) == signatures[e] = {} /\ Sign(v, e)

(* A ScheduleSign adds the operator's signature to a schedule that exists. *)
SubmitScheduleSign(v, e) == Sign(v, e)

(* Execute up to the receipt.  The schedule is made; or the identical one  *)
(* exists.  Failures: nothing was sent, and no callback runs; the network  *)
(* refused, or the receipt of what it took is lost.                        *)
Execute(v, e) ==
  /\ pay[v][e] = "execute"
  /\ \/ /\ Ok
        /\ Submit(v, e)
        /\ GotoPay(v, e, "accepted")
     \/ /\ Ok
        /\ signatures[e] # {}
        /\ GotoPay(v, e, "sign")
        /\ UNCHANGED networkVars
     \/ Fault /\ GotoPay(v, e, "idle") /\ UNCHANGED networkVars
     \/ Fault /\ GotoPay(v, e, "refused") /\ UNCHANGED networkVars
     \/ /\ Fault
        /\ Submit(v, e)
        /\ GotoPay(v, e, "refused")
  /\ UNCHANGED <<chainVars, watch, waiting, tableVars>>

(* Fault: the identical schedule is not signed.                            *)
ScheduleLeftUnsigned(v, e) ==
  /\ pay[v][e] = "sign"
  /\ GotoPay(v, e, "accepted")
  /\ Ok
  /\ UNCHANGED <<chainVars, watch, waiting, tableVars, networkVars>>

(* handleScheduleSign: its failure is logged, and the event goes on.       *)
ScheduleSign(v, e) ==
  /\ pay[v][e] = "sign"
  /\ GotoPay(v, e, "accepted")
  /\ \/ Ok /\ SubmitScheduleSign(v, e)
     \/ Fault /\ UNCHANGED networkVars
  /\ UNCHANGED <<chainVars, watch, waiting, tableVars>>

-----------------------------------------------------------------------------
(* onExecutionSuccess: the row, then, if that went well, the fee.  The     *)
(* poller starts in either case.                                           *)
RecordSubmitted(v, e) ==
  /\ pay[v][e] = "accepted"
  /\ \/ /\ Ok
        /\ UpdateStatusSubmitted(v, e)
        /\ GotoPay(v, e, "recordFee")
     \/ Fault /\ GotoPay(v, e, "wait") /\ UNCHANGED <<row, answer>>
  /\ UNCHANGED <<chainVars, watch, waiting, fees, networkVars>>

(* INSERT into fees: a schedule id, the blank one included, is unique.     *)
CreateFee(v, schedule, e, s) ==
  fees' = IF \E f \in fees[v] : f.schedule = schedule THEN fees
          ELSE [fees EXCEPT ![v] = @ \cup
                  {[schedule |-> schedule, event |-> e, status |-> s]}]

(* Fault: the constant of another table.                                   *)
RecordFeeAsInitial(v, e) ==
  /\ pay[v][e] = "recordFee"
  /\ \/ Ok /\ CreateFee(v, e, e, "INITIAL")
     \/ Fault /\ UNCHANGED fees
  /\ GotoPay(v, e, "wait")
  /\ UNCHANGED <<chainVars, watch, waiting, row, answer, networkVars>>

RecordFee(v, e) ==
  /\ pay[v][e] = "recordFee"
  /\ \/ Ok /\ CreateFee(v, e, e, "SUBMITTED")
     \/ Fault /\ UNCHANGED fees
  /\ GotoPay(v, e, "wait")
  /\ UNCHANGED <<chainVars, watch, waiting, row, answer, networkVars>>

(* onExecutionFail: the row, then the fee; nobody polls.                   *)
RecordFailed(v, e) ==
  /\ pay[v][e] = "refused"
  /\ \/ /\ Ok
        /\ UpdateStatus(v, e, "FAILED")
        /\ GotoPay(v, e, "recordFailure")
     \/ Fault /\ GotoPay(v, e, "idle") /\ UNCHANGED row
  /\ UNCHANGED <<chainVars, watch, waiting, answer, fees, networkVars>>

RecordFailedFee(v, e) ==
  /\ pay[v][e] = "recordFailure"
  /\ \/ Ok /\ CreateFee(v, NoEvent, e, "FAILED")
     \/ Fault /\ UNCHANGED fees
  /\ GotoPay(v, e, "idle")
  /\ UNCHANGED <<chainVars, watch, waiting, row, answer, networkVars>>

Settled(o) == IF o = "SUCCESS" THEN "COMPLETED" ELSE "FAILED"

(* Fault: the ScheduleCreate in the answer is taken for the transfer.      *)
SettleEarly(v, e) ==
  /\ pay[v][e] = "wait"
  /\ Ok
  /\ UpdateStatus(v, e, "COMPLETED")
  /\ GotoPay(v, e, "settleFee")
  /\ UNCHANGED <<chainVars, watch, waiting, answer, fees, networkVars>>

(* Fault: no return after the row could not be written.                    *)
SettleRegardless(v, e) ==
  /\ pay[v][e] = "wait"
  /\ outcome[e] # "none"
  /\ \/ Ok /\ UpdateStatus(v, e, Settled(outcome[e]))
     \/ Fault /\ UNCHANGED row
  /\ GotoPay(v, e, "settleFee")
  /\ UNCHANGED <<chainVars, watch, waiting, answer, fees, networkVars>>

(* WaitForScheduledTransferTransaction with scheduledTxMinedCallbacks, the *)
(* row.  An error of the mirror node ends the poller.                      *)
Settle(v, e) ==
  /\ pay[v][e] = "wait"
  /\ \/ /\ Ok
        /\ outcome[e] # "none"
        /\ UpdateStatus(v, e, Settled(outcome[e]))
        /\ GotoPay(v, e, "settleFee")
     \/ Fault /\ GotoPay(v, e, "idle") /\ UNCHANGED row
  /\ UNCHANGED <<chainVars, watch, waiting, answer, fees, networkVars>>

(* UpdateStatusCompleted and UpdateStatusFailed of the fees.               *)
UpdateFee(v, e) ==
  fees' = [fees EXCEPT ![v] =
             {IF f.schedule = e THEN [f EXCEPT !.status = Settled(outcome[e])]
              ELSE f : f \in @}]

SettleFee(v, e) ==
  /\ pay[v][e] = "settleFee"
  /\ GotoPay(v, e, "idle")
  /\ \/ Ok /\ UpdateFee(v, e)
     \/ Fault /\ UNCHANGED fees
  /\ UNCHANGED <<chainVars, watch, waiting, row, answer, networkVars>>

(* What the REST API says of an event: 404, an empty text, or the schedule *)
(* that pays it.                                                           *)
TransactionID(v, e) ==
  IF row[v][e] = NoRow THEN "not found"
  ELSE IF e \in answer[v] THEN "scheduled" ELSE "blank"

(* A crash loses every goroutine; nothing at start looks at burn_events.   *)
Crash(v) ==
  /\ Fault
  /\ watch' = [watch EXCEPT ![v] = "off"]
  /\ waiting' = [waiting EXCEPT ![v] = NoGoroutine]
  /\ pay' = [pay EXCEPT ![v] = NoPayment]
  /\ UNCHANGED <<chainVars, tableVars, networkVars>>

-----------------------------------------------------------------------------
Chain == NextBlock \/ \E b \in Burns : Burn(b) \/ Moved(b)

PayRoutine(v, e) ==
  \/ Execute(v, e)
  \/ ScheduleSign(v, e)
  \/ RecordSubmitted(v, e)
  \/ RecordFee(v, e)
  \/ RecordFailed(v, e)
  \/ RecordFailedFee(v, e)
  \/ Settle(v, e)
  \/ SettleFee(v, e)

Goroutine(v) ==
  \/ Subscribe(v)
  \/ \E l \in Logs : Confirm(v, l)
  \/ \E e \in Events : PayRoutine(v, e)

Failure(v) ==
  \/ SubscriptionBreaks(v)
  \/ Crash(v)
  \/ \E l \in Logs : DropLog(v, l)

Validator(v) == Goroutine(v) \/ Failure(v)

Next == Chain \/ \E v \in Validators : Validator(v)

(* The chain grows, and a validator with a goroutine that can go on lets   *)
(* one of them do so; nobody has to burn, and nothing has to fail.         *)
Fairness ==
  /\ WF_vars(NextBlock)
  /\ \A v \in Validators : WF_vars(Goroutine(v) /\ Ok)

Safety == Init /\ [][Next]_vars
Spec   == Safety /\ Fairness

-----------------------------------------------------------------------------
(* The schedules of an event that paid.                                    *)
Paid(b) == {e \in Events : e.burn = b /\ outcome[e] = "SUCCESS"}

(* A burn is paid out once, although every validator handles it and the    *)
(* watcher may see it at several places: docs/overview.md trusts that only *)
(* one of the identical schedules is created.                              *)
PaidOnce ==
  \A b \in Burns : \A d, e \in Paid(b) : d = e

(* The depth the confirmations promise: a reorganisation does not reach a  *)
(* burn a validator acts upon, and within a block number a burn has one    *)
(* log index.                                                              *)
ReorgsAreShallow == MaxReorg <= Confirmations
OneIndexPerBlock == \A p, q \in Places : p.block = q.block => p = q

Final == {b \in Burns : mined[b] # Pending
                        /\ Buried(mined[b].block, Confirmations)}

Promise == INSTANCE OnePayment
             WITH final <- Final,
                  payments <- [b \in Burns |-> Cardinality(Paid(b))]

(* What the validators do together, the watchers, the confirmations, the   *)
(* primary key of burn_events and the schedule, implements the promise:    *)
(* one payment per burn, and none the chain may still take back.           *)
ImplementsOnePayment == Promise!Spec

(* A record says COMPLETED only of a transfer the network executed (the    *)
(* poller reads the scheduled transaction, not the ScheduleCreate).        *)
CompletedIsPaid ==
  \A v \in Validators, e \in Events :
     row[v][e] = "COMPLETED" => outcome[e] = "SUCCESS"

(* The tables agree, although they are written one after the other and a   *)
(* write may fail or never come: a fee with a schedule is never ahead of   *)
(* the record of its event, one without stands for a refused event, and    *)
(* the REST API names a schedule only of an event that has one.            *)
TablesAgree ==
  \A v \in Validators :
    /\ \A f \in fees[v] :
         IF f.schedule = NoEvent
         THEN row[v][f.event] = "FAILED" /\ f.status = "FAILED"
         ELSE /\ TransactionID(v, f.event) = "scheduled"
              /\ f.status = "SUBMITTED" =>
                   row[v][f.event] \in {"SUBMITTED", "COMPLETED", "FAILED"}
              /\ f.status # "SUBMITTED" => row[v][f.event] = f.status
    /\ \A e \in Events :
         TransactionID(v, e) = "scheduled" =>
           signatures[e] # {} /\ row[v][e] # "INITIAL"

(* A validator that let go of an event, or wrote a terminal status, does   *)
(* not take it up again when the log reaches it a second time.             *)
EventTakenOnce ==
  [][\A v \in Validators, e \in Events :
       /\ row[v][e] # NoRow /\ pay[v][e] = "idle" => pay'[v][e] = "idle"
       /\ row[v][e] \in {"COMPLETED", "FAILED"} => row'[v][e] = row[v][e]]_vars

(* A burn whose log reached every validator is executed, and every         *)
(* validator comes to know, unless something failed or the chain moved it. *)
BurnSettles ==
  \A b \in Burns, p \in Places :
     (mined[b] = p /\ \A v \in Validators : waiting[v][<<b, p>>] > 0)
       ~> \/ \A v \in Validators :
                row[v][Event(b, p)] \in {"COMPLETED", "FAILED"}
          \/ mined[b] # p \/ errors > 0
=============================================================================

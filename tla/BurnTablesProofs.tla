-------------------------- MODULE BurnTablesProofs --------------------------
(***************************************************************************)
(* The tables burn_events and fees of a validator agree after every single *)
(* statement, although the goroutine of an event writes them one after the *)
(* other, any statement may fail and a crash may come between two of them. *)
(* The argument: where a goroutine stands says what the record of its      *)
(* event holds, so a write finds the fee rows it must not contradict.      *)
(***************************************************************************)
EXTENDS BurnEventsProofs

(* As in BurnEventsProofs.                                                 *)
USE DEF Create, UpdateStatus, UpdateStatusSubmitted, SubmitScheduleSign

(* What the step an event's goroutine has come to says of its record, and  *)
(* what a recorded transaction id says of it.                              *)
GoroutineAgrees(v, e) ==
  /\ pay[v][e] \in {"execute", "sign", "accepted", "refused"} =>
       row[v][e] = "INITIAL"
  /\ pay[v][e] \in {"sign", "accepted", "recordFee"} => signatures[e] # {}
  /\ pay[v][e] = "recordFee" => row[v][e] = "SUBMITTED" /\ e \in answer[v]
  /\ pay[v][e] = "recordFailure" => row[v][e] = "FAILED"
  /\ pay[v][e] = "wait" => row[v][e] \in {"INITIAL", "SUBMITTED"}
  /\ pay[v][e] = "settleFee" => /\ outcome[e] # "none"
                                /\ row[v][e] = Settled(outcome[e])
  /\ e \in answer[v] => /\ row[v][e] \in {"SUBMITTED", "COMPLETED", "FAILED"}
                        /\ signatures[e] # {}

(* What a row of fees says of the record of its event.                     *)
FeeAgrees(v, f) ==
  IF f.schedule = NoEvent
  THEN row[v][f.event] = "FAILED" /\ f.status = "FAILED"
  ELSE /\ f.schedule = f.event
       /\ f.event \in answer[v]
       /\ f.status # "SUBMITTED" => row[v][f.event] = f.status

(* The inductive invariant behind TablesAgree.                             *)
RowsAgree ==
  /\ \A v \in Validators, e \in Events : GoroutineAgrees(v, e)
  /\ \A v \in Validators : \A f \in fees[v] : FeeAgrees(v, f)

LEMMA RowsInit == Init => RowsAgree
BY DEF Init, RowsAgree, GoroutineAgrees, NoPayment

LEMMA AgreeImpliesTables ==
  ASSUME BurnTypeOK, RowsAgree
  PROVE  TablesAgree
<1> SUFFICES ASSUME NEW v \in Validators
             PROVE  /\ \A f \in fees[v] :
                         IF f.schedule = NoEvent
                         THEN row[v][f.event] = "FAILED" /\ f.status = "FAILED"
                         ELSE /\ TransactionID(v, f.event) = "scheduled"
                              /\ f.status = "SUBMITTED" =>
                                   row[v][f.event] \in
                                     {"SUBMITTED", "COMPLETED", "FAILED"}
                              /\ f.status # "SUBMITTED" =>
                                   row[v][f.event] = f.status
                    /\ \A e \in Events :
                         TransactionID(v, e) = "scheduled" =>
                           signatures[e] # {} /\ row[v][e] # "INITIAL"
  BY DEF TablesAgree
<1>1. ASSUME NEW e \in Events, e \in answer[v]
      PROVE  /\ TransactionID(v, e) = "scheduled"
             /\ row[v][e] \in {"SUBMITTED", "COMPLETED", "FAILED"}
             /\ signatures[e] # {}
  BY <1>1 DEF RowsAgree, GoroutineAgrees, TransactionID, NoRow
<1>2. ASSUME NEW e \in Events, TransactionID(v, e) = "scheduled"
      PROVE  e \in answer[v]
  BY <1>2 DEF TransactionID
<1>3. \A f \in fees[v] : f.event \in Events /\ FeeAgrees(v, f)
  BY DEF BurnTypeOK, FeeRows, RowsAgree
<1>4. ASSUME NEW f \in fees[v]
      PROVE  IF f.schedule = NoEvent
             THEN row[v][f.event] = "FAILED" /\ f.status = "FAILED"
             ELSE /\ TransactionID(v, f.event) = "scheduled"
                  /\ f.status = "SUBMITTED" =>
                       row[v][f.event] \in {"SUBMITTED", "COMPLETED", "FAILED"}
                  /\ f.status # "SUBMITTED" => row[v][f.event] = f.status
  BY <1>1, <1>3 DEF FeeAgrees
<1>5. ASSUME NEW e \in Events, TransactionID(v, e) = "scheduled"
      PROVE  signatures[e] # {} /\ row[v][e] # "INITIAL"
  BY <1>1, <1>2, <1>5
<1> QED BY <1>4, <1>5

(* A signature stays, and so does what the network did.                    *)
LEMMA SignaturesStay ==
  ASSUME BurnTypeOK, NEW v \in Validators, NEW e \in Events,
         UNCHANGED networkVars \/ Sign(v, e)
  PROVE  \A d \in Events :
            /\ signatures[d] # {} => signatures'[d] # {}
            /\ outcome[d] # "none" => outcome'[d] = outcome[d]
BY DEF networkVars, Sign, BurnTypeOK

(* The goroutine of an event leaves every other event alone.               *)
LEMMA OthersStay ==
  ASSUME BurnTypeOK, NEW v \in Validators, NEW e \in Events, PayRoutine(v, e)
  PROVE  \A u \in Validators, d \in Events :
            u # v \/ d # e =>
              /\ pay'[u][d] = pay[u][d]
              /\ row'[u][d] = row[u][d]
              /\ d \in answer'[u] <=> d \in answer[u]
<1>1. PICK step \in PaySteps : pay' = [pay EXCEPT ![v][e] = step]
  BY PayFrame
<1>2. UNCHANGED row \/ \E s \in Statuses : row' = [row EXCEPT ![v][e] = s]
  BY PayFrame DEF Settled, Statuses
<1>3. UNCHANGED answer \/ answer' = [answer EXCEPT ![v] = @ \cup {e}]
  BY DEF PayRoutine, Execute, ScheduleSign, RecordSubmitted, RecordFee,
         RecordFailed, RecordFailedFee, Settle, SettleFee, tableVars
<1>4. \A u \in Validators, d \in Events :
         u # v \/ d # e => pay'[u][d] = pay[u][d]
  BY <1>1 DEF BurnTypeOK
<1>5. \A u \in Validators, d \in Events :
         u # v \/ d # e => row'[u][d] = row[u][d]
  BY <1>2 DEF BurnTypeOK
<1>6. \A u \in Validators, d \in Events :
         u # v \/ d # e => (d \in answer'[u] <=> d \in answer[u])
  BY <1>3 DEF BurnTypeOK
<1> QED BY <1>4, <1>5, <1>6

(* What it does to its own event.                                          *)
LEMMA OwnAgrees ==
  ASSUME BurnTypeOK, RowsAgree, NEW v \in Validators, NEW e \in Events,
         PayRoutine(v, e)
  PROVE  GoroutineAgrees(v, e)'
<1> USE DEF GotoPay
<1>1. /\ pay[v] \in [Events -> PaySteps]
      /\ row[v] \in [Events -> Statuses \cup {NoRow}]
      /\ v \in DOMAIN pay /\ v \in DOMAIN row /\ v \in DOMAIN answer
  BY DEF BurnTypeOK
<1>2. GoroutineAgrees(v, e)
  BY DEF RowsAgree
<1>3. /\ signatures[e] # {} => signatures'[e] # {}
      /\ outcome[e] # "none" => outcome'[e] = outcome[e]
  BY PayFrame, SignaturesStay
<1>4. CASE Execute(v, e)
  <2>1. /\ pay[v][e] = "execute"
        /\ UNCHANGED <<row, answer>>
        /\ \/ pay'[v][e] \in {"idle", "refused"}
           \/ pay'[v][e] \in {"accepted", "sign"} /\ signatures'[e] # {}
    <3>1. Submit(v, e) => signatures'[e] # {}
      BY DEF Submit, Sign, BurnTypeOK
    <3>2. UNCHANGED networkVars /\ signatures[e] # {} => signatures'[e] # {}
      BY DEF networkVars
    <3> QED BY <1>1, <1>4, <3>1, <3>2 DEF Execute, tableVars
  <2> QED BY <1>2, <1>3, <2>1 DEF GoroutineAgrees
<1>5. CASE ScheduleSign(v, e)
  <2>1. /\ pay[v][e] = "sign" /\ pay'[v][e] = "accepted"
        /\ UNCHANGED <<row, answer>>
    BY <1>1, <1>5 DEF ScheduleSign, tableVars
  <2> QED BY <1>2, <1>3, <2>1 DEF GoroutineAgrees
<1>6. CASE RecordSubmitted(v, e)
  <2>1. pay[v][e] = "accepted"
    BY <1>6 DEF RecordSubmitted
  <2>2. \/ /\ row'[v][e] = "SUBMITTED" /\ pay'[v][e] = "recordFee"
           /\ e \in answer'[v]
        \/ pay'[v][e] = "wait" /\ UNCHANGED <<row, answer>>
    BY <1>1, <1>6 DEF RecordSubmitted
  <2> QED BY <1>2, <1>3, <2>1, <2>2 DEF GoroutineAgrees
<1>7. CASE RecordFee(v, e)
  <2>1. /\ pay[v][e] = "recordFee" /\ pay'[v][e] = "wait"
        /\ UNCHANGED <<row, answer>>
    BY <1>1, <1>7 DEF RecordFee
  <2> QED BY <1>2, <1>3, <2>1 DEF GoroutineAgrees
<1>8. CASE RecordFailed(v, e)
  <2>1. /\ pay[v][e] = "refused"
        /\ UNCHANGED answer
        /\ \/ row'[v][e] = "FAILED" /\ pay'[v][e] = "recordFailure"
           \/ pay'[v][e] = "idle" /\ UNCHANGED row
    BY <1>1, <1>8 DEF RecordFailed
  <2> QED BY <1>2, <1>3, <2>1 DEF GoroutineAgrees
<1>9. CASE RecordFailedFee(v, e)
  <2>1. /\ pay[v][e] = "recordFailure" /\ pay'[v][e] = "idle"
        /\ UNCHANGED <<row, answer>>
    BY <1>1, <1>9 DEF RecordFailedFee
  <2> QED BY <1>2, <1>3, <2>1 DEF GoroutineAgrees
<1>10. CASE Settle(v, e)
  <2>1. /\ pay[v][e] = "wait"
        /\ UNCHANGED answer /\ UNCHANGED outcome
        /\ \/ /\ outcome[e] # "none" /\ pay'[v][e] = "settleFee"
              /\ row'[v][e] = Settled(outcome[e])
           \/ pay'[v][e] = "idle" /\ UNCHANGED row
    BY <1>1, <1>10 DEF Settle, networkVars
  <2> QED BY <1>2, <1>3, <2>1 DEF GoroutineAgrees, Settled
<1>11. CASE SettleFee(v, e)
  <2>1. /\ pay[v][e] = "settleFee" /\ pay'[v][e] = "idle"
        /\ UNCHANGED <<row, answer>>
    BY <1>1, <1>11 DEF SettleFee
  <2> QED BY <1>2, <1>3, <2>1 DEF GoroutineAgrees
<1> QED BY <1>4, <1>5, <1>6, <1>7, <1>8, <1>9, <1>10, <1>11 DEF PayRoutine

(* A write finds no fee row that it would contradict: a record with a fee  *)
(* that is not SUBMITTED holds a terminal status.                          *)
LEMMA FeesAgree ==
  ASSUME BurnTypeOK, RowsAgree, NEW v \in Validators, NEW e \in Events,
         PayRoutine(v, e)
  PROVE  \A u \in Validators : \A f \in fees'[u] : FeeAgrees(u, f)'
<1> USE DEF GotoPay
<1>1. GoroutineAgrees(v, e)
  BY DEF RowsAgree
<1>2. \A u \in Validators : \A f \in fees[u] :
         f \in FeeRows /\ f.event \in Events /\ FeeAgrees(u, f)
  BY DEF RowsAgree, BurnTypeOK, FeeRows
<1>3. \A u \in Validators, d \in Events : d \in answer[u] => d \in answer'[u]
  <2>1. UNCHANGED answer \/ answer' = [answer EXCEPT ![v] = @ \cup {e}]
    BY DEF PayRoutine, Execute, ScheduleSign, RecordSubmitted, RecordFee,
           RecordFailed, RecordFailedFee, Settle, SettleFee, tableVars
  <2> QED BY <2>1 DEF BurnTypeOK
<1>4. ASSUME UNCHANGED fees
      PROVE  \A u \in Validators : \A f \in fees'[u] : FeeAgrees(u, f)'
  <2> SUFFICES ASSUME NEW u \in Validators, NEW f \in fees[u]
               PROVE  FeeAgrees(u, f)'
    BY <1>4
  <2>1. CASE row'[u][f.event] = row[u][f.event]
    BY <1>2, <1>3, <2>1 DEF FeeAgrees
  <2>2. CASE u = v /\ f.event = e /\ row'[v][e] # row[v][e]
    <3>1. row[v][e] \in {"INITIAL", "SUBMITTED"}
      BY <1>1, <2>2 DEF PayRoutine, Execute, ScheduleSign, RecordSubmitted,
         RecordFee, RecordFailed, RecordFailedFee, Settle, SettleFee,
         tableVars, GoroutineAgrees
    <3>2. f.schedule # NoEvent /\ f.status = "SUBMITTED"
      BY <1>2, <2>2, <3>1 DEF FeeAgrees, FeeRows
    <3> QED BY <1>2, <1>3, <3>2 DEF FeeAgrees
  <2> QED BY <1>2, <2>1, <2>2, OthersStay
<1>5. ASSUME UNCHANGED row, NEW k \in Events \cup {NoEvent},
             NEW s \in {"SUBMITTED", "FAILED"}, CreateFee(v, k, e, s),
             FeeAgrees(v, [schedule |-> k, event |-> e, status |-> s])
      PROVE  \A u \in Validators : \A f \in fees'[u] : FeeAgrees(u, f)'
  <2> DEFINE new == [schedule |-> k, event |-> e, status |-> s]
  <2>1. \A u \in Validators : \A f \in fees'[u] :
           f \in fees[u] \/ (u = v /\ f = new)
    BY <1>5 DEF CreateFee, BurnTypeOK
  <2>2. new.event = e
    OBVIOUS
  <2> HIDE DEF new
  <2> SUFFICES ASSUME NEW u \in Validators, NEW f \in fees'[u]
               PROVE  FeeAgrees(u, f)'
    OBVIOUS
  <2>3. f.event \in Events /\ FeeAgrees(u, f)
    BY <1>2, <1>5, <2>1, <2>2 DEF new
  <2> QED BY <1>3, <1>5, <2>3 DEF FeeAgrees
<1>6. CASE RecordFee(v, e)
  <2>1. FeeAgrees(v, [schedule |-> e, event |-> e, status |-> "SUBMITTED"])
    BY <1>1, <1>6, NoEventIsNone DEF RecordFee, GoroutineAgrees, FeeAgrees
  <2> QED BY <1>4, <1>5, <1>6, <2>1 DEF RecordFee
<1>7. CASE RecordFailedFee(v, e)
  <2>1. FeeAgrees(v, [schedule |-> NoEvent, event |-> e, status |-> "FAILED"])
    BY <1>1, <1>7 DEF RecordFailedFee, GoroutineAgrees, FeeAgrees
  <2> QED BY <1>4, <1>5, <1>7, <2>1 DEF RecordFailedFee
<1>8. CASE SettleFee(v, e)
  <2>1. UNCHANGED row
    BY <1>8 DEF SettleFee
  <2>2. CASE UpdateFee(v, e)
    <3> SUFFICES ASSUME NEW u \in Validators, NEW f \in fees'[u]
                 PROVE  FeeAgrees(u, f)'
      OBVIOUS
    <3>1. CASE f \in fees[u]
      BY <1>2, <1>3, <2>1, <3>1 DEF FeeAgrees
    <3>2. ASSUME u = v, NEW g \in fees[v], g.schedule = e,
                 f = [g EXCEPT !.status = Settled(outcome[e])]
          PROVE  FeeAgrees(u, f)'
      <4>1. g \in FeeRows /\ g.event = e /\ e \in answer[v]
        BY <1>2, <3>2, NoEventIsNone DEF FeeAgrees
      <4>2. /\ f.schedule = e /\ f.event = e
            /\ f.status = Settled(outcome[e])
        BY <3>2, <4>1 DEF FeeRows
      <4>3. row[v][e] = Settled(outcome[e])
        BY <1>1, <1>8 DEF SettleFee, GoroutineAgrees
      <4> QED BY <1>3, <2>1, <3>2, <4>1, <4>2, <4>3, NoEventIsNone
              DEF FeeAgrees
    <3>3. \/ f \in fees[u]
          \/ u = v /\ \E g \in fees[v] :
                /\ g.schedule = e
                /\ f = [g EXCEPT !.status = Settled(outcome[e])]
      BY <2>2 DEF UpdateFee, BurnTypeOK
    <3> QED BY <3>1, <3>2, <3>3
  <2> QED BY <1>4, <1>8, <2>2 DEF SettleFee
<1>9. CASE UNCHANGED fees
  BY <1>4, <1>9
<1> QED BY <1>6, <1>7, <1>8, <1>9
        DEF PayRoutine, Execute, ScheduleSign, RecordSubmitted, RecordFailed,
            Settle, tableVars

(* A step that writes no table and moves no goroutine.                     *)
LEMMA RowsUntouched ==
  ASSUME RowsAgree, UNCHANGED <<pay, tableVars, networkVars>>
  PROVE  RowsAgree'
BY DEF RowsAgree, GoroutineAgrees, FeeAgrees, tableVars, networkVars

LEMMA RowsStep ==
  ASSUME BurnTypeOK, RowsAgree, [Next]_vars
  PROVE  RowsAgree'
<1>1. CASE UNCHANGED vars
  BY <1>1, RowsUntouched DEF vars
<1>2. CASE Chain
  BY <1>2, RowsUntouched DEF Chain, NextBlock, Burn, Moved
<1>3. ASSUME NEW v \in Validators, Validator(v)
      PROVE  RowsAgree'
  <2>1. CASE Subscribe(v) \/ SubscriptionBreaks(v)
             \/ \E l \in Logs : DropLog(v, l)
    BY <2>1, RowsUntouched DEF Subscribe, SubscriptionBreaks, DropLog
  <2>2. CASE Crash(v)
    <3>1. UNCHANGED <<row, answer, fees, signatures, outcome>>
      BY <2>2 DEF Crash, tableVars, networkVars
    <3>2. \A u \in Validators, e \in Events :
             pay'[u][e] = pay[u][e] \/ pay'[u][e] = "idle"
      BY <2>2 DEF Crash, BurnTypeOK, NoPayment
    <3>3. \A u \in Validators, e \in Events : GoroutineAgrees(u, e)'
      BY <3>1, <3>2 DEF RowsAgree, GoroutineAgrees
    <3> QED BY <3>1, <3>3 DEF RowsAgree, FeeAgrees
  <2>3. ASSUME NEW l \in Logs, Confirm(v, l)
        PROVE  RowsAgree'
    <3> DEFINE e == Event(l[1], l[2])
    <3>1. UNCHANGED <<answer, fees, signatures, outcome>>
      BY <2>3 DEF Confirm, networkVars
    <3>2. e \in Events
      BY EventType DEF Logs
    <3>3. ProcessEvent(v, e) \/ UNCHANGED <<row, pay>>
      BY <2>3 DEF Confirm
    <3> HIDE DEF e
    <3>4. CASE UNCHANGED <<row, pay>>
      BY <3>1, <3>4, RowsUntouched DEF tableVars, networkVars
    <3>5. CASE row[v][e] = NoRow /\ Create(v, e)
               /\ pay' = [pay EXCEPT ![v][e] = "execute"]
      <4>1. row'[v][e] = "INITIAL" /\ pay'[v][e] = "execute"
        BY <3>2, <3>5 DEF BurnTypeOK
      <4>2. \A u \in Validators, d \in Events :
               u # v \/ d # e => /\ row'[u][d] = row[u][d]
                                 /\ pay'[u][d] = pay[u][d]
        BY <3>2, <3>5 DEF BurnTypeOK
      <4>3. e \notin answer[v]
        BY <3>2, <3>5 DEF RowsAgree, GoroutineAgrees, NoRow
      <4>4. \A u \in Validators, d \in Events : GoroutineAgrees(u, d)'
        <5>1. GoroutineAgrees(v, e)'
          BY <3>1, <4>1, <4>3 DEF GoroutineAgrees
        <5>2. ASSUME NEW u \in Validators, NEW d \in Events, u # v \/ d # e
              PROVE  GoroutineAgrees(u, d)'
          BY <3>1, <4>2, <5>2 DEF RowsAgree, GoroutineAgrees
        <5> QED BY <5>1, <5>2
      <4>5. ASSUME NEW u \in Validators, NEW f \in fees[u]
            PROVE  FeeAgrees(u, f)'
        <5>1. FeeAgrees(u, f) /\ f.event \in Events
          BY DEF RowsAgree, BurnTypeOK, FeeRows
        <5>2. u # v \/ f.event # e
          BY <3>5, <4>3, <5>1 DEF FeeAgrees, NoRow
        <5> QED BY <3>1, <4>2, <5>1, <5>2 DEF FeeAgrees
      <4> QED BY <3>1, <4>4, <4>5 DEF RowsAgree
    <3> QED BY <3>3, <3>4, <3>5 DEF ProcessEvent
  <2>4. ASSUME NEW e \in Events, PayRoutine(v, e)
        PROVE  RowsAgree'
    <3>1. \A u \in Validators : \A f \in fees'[u] : FeeAgrees(u, f)'
      BY <2>4, FeesAgree
    <3>2. ASSUME NEW u \in Validators, NEW d \in Events
          PROVE  GoroutineAgrees(u, d)'
      <4>1. CASE u = v /\ d = e
        BY <2>4, <4>1, OwnAgrees
      <4>2. CASE u # v \/ d # e
        <5>1. /\ pay'[u][d] = pay[u][d] /\ row'[u][d] = row[u][d]
              /\ d \in answer'[u] <=> d \in answer[u]
          BY <2>4, <4>2, OthersStay
        <5>2. signatures[d] # {} => signatures'[d] # {}
          BY <2>4, PayFrame, SignaturesStay
        <5>3. pay[u][d] = "settleFee" => outcome'[d] = outcome[d]
          BY <2>4, PayFrame, SignaturesStay DEF RowsAgree, GoroutineAgrees
        <5> QED BY <5>1, <5>2, <5>3 DEF RowsAgree, GoroutineAgrees
      <4> QED BY <4>1, <4>2
    <3> QED BY <3>1, <3>2 DEF RowsAgree
  <2> QED BY <1>3, <2>1, <2>2, <2>3, <2>4 DEF Validator, Goroutine, Failure
<1> QED BY <1>1, <1>2, <1>3 DEF Next

LEMMA RowsCorrect == Spec => [](BurnTypeOK /\ RowsAgree)
<1>1. Init => RowsAgree
  BY RowsInit
<1>2. BurnTypeOK /\ RowsAgree /\ [Next]_vars => RowsAgree'
  BY RowsStep
<1> QED BY <1>1, <1>2, BurnTypeCorrect, PTL DEF Spec, Safety

(* The records, the fees and what the REST API answers agree in every      *)
(* state, for any number of validators, events, failures and crashes.      *)
THEOREM TablesAlwaysAgree == Spec => []TablesAgree
<1>1. BurnTypeOK /\ RowsAgree => TablesAgree
  BY AgreeImpliesTables
<1> QED BY <1>1, RowsCorrect, PTL

-----------------------------------------------------------------------------
(* What EventTakenOnce asks of a step.                                     *)
NotTakenAgain(v, e) ==
  /\ row[v][e] # NoRow /\ pay[v][e] = "idle" => pay'[v][e] = "idle"
  /\ row[v][e] \in {"COMPLETED", "FAILED"} => row'[v][e] = row[v][e]

LEMMA TakenOnceStep ==
  ASSUME BurnTypeOK, RowsAgree, [Next]_vars,
         NEW v \in Validators, NEW e \in Events
  PROVE  NotTakenAgain(v, e)
<1>1. CASE UNCHANGED <<row, pay>>
  BY <1>1 DEF NotTakenAgain
<1>2. CASE Chain
  BY <1>1, <1>2 DEF Chain, NextBlock, Burn, Moved, tableVars
<1>3. ASSUME NEW u \in Validators, Validator(u)
      PROVE  NotTakenAgain(v, e)
  <2>1. CASE Subscribe(u) \/ SubscriptionBreaks(u)
             \/ \E l \in Logs : DropLog(u, l)
    BY <1>1, <2>1 DEF Subscribe, SubscriptionBreaks, DropLog, tableVars
  <2>2. CASE Crash(u)
    <3>1. UNCHANGED row
      BY <2>2 DEF Crash, tableVars
    <3>2. pay'[v][e] = pay[v][e] \/ pay'[v][e] = "idle"
      BY <2>2 DEF Crash, BurnTypeOK, NoPayment
    <3> QED BY <3>1, <3>2 DEF NotTakenAgain
  <2>3. ASSUME NEW l \in Logs, Confirm(u, l)
        PROVE  NotTakenAgain(v, e)
    <3> DEFINE d == Event(l[1], l[2])
    <3>1. ProcessEvent(u, d) \/ UNCHANGED <<row, pay>>
      BY <2>3 DEF Confirm
    <3>2. d \in Events
      BY EventType DEF Logs
    <3> HIDE DEF d
    <3>3. CASE row[u][d] = NoRow /\ Create(u, d)
               /\ pay' = [pay EXCEPT ![u][d] = "execute"]
      <4>1. CASE u = v /\ d = e
        BY <3>3, <4>1 DEF NotTakenAgain, NoRow
      <4>2. CASE u # v \/ d # e
        <5>1. row'[v][e] = row[v][e] /\ pay'[v][e] = pay[v][e]
          BY <3>3, <4>2 DEF BurnTypeOK
        <5> QED BY <5>1 DEF NotTakenAgain
      <4> QED BY <4>1, <4>2
    <3> QED BY <1>1, <3>1, <3>3 DEF ProcessEvent
  <2>4. ASSUME NEW d \in Events, PayRoutine(u, d)
        PROVE  NotTakenAgain(v, e)
    <3>1. CASE u # v \/ d # e
      <4>1. row'[v][e] = row[v][e] /\ pay'[v][e] = pay[v][e]
        BY <2>4, <3>1, OthersStay
      <4> QED BY <4>1 DEF NotTakenAgain
    <3>2. CASE u = v /\ d = e
      <4>1. pay[v][e] # "idle"
        BY <2>4, <3>2, PayFrame
      <4>2. GoroutineAgrees(v, e)
        BY DEF RowsAgree
      <4>3. \/ UNCHANGED row
            \/ row[v][e] \in {"INITIAL", "SUBMITTED"}
        BY <2>4, <3>2, <4>2
           DEF PayRoutine, Execute, ScheduleSign, RecordSubmitted, RecordFee,
               RecordFailed, RecordFailedFee, Settle, SettleFee, tableVars,
               GoroutineAgrees
      <4> QED BY <4>1, <4>3 DEF NotTakenAgain
    <3> QED BY <3>1, <3>2
  <2> QED BY <1>3, <2>1, <2>2, <2>3, <2>4 DEF Validator, Goroutine, Failure
<1> QED BY <1>1, <1>2, <1>3 DEF Next, vars, tableVars

(* A log that reaches a validator again, after a reconnection or a         *)
(* reorganisation, starts no second payment, and a terminal status of a    *)
(* burn event is never overwritten.                                        *)
THEOREM EventIsTakenOnce == Spec => EventTakenOnce
<1>1. BurnTypeOK /\ RowsAgree /\ [Next]_vars =>
        [\A v \in Validators, e \in Events :
           /\ row[v][e] # NoRow /\ pay[v][e] = "idle" => pay'[v][e] = "idle"
           /\ row[v][e] \in {"COMPLETED", "FAILED"} =>
                row'[v][e] = row[v][e]]_vars
  BY TakenOnceStep DEF NotTakenAgain
<1> QED BY <1>1, RowsCorrect, PTL DEF Spec, Safety, EventTakenOnce
=============================================================================

-------------------------- MODULE BurnEventsProofs --------------------------
(***************************************************************************)
(* Proofs about BurnEvents, for every number of validators, burns, places  *)
(* and failures.  Where the chain is not deeper reorganised than the       *)
(* confirmations (ReorgsAreShallow), whatever a validator acts upon stays  *)
(* where it was mined; where a block number also has one log index per     *)
(* burn (OneIndexPerBlock), it is one event, hence one schedule.           *)
(***************************************************************************)
EXTENDS BurnEvents, FiniteSetTheorems, TLAPS

(* The statements on burn_events stand for what they write, a ScheduleSign *)
(* for the signature.                                                      *)
USE DEF Create, UpdateStatus, UpdateStatusSubmitted, SubmitScheduleSign

LEMMA EventType ==
  ASSUME NEW b \in Burns, NEW p \in Places
  PROVE  Event(b, p) \in Events
BY PlacesAssumption DEF Event, Events, Indexes

LEMMA NoEventIsNone == NoEvent \notin Events
BY NoBurnAssumption DEF NoEvent, Events

LEMMA TypeInit == Init => BurnTypeOK
BY ValidatorsAssumption
   DEF Init, BurnTypeOK, InitChain, TypeOKChain, NoGoroutine, NoPayment,
       PaySteps, Statuses

(* A record and a goroutine are written one at a time.                     *)
LEMMA RowType ==
  ASSUME BurnTypeOK, NEW v \in Validators, NEW e \in Events,
         NEW s \in Statuses, row' = [row EXCEPT ![v][e] = s]
  PROVE  row' \in [Validators -> [Events -> Statuses \cup {NoRow}]]
<1>1. row[v] \in [Events -> Statuses \cup {NoRow}]
  BY DEF BurnTypeOK
<1>2. [row[v] EXCEPT ![e] = s] \in [Events -> Statuses \cup {NoRow}]
  BY <1>1
<1> QED BY <1>2 DEF BurnTypeOK

LEMMA PayType ==
  ASSUME BurnTypeOK, NEW v \in Validators, NEW e \in Events,
         NEW s \in PaySteps, pay' = [pay EXCEPT ![v][e] = s]
  PROVE  pay' \in [Validators -> [Events -> PaySteps]]
<1>1. [pay[v] EXCEPT ![e] = s] \in [Events -> PaySteps]
  BY DEF BurnTypeOK
<1> QED BY <1>1 DEF BurnTypeOK

LEMMA ChainType ==
  ASSUME TypeOKChain, Chain
  PROVE  TypeOKChain'
<1>1. head' \in Nat
  BY DEF TypeOKChain, Chain, NextBlock, EmptyBlock, Burn, Mine, Moved,
         Reorganise
<1>2. CASE NextBlock
  BY <1>1, <1>2 DEF NextBlock, EmptyBlock, TypeOKChain
<1>3. ASSUME NEW b \in Burns, Burn(b)
      PROVE  mined' \in [Burns -> Places \cup {Pending}]
  BY <1>3 DEF Burn, Mine, TypeOKChain
<1>4. ASSUME NEW b \in Burns, Moved(b)
      PROVE  mined' \in [Burns -> Places \cup {Pending}]
  <2>1. PICK fork \in 0..head, p \in Places \cup {Pending} :
           Reorganise(b, fork, p)
    BY <1>4 DEF Moved
  <2>2. \A c \in Burns :
           (IF c = b THEN p ELSE IF mined[c].block > fork THEN Pending
            ELSE mined[c]) \in Places \cup {Pending}
    BY DEF TypeOKChain
  <2> QED BY <2>1, <2>2 DEF Reorganise
<1> QED BY <1>1, <1>2, <1>3, <1>4 DEF Chain, TypeOKChain

LEMMA DeliverType ==
  ASSUME BurnTypeOK, NEW b \in Burns, NEW p \in Places, Deliver(b, p)
  PROVE  waiting' \in [Validators -> [Logs -> Nat]]
<1>1. <<b, p>> \in Logs
  BY DEF Logs
<1>2. \A v \in Validators :
         [waiting[v] EXCEPT ![<<b, p>>] = @ + 1] \in [Logs -> Nat]
  BY <1>1 DEF BurnTypeOK
<1> QED BY <1>2 DEF BurnTypeOK, Deliver

LEMMA SignType ==
  ASSUME BurnTypeOK, NEW v \in Validators, NEW e \in Events, Sign(v, e)
  PROVE  /\ signatures' \in [Events -> SUBSET Validators]
         /\ outcome' \in [Events -> {"none", "SUCCESS", "FAILED"}]
BY DEF BurnTypeOK, Sign

LEMMA CreateFeeType ==
  ASSUME BurnTypeOK, NEW v \in Validators, NEW e \in Events,
         NEW k \in Events \cup {NoEvent},
         NEW s \in {"SUBMITTED", "COMPLETED", "FAILED"},
         CreateFee(v, k, e, s)
  PROVE  fees' \in [Validators -> SUBSET FeeRows]
<1> DEFINE f0 == [schedule |-> k, event |-> e, status |-> s]
<1>1. f0 \in FeeRows
  BY DEF FeeRows
<1>2. fees' = fees \/ fees' = [fees EXCEPT ![v] = @ \cup {f0}]
  BY DEF CreateFee
<1>3. fees[v] \cup {f0} \in SUBSET FeeRows
  BY <1>1 DEF BurnTypeOK
<1> HIDE DEF f0
<1> QED BY <1>2, <1>3 DEF BurnTypeOK

LEMMA UpdateFeeType ==
  ASSUME BurnTypeOK, NEW v \in Validators, NEW e \in Events, UpdateFee(v, e)
  PROVE  fees' \in [Validators -> SUBSET FeeRows]
<1>1. \A f \in fees[v] :
         /\ f \in FeeRows
         /\ [f EXCEPT !.status = Settled(outcome[e])] \in FeeRows
  <2> TAKE f \in fees[v]
  <2>1. f \in FeeRows
    BY DEF BurnTypeOK
  <2>2. Settled(outcome[e]) \in {"COMPLETED", "FAILED"}
    BY DEF Settled
  <2> QED BY <2>1, <2>2 DEF FeeRows
<1>2. {IF f.schedule = e THEN [f EXCEPT !.status = Settled(outcome[e])]
       ELSE f : f \in fees[v]} \in SUBSET FeeRows
  BY <1>1
<1> QED BY <1>2 DEF UpdateFee, BurnTypeOK

(* Every step keeps every variable in its type.                            *)
LEMMA TypeStep ==
  ASSUME BurnTypeOK, [Next]_vars
  PROVE  BurnTypeOK'
<1> USE ValidatorsAssumption DEF Ok, Fault
<1>1. CASE UNCHANGED vars
  BY <1>1 DEF vars, chainVars, tableVars, networkVars, BurnTypeOK, TypeOKChain
<1>2. CASE Chain
  <2>1. TypeOKChain'
    BY <1>2, ChainType DEF BurnTypeOK
  <2>2. waiting' \in [Validators -> [Logs -> Nat]]
    <3>1. \/ UNCHANGED waiting
          \/ \E b \in Burns, p \in Places : Deliver(b, p)
      BY <1>2 DEF Chain, NextBlock, Burn, Moved
    <3> QED BY <3>1, DeliverType DEF BurnTypeOK
  <2>3. UNCHANGED <<watch, pay, tableVars, networkVars, errors>>
    BY <1>2 DEF Chain, NextBlock, Burn, Moved
  <2> QED BY <2>1, <2>2, <2>3 DEF BurnTypeOK, tableVars, networkVars
<1>3. ASSUME NEW v \in Validators, Validator(v)
      PROVE  BurnTypeOK'
  <2> USE DEF GotoPay
  <2>1. CASE Subscribe(v) \/ SubscriptionBreaks(v)
    <3>1. \E s \in {"off", "on", "dead"} : watch' = [watch EXCEPT ![v] = s]
      BY <2>1 DEF Subscribe, SubscriptionBreaks
    <3>2. /\ errors' \in 0..MaxErrors
          /\ UNCHANGED <<chainVars, waiting, pay, tableVars, networkVars>>
      BY <2>1 DEF Subscribe, SubscriptionBreaks, BurnTypeOK
    <3> QED BY <3>1, <3>2 DEF BurnTypeOK, TypeOKChain, chainVars, tableVars,
                              networkVars
  <2>2. CASE Crash(v)
    BY <2>2 DEF Crash, NoGoroutine, NoPayment, BurnTypeOK, TypeOKChain,
                chainVars, tableVars, networkVars, PaySteps
  <2>3. ASSUME NEW l \in Logs, DropLog(v, l)
        PROVE  BurnTypeOK'
    BY <2>3 DEF DropLog, BurnTypeOK, TypeOKChain, chainVars, tableVars,
                networkVars
  <2>4. ASSUME NEW l \in Logs, Confirm(v, l)
        PROVE  BurnTypeOK'
    <3> DEFINE e == Event(l[1], l[2])
    <3>1. e \in Events
      BY EventType DEF Logs
    <3> HIDE DEF e
    <3>2. ProcessEvent(v, e) \/ UNCHANGED <<row, pay>>
      BY <2>4 DEF Confirm, e
    <3>3. /\ row' \in [Validators -> [Events -> Statuses \cup {NoRow}]]
          /\ pay' \in [Validators -> [Events -> PaySteps]]
      <4>2. CASE UNCHANGED <<row, pay>>
        BY <4>2 DEF BurnTypeOK
      <4>3. CASE row' = [row EXCEPT ![v][e] = "INITIAL"]
                 /\ pay' = [pay EXCEPT ![v][e] = "execute"]
        <5>1. row' \in [Validators -> [Events -> Statuses \cup {NoRow}]]
          BY <3>1, <4>3, RowType DEF Statuses
        <5>2. pay' \in [Validators -> [Events -> PaySteps]]
          BY <3>1, <4>3, PayType DEF PaySteps
        <5> QED BY <5>1, <5>2
      <4> QED BY <3>2, <4>2, <4>3 DEF ProcessEvent
    <3>4. /\ waiting' \in [Validators -> [Logs -> Nat]]
          /\ UNCHANGED <<chainVars, watch, answer, fees, networkVars, errors>>
      BY <2>4 DEF Confirm, BurnTypeOK
    <3> QED BY <3>3, <3>4 DEF BurnTypeOK, TypeOKChain, chainVars, networkVars
  <2>5. ASSUME NEW e \in Events, PayRoutine(v, e)
        PROVE  BurnTypeOK'
    <3>1. UNCHANGED <<chainVars, watch, waiting>>
      BY <2>5 DEF PayRoutine, Execute, Submit, ScheduleSign, RecordSubmitted,
                  RecordFee, RecordFailed, RecordFailedFee, Settle, SettleFee
    <3>2. errors' \in 0..MaxErrors
      BY <2>5 DEF PayRoutine, Execute, Submit, ScheduleSign, RecordSubmitted,
                  RecordFee, RecordFailed, RecordFailedFee, Settle, SettleFee,
                  BurnTypeOK
    <3>3. pay' \in [Validators -> [Events -> PaySteps]]
      <4>1. \E step \in PaySteps : GotoPay(v, e, step)
        BY <2>5 DEF PayRoutine, Execute, Submit, ScheduleSign, RecordSubmitted,
                    RecordFee, RecordFailed, RecordFailedFee, Settle,
                    SettleFee, PaySteps
      <4> QED BY <4>1, PayType DEF GotoPay
    <3>4. row' \in [Validators -> [Events -> Statuses \cup {NoRow}]]
      <4>1. \/ UNCHANGED row
            \/ \E s \in Statuses : row' = [row EXCEPT ![v][e] = s]
        BY <2>5 DEF PayRoutine, Execute, Submit, ScheduleSign, RecordSubmitted,
                    RecordFee, RecordFailed, RecordFailedFee, Settle,
                    SettleFee, tableVars, Settled, Statuses
      <4> QED BY <4>1, RowType DEF BurnTypeOK
    <3>5. answer' \in [Validators -> SUBSET Events]
      <4>1. \/ UNCHANGED answer
            \/ answer' = [answer EXCEPT ![v] = @ \cup {e}]
        BY <2>5 DEF PayRoutine, Execute, Submit, ScheduleSign, RecordSubmitted,
                    RecordFee, RecordFailed, RecordFailedFee, Settle,
                    SettleFee, tableVars
      <4>2. answer[v] \cup {e} \in SUBSET Events
        BY DEF BurnTypeOK
      <4> QED BY <4>1, <4>2 DEF BurnTypeOK
    <3>6. fees' \in [Validators -> SUBSET FeeRows]
      <4>1. \/ UNCHANGED fees
            \/ CreateFee(v, e, e, "SUBMITTED")
            \/ CreateFee(v, NoEvent, e, "FAILED")
            \/ UpdateFee(v, e)
        BY <2>5 DEF PayRoutine, Execute, Submit, ScheduleSign, RecordSubmitted,
                    RecordFee, RecordFailed, RecordFailedFee, Settle,
                    SettleFee, tableVars
      <4> QED BY <4>1, CreateFeeType, UpdateFeeType DEF BurnTypeOK
    <3>7. /\ signatures' \in [Events -> SUBSET Validators]
          /\ outcome' \in [Events -> {"none", "SUCCESS", "FAILED"}]
      <4>1. UNCHANGED networkVars \/ Sign(v, e)
        BY <2>5 DEF PayRoutine, Execute, Submit, ScheduleSign, RecordSubmitted,
                    RecordFee, RecordFailed, RecordFailedFee, Settle, SettleFee
      <4> QED BY <4>1, SignType DEF BurnTypeOK, networkVars
    <3> QED BY <3>1, <3>2, <3>3, <3>4, <3>5, <3>6, <3>7
            DEF BurnTypeOK, TypeOKChain, chainVars
  <2> QED BY <1>3, <2>1, <2>2, <2>3, <2>4, <2>5
          DEF Validator, Goroutine, Failure
<1> QED BY <1>1, <1>2, <1>3 DEF Next

(* Type correctness of everything the validators and the network hold.     *)
THEOREM BurnTypeCorrect == Spec => []BurnTypeOK
<1>1. Init => BurnTypeOK
  BY TypeInit
<1>2. BurnTypeOK /\ [Next]_vars => BurnTypeOK'
  BY TypeStep
<1> QED BY <1>1, <1>2, PTL DEF Spec, Safety

-----------------------------------------------------------------------------
(* e names its burn where the chain finally has it.                        *)
Conclusive(e) ==
  /\ mined[e.burn] # Pending
  /\ Buried(mined[e.burn].block, Confirmations)
  /\ mined[e.burn].index = e.index

(* What was recorded or signed is conclusive; what goes on has a record;   *)
(* what was executed was signed.                                           *)
ActedUpon ==
  /\ \A v \in Validators, e \in Events :
        /\ row[v][e] # NoRow => Conclusive(e)
        /\ pay[v][e] # "idle" => row[v][e] # NoRow
  /\ \A e \in Events :
        /\ signatures[e] # {} => Conclusive(e)
        /\ outcome[e] # "none" => signatures[e] # {}

(* No step of the chain takes back what is conclusive.                     *)
LEMMA ConclusiveStays ==
  ASSUME ReorgsAreShallow, BurnTypeOK, [Next]_vars,
         NEW e \in Events, Conclusive(e)
  PROVE  Conclusive(e)'
<1> DEFINE b == e.burn
<1>1. b \in Burns /\ head \in Nat /\ mined \in [Burns -> Places \cup {Pending}]
  BY DEF Events, BurnTypeOK, TypeOKChain
<1>2. mined[b].block \in Nat /\ Confirmations \in Nat /\ MaxReorg \in Nat
  BY <1>1, PlacesAssumption, ValidatorsAssumption DEF Pending
<1>3. CASE UNCHANGED chainVars
  BY <1>3 DEF Conclusive, chainVars, Buried
<1>4. ASSUME head' = head + 1, mined'[b] = mined[b]
      PROVE  Conclusive(e)'
  BY <1>1, <1>2, <1>4 DEF Conclusive, Buried
<1>5. CASE NextBlock
  BY <1>4, <1>5 DEF NextBlock, EmptyBlock
<1>6. ASSUME NEW c \in Burns, Burn(c)
      PROVE  Conclusive(e)'
  <2>1. PICK p \in Places : Mine(c, p)
    BY <1>6 DEF Burn
  <2>2. c # b
    BY <2>1 DEF Mine, Conclusive
  <2> QED BY <1>1, <1>4, <2>1, <2>2 DEF Mine
<1>7. ASSUME NEW c \in Burns, Moved(c)
      PROVE  Conclusive(e)'
  <2>1. PICK fork \in 0..head, p \in Places \cup {Pending} :
           Reorganise(c, fork, p)
    BY <1>7 DEF Moved
  <2>2. mined[b].block <= fork
    BY <1>1, <1>2, <2>1 DEF Reorganise, Conclusive, Buried, ReorgsAreShallow
  <2>3. ~(mined[b].block > fork)
    BY <1>1, <1>2, <2>2
  <2>4. mined'[b] = mined[b]
    BY <1>1, <2>1, <2>3 DEF Reorganise
  <2> QED BY <1>4, <2>1, <2>4 DEF Reorganise
<1>8. CASE \E v \in Validators : Validator(v)
  <2>1. UNCHANGED chainVars
    BY <1>8 DEF Validator, Goroutine, Failure, Subscribe, SubscriptionBreaks,
                Crash, DropLog, Confirm, PayRoutine, Execute, Submit, ScheduleSign,
                RecordSubmitted, RecordFee, RecordFailed, RecordFailedFee,
                Settle, SettleFee
  <2> QED BY <1>3, <2>1
<1> QED BY <1>3, <1>5, <1>6, <1>7, <1>8 DEF Next, Chain, vars

(* What a step of the goroutine that pays an event may change.             *)
LEMMA PayFrame ==
  ASSUME BurnTypeOK, NEW v \in Validators, NEW e \in Events, PayRoutine(v, e)
  PROVE  /\ pay[v][e] # "idle"
         /\ \E step \in PaySteps : pay' = [pay EXCEPT ![v][e] = step]
         /\ \/ UNCHANGED row
            \/ \E s \in {"SUBMITTED", "FAILED"} :
                  row' = [row EXCEPT ![v][e] = s]
            \/ /\ outcome[e] # "none"
               /\ row' = [row EXCEPT ![v][e] = Settled(outcome[e])]
         /\ UNCHANGED networkVars \/ Sign(v, e)
BY DEF PayRoutine, Execute, Submit, ScheduleSign, RecordSubmitted, RecordFee,
       RecordFailed, RecordFailedFee, Settle, SettleFee, GotoPay, PaySteps,
       tableVars

(* A record that is made names its burn where it finally is.               *)
LEMMA ConfirmIsConclusive ==
  ASSUME OneIndexPerBlock, BurnTypeOK, NEW v \in Validators, NEW l \in Logs,
         Confirm(v, l)
  PROVE  \/ UNCHANGED <<row, pay>>
         \/ /\ Event(l[1], l[2]) \in Events
            /\ Conclusive(Event(l[1], l[2]))
            /\ row' = [row EXCEPT ![v][Event(l[1], l[2])] = "INITIAL"]
            /\ pay' = [pay EXCEPT ![v][Event(l[1], l[2])] = "execute"]
<1> DEFINE b == l[1]
           p == l[2]
<1>1. b \in Burns /\ p \in Places
  BY DEF Logs
<1>2. SUFFICES ASSUME ~UNCHANGED <<row, pay>>
               PROVE  Conclusive(Event(b, p))
  BY <1>1, EventType DEF Confirm, ProcessEvent
<1>3. mined[b] # Pending /\ mined[b].block = p.block
  BY <1>2 DEF Confirm, MinedWhereLogged
<1>4. mined[b] = p
  BY <1>1, <1>3 DEF BurnTypeOK, TypeOKChain, OneIndexPerBlock
<1>5. Buried(p.block, Confirmations)
  BY DEF Confirm
<1> QED BY <1>3, <1>4, <1>5 DEF Conclusive, Event

LEMMA ActedInit == Init => ActedUpon
BY DEF Init, ActedUpon, NoPayment

LEMMA ActedStep ==
  ASSUME ReorgsAreShallow, OneIndexPerBlock, BurnTypeOK, ActedUpon,
         [Next]_vars
  PROVE  ActedUpon'
<1>1. \A e \in Events : Conclusive(e) => Conclusive(e)'
  BY ConclusiveStays
<1>2. CASE UNCHANGED <<row, pay, signatures, outcome>>
  BY <1>1, <1>2 DEF ActedUpon
<1>3. CASE Chain
  BY <1>2, <1>3 DEF Chain, NextBlock, Burn, Moved, tableVars, networkVars
<1>4. ASSUME NEW v \in Validators, Validator(v)
      PROVE  ActedUpon'
  <2>1. CASE Crash(v)
    <3>1. UNCHANGED <<row, signatures, outcome>>
      BY <2>1 DEF Crash, tableVars, networkVars
    <3>2. pay' = [pay EXCEPT ![v] = NoPayment]
      BY <2>1 DEF Crash
    <3>3. \A u \in Validators, e \in Events :
             pay'[u][e] # "idle" => pay[u][e] # "idle"
      BY <3>2 DEF BurnTypeOK, NoPayment
    <3> QED BY <1>1, <3>1, <3>3 DEF ActedUpon
  <2>2. ASSUME NEW l \in Logs, Confirm(v, l)
        PROVE  ActedUpon'
    <3> DEFINE e == Event(l[1], l[2])
    <3>1. UNCHANGED <<signatures, outcome>>
      BY <2>2 DEF Confirm, networkVars
    <3>2. CASE UNCHANGED <<row, pay>>
      BY <1>2, <3>1, <3>2
    <3>3. CASE /\ e \in Events /\ Conclusive(e)
               /\ row' = [row EXCEPT ![v][e] = "INITIAL"]
               /\ pay' = [pay EXCEPT ![v][e] = "execute"]
      <4> HIDE DEF e
      <4>1. \A u \in Validators, d \in Events :
               row'[u][d] = IF u = v /\ d = e THEN "INITIAL" ELSE row[u][d]
        BY <3>3 DEF BurnTypeOK
      <4>2. \A u \in Validators, d \in Events :
               pay'[u][d] = IF u = v /\ d = e THEN "execute" ELSE pay[u][d]
        BY <3>3 DEF BurnTypeOK
      <4>3. ASSUME NEW u \in Validators, NEW d \in Events
            PROVE  /\ row'[u][d] # NoRow => Conclusive(d)'
                   /\ pay'[u][d] # "idle" => row'[u][d] # NoRow
        <5>1. CASE u = v /\ d = e
          <6>1. Conclusive(d)
            BY <3>3, <5>1
          <6>2. row'[u][d] = "INITIAL"
            BY <4>1, <5>1
          <6> QED BY <1>1, <6>1, <6>2 DEF NoRow
        <5>2. CASE ~(u = v /\ d = e)
          BY <1>1, <4>1, <4>2, <5>2 DEF ActedUpon
        <5> QED BY <5>1, <5>2
      <4>4. ASSUME NEW d \in Events
            PROVE  /\ signatures'[d] # {} => Conclusive(d)'
                   /\ outcome'[d] # "none" => signatures'[d] # {}
        BY <1>1, <3>1 DEF ActedUpon
      <4> QED BY <4>3, <4>4 DEF ActedUpon
    <3> QED BY <2>2, <3>2, <3>3, ConfirmIsConclusive
  <2>3. ASSUME NEW e \in Events, PayRoutine(v, e)
        PROVE  ActedUpon'
    <3>1. pay[v][e] # "idle" /\ row[v][e] # NoRow /\ Conclusive(e)
      BY <2>3, PayFrame DEF ActedUpon
    <3>2. \A u \in Validators, d \in Events :
             row'[u][d] # NoRow <=> row[u][d] # NoRow
      <4>1. \/ UNCHANGED row
            \/ \E s \in Statuses : row' = [row EXCEPT ![v][e] = s]
        BY <2>3, PayFrame DEF Statuses, Settled
      <4>2. CASE UNCHANGED row
        BY <4>2
      <4>3. ASSUME NEW s \in Statuses, row' = [row EXCEPT ![v][e] = s]
            PROVE  \A u \in Validators, d \in Events :
                      row'[u][d] # NoRow <=> row[u][d] # NoRow
        <5>1. s # NoRow
          BY DEF Statuses, NoRow
        <5>2. \A u \in Validators, d \in Events :
                 row'[u][d] = IF u = v /\ d = e THEN s ELSE row[u][d]
          BY <4>3 DEF BurnTypeOK
        <5> QED BY <3>1, <5>1, <5>2
      <4> QED BY <4>1, <4>2, <4>3
    <3>3. \A u \in Validators, d \in Events :
             pay'[u][d] # "idle" => pay[u][d] # "idle"
      <4>1. PICK step \in PaySteps : pay' = [pay EXCEPT ![v][e] = step]
        BY <2>3, PayFrame
      <4> QED BY <3>1, <4>1 DEF BurnTypeOK
    <3>4. \A d \in Events :
             /\ signatures'[d] # {} => signatures[d] # {} \/ d = e
             /\ outcome'[d] # "none" => signatures'[d] # {}
      <4>1. CASE UNCHANGED networkVars
        BY <4>1 DEF ActedUpon, networkVars
      <4>2. CASE Sign(v, e)
        BY <4>2 DEF Sign, ActedUpon, BurnTypeOK
      <4> QED BY <2>3, <4>1, <4>2, PayFrame
    <3> QED BY <1>1, <3>1, <3>2, <3>3, <3>4 DEF ActedUpon
  <2>4. CASE Subscribe(v) \/ SubscriptionBreaks(v)
             \/ \E l \in Logs : DropLog(v, l)
    BY <1>2, <2>4 DEF Subscribe, SubscriptionBreaks, DropLog, tableVars,
                      networkVars
  <2> QED BY <1>4, <2>1, <2>2, <2>3, <2>4 DEF Validator, Goroutine, Failure
<1> QED BY <1>2, <1>3, <1>4 DEF Next, vars, tableVars, networkVars

LEMMA ActedCorrect ==
  ASSUME ReorgsAreShallow, OneIndexPerBlock
  PROVE  Spec => [](BurnTypeOK /\ ActedUpon)
<1>1. Init => BurnTypeOK /\ ActedUpon
  BY TypeInit, ActedInit
<1>2. BurnTypeOK /\ ActedUpon /\ [Next]_vars => (BurnTypeOK /\ ActedUpon)'
  BY TypeStep, ActedStep
<1> QED BY <1>1, <1>2, PTL DEF Spec, Safety

(* Two conclusive events of a burn are one.                                *)
LEMMA ConclusiveIsUnique ==
  ASSUME NEW d \in Events, NEW e \in Events, d.burn = e.burn,
         Conclusive(d), Conclusive(e)
  PROVE  d = e
BY DEF Conclusive, Events

LEMMA PaidAreEqual ==
  ASSUME BurnTypeOK, ActedUpon
  PROVE  PaidOnce
<1> SUFFICES ASSUME NEW b \in Burns, NEW d \in Paid(b), NEW e \in Paid(b)
             PROVE  d = e
  BY DEF PaidOnce
<1>1. /\ d \in Events /\ d.burn = b /\ outcome[d] = "SUCCESS"
      /\ e \in Events /\ e.burn = b /\ outcome[e] = "SUCCESS"
  BY DEF Paid
<1> QED BY <1>1, ConclusiveIsUnique DEF ActedUpon

(* A burn is paid once, whatever the validators, the failures and the      *)
(* reorganisations, as long as those are no deeper than the confirmations  *)
(* and leave a burn its index where they leave it its block number.        *)
(* finding_paid_twice shows that the second condition is needed.           *)
THEOREM PaidOnceUnlessReordered ==
  ASSUME ReorgsAreShallow, OneIndexPerBlock
  PROVE  Spec => []PaidOnce
<1>1. BurnTypeOK /\ ActedUpon => PaidOnce
  BY PaidAreEqual
<1> QED BY <1>1, ActedCorrect, PTL

-----------------------------------------------------------------------------
(* What the network executed it does not take back.                        *)
LEMMA SignOnce ==
  ASSUME BurnTypeOK, NEW v \in Validators, NEW e \in Events, Sign(v, e)
  PROVE  \A d \in Events :
            /\ outcome[d] # "none" => outcome'[d] = outcome[d]
            /\ d # e => outcome'[d] = outcome[d]
BY DEF Sign, BurnTypeOK

LEMMA CompletedStep ==
  ASSUME BurnTypeOK, CompletedIsPaid, [Next]_vars
  PROVE  CompletedIsPaid'
<1>1. CASE UNCHANGED <<row, outcome>>
  BY <1>1 DEF CompletedIsPaid
<1>2. CASE Chain
  BY <1>1, <1>2 DEF Chain, NextBlock, Burn, Moved, tableVars, networkVars
<1>3. ASSUME NEW v \in Validators, Validator(v)
      PROVE  CompletedIsPaid'
  <2>1. ASSUME NEW l \in Logs, Confirm(v, l)
        PROVE  CompletedIsPaid'
    <3> DEFINE e == Event(l[1], l[2])
    <3>1. UNCHANGED outcome
      BY <2>1 DEF Confirm, networkVars
    <3>2. UNCHANGED row \/ row' = [row EXCEPT ![v][e] = "INITIAL"]
      BY <2>1 DEF Confirm, ProcessEvent
    <3> HIDE DEF e
    <3>3. \A u \in Validators, d \in Events :
             row'[u][d] = "COMPLETED" => row[u][d] = "COMPLETED"
      BY <3>2 DEF BurnTypeOK
    <3> QED BY <3>1, <3>3 DEF CompletedIsPaid
  <2>2. ASSUME NEW e \in Events, PayRoutine(v, e)
        PROVE  CompletedIsPaid'
    <3>1. \A d \in Events : outcome[d] # "none" => outcome'[d] = outcome[d]
      BY <2>2, PayFrame, SignOnce DEF networkVars
    <3>2. ASSUME NEW u \in Validators, NEW d \in Events,
                 row'[u][d] = "COMPLETED"
          PROVE  outcome[d] = "SUCCESS"
      <4>1. CASE UNCHANGED row
        BY <3>2, <4>1 DEF CompletedIsPaid
      <4>2. ASSUME NEW s \in {"SUBMITTED", "FAILED"},
                   row' = [row EXCEPT ![v][e] = s]
            PROVE  row[u][d] = "COMPLETED"
        BY <3>2, <4>2 DEF BurnTypeOK
      <4>3. CASE /\ outcome[e] # "none"
                 /\ row' = [row EXCEPT ![v][e] = Settled(outcome[e])]
        <5>1. row[u][d] = "COMPLETED"
              \/ (d = e /\ Settled(outcome[e]) = "COMPLETED")
          BY <3>2, <4>3 DEF BurnTypeOK
        <5> QED BY <5>1 DEF CompletedIsPaid, Settled
      <4> QED BY <2>2, <4>1, <4>2, <4>3, PayFrame DEF CompletedIsPaid
    <3> QED BY <3>1, <3>2 DEF CompletedIsPaid
  <2>3. CASE Subscribe(v) \/ Failure(v)
    BY <1>1, <2>3 DEF Subscribe, Failure, SubscriptionBreaks, Crash, DropLog,
                      tableVars, networkVars
  <2> QED BY <1>3, <2>1, <2>2, <2>3 DEF Validator, Goroutine
<1> QED BY <1>1, <1>2, <1>3 DEF Next, vars, tableVars, networkVars

(* No record of any validator claims a payment the network did not make,   *)
(* whatever the chain does.                                                *)
THEOREM CompletedIsTrue == Spec => []CompletedIsPaid
<1>1. Init => CompletedIsPaid
  <2> SUFFICES ASSUME Init, NEW v \in Validators, NEW e \in Events
               PROVE  row[v][e] # "COMPLETED"
    BY DEF CompletedIsPaid
  <2>1. row[v][e] = NoRow
    BY DEF Init
  <2> QED BY <2>1 DEF NoRow
<1>2. BurnTypeOK /\ CompletedIsPaid /\ [Next]_vars => CompletedIsPaid'
  BY CompletedStep
<1> QED BY <1>1, <1>2, BurnTypeCorrect, PTL DEF Spec, Safety

-----------------------------------------------------------------------------
(* A burn is final exactly where an event of it could be conclusive.       *)
LEMMA FinalGrows ==
  ASSUME ReorgsAreShallow, BurnTypeOK, [Next]_vars
  PROVE  Final \subseteq Final'
<1> SUFFICES ASSUME NEW b \in Final
             PROVE  b \in Final'
  OBVIOUS
<1> DEFINE e == [burn |-> b, index |-> mined[b].index]
<1>1. b \in Burns /\ mined[b] \in Places
  BY DEF Final, BurnTypeOK, TypeOKChain
<1>2. e \in Events /\ Conclusive(e)
  BY <1>1 DEF Events, Indexes, Conclusive, Final
<1>3. ASSUME NEW d \in Events, Conclusive(d)
      PROVE  Conclusive(d)'
  BY <1>3, ConclusiveStays
<1>4. PICK d \in Events : d.burn = b /\ Conclusive(d)
  BY <1>2
<1>5. Conclusive(d)'
  BY <1>3, <1>4
<1> QED BY <1>1, <1>4, <1>5 DEF Conclusive, Final

LEMMA NobodyPaid ==
  ASSUME NEW b \in Burns, Paid(b) = {}
  PROVE  Cardinality(Paid(b)) = 0
BY FS_EmptySet

LEMMA OncePaid ==
  ASSUME NEW e, NEW S, S = {e}
  PROVE  Cardinality(S) = 1
BY FS_Singleton

(* Every step of the validators is a step of the promise.                  *)
LEMMA PromiseStep ==
  ASSUME ReorgsAreShallow, OneIndexPerBlock, BurnTypeOK, ActedUpon,
         [Next]_vars
  PROVE  [Promise!Next]_<<Final, [b \in Burns |-> Cardinality(Paid(b))]>>
<1> DEFINE payments == [b \in Burns |-> Cardinality(Paid(b))]
<1>1. CASE UNCHANGED outcome
  <2>1. UNCHANGED payments
    BY <1>1 DEF Paid
  <2>2. Final' \in SUBSET Burns /\ Final \subseteq Final'
    BY FinalGrows DEF Final
  <2> QED BY <2>1, <2>2 DEF Promise!Next, Promise!Finalise
<1>2. ASSUME NEW v \in Validators, NEW e \in Events, PayRoutine(v, e),
             ~UNCHANGED outcome
      PROVE  Promise!Next \/ UNCHANGED <<Final, payments>>
  <2>1. Sign(v, e) /\ UNCHANGED chainVars
    BY <1>2, PayFrame
       DEF networkVars, PayRoutine, Execute, Submit, ScheduleSign, RecordSubmitted,
           RecordFee, RecordFailed, RecordFailedFee, Settle, SettleFee
  <2>2. UNCHANGED Final
    BY <2>1 DEF Final, chainVars, Buried
  <2>3. PICK o \in {"SUCCESS", "FAILED"} :
           outcome[e] = "none" /\ outcome' = [outcome EXCEPT ![e] = o]
    BY <1>2, <2>1 DEF Sign
  <2>4. \A d \in Events : outcome'[d] = IF d = e THEN o ELSE outcome[d]
    BY <2>3 DEF BurnTypeOK
  <2>5. Conclusive(e) /\ e.burn \in Burns /\ e.burn \in Final
    BY <1>2, PayFrame DEF ActedUpon, Conclusive, Final, Events
  <2>6. CASE o = "FAILED"
    <3>1. \A b \in Burns : Paid(b)' = Paid(b)
      BY <2>3, <2>4, <2>6 DEF Paid
    <3> QED BY <2>2, <3>1
  <2>7. CASE o = "SUCCESS"
    <3>1. Paid(e.burn) = {}
      <4>1. ASSUME NEW d \in Paid(e.burn)
            PROVE  FALSE
        <5>1. d \in Events /\ d.burn = e.burn /\ outcome[d] = "SUCCESS"
          BY DEF Paid
        <5>2. d = e
          BY <2>5, <5>1, ConclusiveIsUnique DEF ActedUpon
        <5> QED BY <2>3, <5>1, <5>2
      <4> QED BY <4>1
    <3>2. Paid(e.burn)' = {e}
      BY <2>4, <2>7, <3>1 DEF Paid
    <3>3. \A b \in Burns : b # e.burn => Paid(b)' = Paid(b)
      BY <2>4 DEF Paid
    <3>4. Cardinality(Paid(e.burn)) = 0
      BY <2>5, <3>1, NobodyPaid
    <3>5. Cardinality(Paid(e.burn)') = 1
      BY <3>2, OncePaid
    <3>6. payments' = [payments EXCEPT ![e.burn] = 1]
      BY <2>5, <3>3, <3>5
    <3> QED BY <2>2, <2>5, <3>4, <3>6 DEF Promise!Next, Promise!Pay
  <2> QED BY <2>6, <2>7
<1>3. CASE Chain
  BY <1>1, <1>3 DEF Chain, NextBlock, Burn, Moved, networkVars
<1>4. ASSUME NEW v \in Validators, Validator(v)
      PROVE  Promise!Next \/ UNCHANGED <<Final, payments>>
  <2>1. UNCHANGED outcome \/ \E e \in Events : PayRoutine(v, e)
    BY <1>4 DEF Validator, Goroutine, Failure, Subscribe, SubscriptionBreaks,
                Crash, DropLog, Confirm, networkVars
  <2> QED BY <1>1, <1>2, <2>1
<1> QED BY <1>1, <1>3, <1>4 DEF Next, vars, networkVars

(* The watchers, confirmations, tables and schedules of any number of      *)
(* validators implement one payment per burn, none of a burn the chain     *)
(* takes back.                                                             *)
THEOREM ValidatorsKeepPromise ==
  ASSUME ReorgsAreShallow, OneIndexPerBlock
  PROVE  Spec => ImplementsOnePayment
<1>1. Init => Promise!Init
  <2> SUFFICES ASSUME Init
               PROVE  Promise!Init
    OBVIOUS
  <2>1. Final = {}
    BY DEF Init, InitChain, Final
  <2>2. \A b \in Burns : Paid(b) = {}
    BY DEF Init, Paid
  <2>3. \A b \in Burns : Cardinality(Paid(b)) = 0
    BY <2>2, NobodyPaid
  <2> QED BY <2>1, <2>3 DEF Promise!Init
<1>2. /\ BurnTypeOK /\ ActedUpon /\ [Next]_vars
      => [Promise!Next]_<<Final, [b \in Burns |-> Cardinality(Paid(b))]>>
  BY PromiseStep
<1> QED BY <1>1, <1>2, ActedCorrect, PTL
        DEF Spec, Safety, ImplementsOnePayment, Promise!Spec
=============================================================================

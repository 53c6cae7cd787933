----------------------------- MODULE MirrorFeed -----------------------------
(***************************************************************************)
(* The two feeds of the mirror node, credits of the bridge account and     *)
(* messages of the topic, in consensus time: the queries of the client     *)
(* (clients/hedera/mirror-node), the recovery's half-open interval and the *)
(* watchers that go on from its end.  TransferPipeline, SignaturePipeline  *)
(* and Recovery model what becomes of an item that was handed over; this   *)
(* module models how the code asks for items: by timestamps it writes as   *)
(* text, one page at a time, of a mirror node that is behind.              *)
(*                                                                         *)
(* A timestamp is a number of nanoseconds.  Base and Digits scale them     *)
(* down: a second has Base ^ Digits nanoseconds, 10 ^ 9 in the code.       *)
(***************************************************************************)
EXTENDS ContractMembers

CONSTANTS
  Base, Digits,   \* nanoseconds are Digits digits
  FirstTime,      \* consensus time when all begins
  MaxTime,        \* bound: consensus time
  MaxSkew,        \* how far time.Now() may be from consensus time
  PageSize        \* items of one answer, when the query sets no limit

ASSUME FeedAssumption ==
  /\ Base \in Nat \ {0, 1} /\ Digits \in Nat \ {0}
  /\ FirstTime \in Nat \ {0}
  /\ MaxTime \in Nat /\ FirstTime <= MaxTime
  /\ MaxSkew \in Nat
  /\ PageSize \in Nat \ {0}

(* A fact about ^ the proofs need.                                         *)
ASSUME PowersArePositive == \A n \in 0..Digits : Base ^ n \in Nat \ {0}

Feeds  == {"account", "topic"}
Times  == FirstTime..MaxTime
Never  == 0               \* timestamp of a status row that does not exist

VARIABLES
  now,        \* consensus time
  imported,   \* the mirror node shows what is before this time
  published,  \* consensus times of the items of each feed
  milestone,  \* rows of table status
  start,      \* `to' of the recovery, where the watchers start
  watcher,    \* where each watcher's loop is
  reached,    \* its milestoneTimestamp
  fetched,    \* messages of the last answer still to be handed over
  handed      \* items handed over since the process came up

mirrorVars == <<now, imported, published>>
feedVars   == <<start, watcher, reached, fetched, handed>>

TypeOKFeed ==
  /\ now \in Times
  /\ imported \in Times /\ imported <= now
  /\ published \in [Feeds -> SUBSET Times]
  /\ milestone \in [Feeds -> Nat]
  /\ start \in Nat
  /\ watcher \in [Feeds -> {"none", "starting", "dead", "poll", "deliver", "save"}]
  /\ reached \in [Feeds -> Nat]
  /\ fetched \in SUBSET Times
  /\ handed \in [Feeds -> SUBSET Times]

InitMirror ==
  /\ now = FirstTime /\ imported = FirstTime
  /\ published = [f \in Feeds |-> {}]

Nothing == [f \in Feeds |-> {}]

InitFeed ==
  /\ start = Never
  /\ watcher = [f \in Feeds |-> "none"]
  /\ reached = [f \in Feeds |-> Never]
  /\ fetched = {}
  /\ handed = Nothing

ResetFeed ==
  /\ start' = Never
  /\ watcher' = [f \in Feeds |-> "none"]
  /\ reached' = [f \in Feeds |-> Never]
  /\ fetched' = {}
  /\ handed' = Nothing

-----------------------------------------------------------------------------
(* Time passes; an item has a consensus time of its own.                   *)
Tick ==
  /\ now < MaxTime
  /\ now' = now + 1
  /\ UNCHANGED <<imported, published, happened>>

Publish(f) ==
  /\ now < MaxTime
  /\ Happens
  /\ published' = [published EXCEPT ![f] = @ \cup {now}]
  /\ now' = now + 1
  /\ UNCHANGED imported

Import ==
  /\ \E t \in (imported + 1)..now : imported' = t
  /\ UNCHANGED <<now, published, happened>>

-----------------------------------------------------------------------------
NanosInSecond == Base ^ Digits

(* String writes seconds and nanoseconds without leading zeros; the mirror *)
(* node takes what is behind the point as a decimal fraction.  FromString  *)
(* is exact: the mirror node writes all digits.                            *)
Written(nano) == 1 + Cardinality({d \in 1..(Digits - 1) : nano >= Base ^ d})
AsRead(t) ==
  (t \div NanosInSecond) * NanosInSecond
    + (t % NanosInSecond) * Base ^ (Digits - Written(t % NanosInSecond))

(* Fault: the newest items first.                                          *)
NewestPage(items) ==
  {t \in items : Cardinality({u \in items : u > t}) < PageSize}

Page(items) ==
  {t \in items : Cardinality({u \in items : u < t}) < PageSize}

(* GetAccountCreditTransactionsAfterTimestamp, GetMessagesAfterTimestamp   *)
After(f, from) ==
  Page({t \in published[f] : t < imported /\ t > AsRead(from)})

(* GetAccountCreditTransactionsBetween, GetMessagesForTopicBetween         *)
Between(f, from, to) == {t \in After(f, from) : t < to}

-----------------------------------------------------------------------------
(* ComputeIntervals: the configured timestamp, or the milestones.          *)
From(f) == IF StartTimestamp > 0 THEN StartTimestamp ELSE milestone[f]

(* main reads its clock, and skips the recovery without a timestamp for    *)
(* the transfers.                                                          *)
ComputeIntervals ==
  /\ phase = "intervals"
  /\ start' \in {t \in (now - MaxSkew)..(now + MaxSkew) : t > 0}
  /\ Goto(IF From("account") <= 0 THEN "pairs" ELSE "transfers")
  /\ Ok
  /\ UNCHANGED <<milestone, watcher, reached, fetched, handed>>

HandOver(f, items) == handed' = [handed EXCEPT ![f] = @ \cup items]

RecoverTransfers ==
  /\ phase = "transfers"
  /\ HandOver("account", Between("account", From("account"), start))
  /\ Goto("messages")
  /\ Ok
  /\ UNCHANGED <<milestone, start, watcher, reached, fetched>>

(* The HTTP status of the topic's answer is not looked at: a refusal with  *)
(* a JSON body is an answer without messages.                              *)
RecoverMessages ==
  /\ phase = "messages"
  /\ \/ Ok /\ HandOver("topic", Between("topic", From("topic"), start))
     \/ Fault /\ UNCHANGED handed
  /\ Goto("unfinished")
  /\ UNCHANGED <<milestone, start, watcher, reached, fetched>>

(* The records that were left unfinished are the subject of Recovery.      *)
ProcessUnfinished ==
  /\ phase = "unfinished"
  /\ Goto("pairs")
  /\ Ok
  /\ UNCHANGED <<milestone, feedVars>>

(* initializeServerPairs, Server.Run                                       *)
StartPairs ==
  /\ phase = "pairs"
  /\ watcher' = [f \in Feeds |-> "starting"]
  /\ Goto("serving")
  /\ Ok
  /\ UNCHANGED <<milestone, start, reached, fetched, handed>>

-----------------------------------------------------------------------------
(* Watch: AccountExists or TopicExists says no, or the milestone is set to *)
(* the end of the recovery and read again.                                 *)
StartWatcher(f) ==
  /\ watcher[f] = "starting"
  /\ \/ /\ Fault
        /\ watcher' = [watcher EXCEPT ![f] = "dead"]
        /\ UNCHANGED <<milestone, reached>>
     \/ /\ Ok
        /\ milestone' = [milestone EXCEPT ![f] = start]
        /\ reached' = [reached EXCEPT ![f] = start]
        /\ watcher' = [watcher EXCEPT ![f] = "poll"]
  /\ UNCHANGED <<phase, start, fetched, handed>>

(* A query that fails starts the loop anew, from the saved milestone.      *)
PollAgain(f) ==
  /\ watcher[f] = "poll"
  /\ Fault
  /\ reached' = [reached EXCEPT ![f] = milestone[f]]
  /\ UNCHANGED <<phase, milestone, start, watcher, fetched, handed>>

(* Fault: the watcher goes on from the time of the poll.                   *)
PollUntilNow ==
  /\ watcher["account"] = "poll"
  /\ LET answer == After("account", reached["account"])
     IN /\ answer # {}
        /\ HandOver("account", answer)
        /\ reached' = [reached EXCEPT !["account"] = now]
  /\ watcher' = [watcher EXCEPT !["account"] = "save"]
  /\ Ok
  /\ UNCHANGED <<phase, milestone, start, fetched>>

(* The last of an answer, which is in ascending order.                     *)
IsLatest(last, answer) == \A t \in answer : t <= last

(* The transfer watcher hands the whole answer over, then saves the        *)
(* timestamp of its last transaction.                                      *)
PollTransfers ==
  /\ watcher["account"] = "poll"
  /\ LET answer == After("account", reached["account"])
     IN \E last \in answer :
          /\ IsLatest(last, answer)
          /\ HandOver("account", answer)
          /\ reached' = [reached EXCEPT !["account"] = last]
  /\ watcher' = [watcher EXCEPT !["account"] = "save"]
  /\ Ok
  /\ UNCHANGED <<phase, milestone, start, fetched>>

(* The topic watcher hands over and saves message by message.              *)
PollMessages ==
  /\ watcher["topic"] = "poll"
  /\ fetched' = After("topic", reached["topic"])
  /\ fetched' # {}
  /\ watcher' = [watcher EXCEPT !["topic"] = "deliver"]
  /\ Ok
  /\ UNCHANGED <<phase, milestone, start, reached, handed>>

DeliverMessage ==
  /\ watcher["topic"] = "deliver"
  /\ \E next \in fetched :
       /\ \A t \in fetched : next <= t
       /\ HandOver("topic", {next})
       /\ reached' = [reached EXCEPT !["topic"] = next]
       /\ fetched' = fetched \ {next}
  /\ watcher' = [watcher EXCEPT !["topic"] = "save"]
  /\ Ok
  /\ UNCHANGED <<phase, milestone, start>>

(* Fault: the timestamp stays in memory.                                   *)
SaveNothing(f) ==
  /\ watcher[f] = "save"
  /\ watcher' = [watcher EXCEPT
                   ![f] = IF f = "topic" /\ fetched # {} THEN "deliver" ELSE "poll"]
  /\ Ok
  /\ UNCHANGED <<phase, milestone, start, reached, fetched, handed>>

SaveMilestone(f) ==
  /\ watcher[f] = "save"
  /\ milestone' = [milestone EXCEPT ![f] = reached[f]]
  /\ watcher' = [watcher EXCEPT
                   ![f] = IF f = "topic" /\ fetched # {} THEN "deliver" ELSE "poll"]
  /\ Ok
  /\ UNCHANGED <<phase, start, reached, fetched, handed>>

Watcher(f) ==
  \/ StartWatcher(f)
  \/ f = "account" /\ PollTransfers
  \/ f = "topic" /\ (PollMessages \/ DeliverMessage)
  \/ SaveMilestone(f)

-----------------------------------------------------------------------------
Watching(f) == watcher[f] \in {"poll", "deliver", "save"}

(* Whoever is asked for what is after m does not answer with these.        *)
Shadowed(f, t) ==
  \E m \in handed[f] \cup {start} : m < t /\ t <= AsRead(m)

(* Between the end of the recovery and the watcher's milestone nothing is  *)
(* left out: an item passed over is never asked for again.  The comments   *)
(* of the client say so of its queries: "returns all Topic messages after  *)
(* the given timestamp".                                                   *)
NothingSkipped ==
  \A f \in Feeds : Watching(f) =>
    \A t \in published[f] : start < t /\ t <= reached[f] => t \in handed[f]

(* What holds instead: paging, the mirror node's lag, failed queries and   *)
(* the pace of the two loops lose nothing; only the text of a timestamp    *)
(* does.                                                                   *)
OnlyShadowed ==
  \A f \in Feeds : Watching(f) =>
    \A t \in published[f] :
      start < t /\ t <= reached[f] => t \in handed[f] \/ Shadowed(f, t)

(* What the next query can answer was not handed over before in the life   *)
(* of the process, neither by the recovery nor by a loop that began anew.  *)
NothingTwice ==
  /\ \A f \in Feeds : Watching(f) => After(f, reached[f]) \cap handed[f] = {}
  /\ fetched \cap handed["topic"] = {}
=============================================================================

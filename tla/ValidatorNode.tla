--------------------------- MODULE ValidatorNode ---------------------------
(***************************************************************************)
(* One validator node for the Hedera-to-EVM direction: the ledger around   *)
(* it, its database, its two pipelines and its recovery, and what they     *)
(* promise together.                                                       *)
(***************************************************************************)
EXTENDS Recovery

vars == <<ledgerVars, storeVars, processVars, transferVars, signatureVars,
          recoveryVars>>

Init ==
  /\ InitLedger
  /\ InitStore
  /\ InitTransfer
  /\ InitSignature
  /\ InitRecovery

EnvironmentNext ==
  /\ Environment
  /\ UNCHANGED <<storeVars, processVars, transferVars, signatureVars,
                 recoveryVars>>

TransferNext  == TransferStep /\ UNCHANGED <<signatureVars, recoveryVars>>
SignatureNext == SignatureStep /\ UNCHANGED recoveryVars

Next ==
  \/ EnvironmentNext
  \/ TransferNext
  \/ SignatureNext
  \/ Main
  \/ Crash

Spec == Init /\ [][Next]_vars

(* While some goroutine of the process can go on, one of them does: no     *)
(* more than the Go scheduler gives, if calls return and a supervisor      *)
(* restarts a dead process.  It is enough, since the process has only      *)
(* finitely much to do between two steps of its environment.  Nothing      *)
(* obliges users, peers or the network.                                    *)
Fairness == WF_vars(TransferNext \/ SignatureNext \/ Main)

FairSpec == Spec /\ Fairness

-----------------------------------------------------------------------------
(* Type invariant.                                                         *)
TypeOK ==
  /\ TypeOKLedger
  /\ TypeOKStore
  /\ TypeOKTransfer
  /\ TypeOKSignature
  /\ TypeOKRecovery

OwnSignature(t) == AgreedSignature(t, Self)
AgreedMessagesOf(t) == {m \in messages : m.tx = t /\ m.auth = "agreed"}

(* A stored signature was published on the topic by a member and belongs   *)
(* to a transfer that has a record, whichever of the two writers stored it *)
(* (handler or recovery) and whatever crashed in between.                  *)
StoredIsPublished ==
  \A m \in messages :
    /\ OnLedger(m)
    /\ m.signer \in Members
    /\ status[m.tx] # NoRow

(* A transfer is COMPLETED only with the signatures of a majority of the   *)
(* members over the content this node agrees with.  This is what           *)
(* handleSignatureMessage checks in four separate database calls.          *)
CompletedByMajority ==
  \A t \in Transfers :
    status[t] = "COMPLETED" =>
      Cardinality(AgreedMessagesOf(t)) >= RequiredSigCount

(* Whoever reads COMPLETED in the database gets the transfer from the REST *)
(* API, with a fee and a majority: the handler completes nothing before    *)
(* the fee goroutine has left a row.                                       *)
CompletedIsServed ==
  \A t \in Transfers : status[t] = "COMPLETED" => TransferDataMajority(t)

(* The record says SIGNATURE_SUBMITTED only when the signature is on the   *)
(* topic, across crashes and lost receipts.                                *)
RecordedIsSubmitted ==
  \A t \in Transfers :
    signatureMsgStatus[t] # "" => OnLedger(OwnSignature(t))

(* A fee row tells the truth about its scheduled transaction.              *)
FeeIsTruthful ==
  \A f \in fees :
    f.id # Blank =>
      /\ f.id = f.tx
      /\ scheduled[f.tx] # "none"
      /\ f.status = "COMPLETED" => scheduled[f.tx] = "SUCCESS"
      /\ f.status = "FAILED" => scheduled[f.tx] = "FAILED"

(* The statuses COMPLETED and FAILED of a fee row are terminal, though a   *)
(* restart runs the fee goroutine of the same transfer again.              *)
FeeIsTerminal ==
  [][\A f \in fees : f.status # "SUBMITTED" => f \in fees']_vars

(* Once the submission is recorded the signature is never sent again: a    *)
(* restart submits only what it cannot know to be submitted.               *)
SubmittedOnce ==
  [][\A t \in Transfers :
       signatureMsgStatus[t] # "" =>
         CopiesOf(OwnSignature(t))' = CopiesOf(OwnSignature(t))]_vars

(* COMPLETED is terminal once the node's own submission is recorded: the   *)
(* only statement that can take it back runs once.                         *)
CompletedStays ==
  [][\A t \in Transfers :
       status[t] = "COMPLETED" /\ signatureMsgStatus[t] # ""
         => status'[t] = "COMPLETED"]_vars

(* The node implements SignatureQuorum: its two writers of signatures and  *)
(* its two writers of the status, interleaved with restarts, amount to     *)
(* collecting, completing and one withdrawal.                              *)
Quorum == INSTANCE SignatureQuorum WITH
  published <- {ts \in Transfers \X Members :
                  OnLedger(AgreedSignature(ts[1], ts[2]))},
  collected <- {ts \in Transfers \X Members :
                  AgreedSignature(ts[1], ts[2]) \in messages},
  recorded  <- {t \in Transfers : signatureMsgStatus[t] # ""},
  completed <- {t \in Transfers : status[t] = "COMPLETED"}

ImplementsQuorum == Quorum!QSpec

-----------------------------------------------------------------------------
(* The inductive invariant behind StoredIsPublished, RecordedIsSubmitted   *)
(* and CompletedIsServed: what the goroutines know of ledger and tables.   *)
BacklogOnLedger ==
  /\ phase = "transfers" => backlog \subseteq DepositsAfter(0)
  /\ phase = "messages"  => backlog \subseteq SignaturesAfter(0)

HandlersOnLedger ==
  \A i \in Positions :
    /\ handler[i] # "idle" => i \in SignaturesAfter(0)
    /\ handler[i] = "create" => /\ ledger[i].signer \in Members
                               /\ status[ledger[i].tx] # NoRow

SubmissionOnLedger ==
  \A t \in Transfers :
    flow[t] = "record" \/ t \in sigWait => OnLedger(OwnSignature(t))

(* What a handler has seen of the tables, nobody takes back.               *)
HandlersKnowTransfer ==
  /\ IsFiniteSet(messages)
  /\ \A i \in Positions :
       /\ handler[i] \in {"create", "count", "complete"}
            => TransferKnown(ledger[i].tx)
       /\ handler[i] = "complete" => HasMajority(ledger[i].tx)

Inductive ==
  /\ TypeOK
  /\ BacklogOnLedger
  /\ HandlersOnLedger
  /\ SubmissionOnLedger
  /\ HandlersKnowTransfer
  /\ StoredIsPublished
  /\ RecordedIsSubmitted
  /\ CompletedIsServed

-----------------------------------------------------------------------------
(* A stored signature over other content than the node's own was on the    *)
(* topic before the process started, where only recovery stores it: what   *)
(* the watcher delivers, the handlers compare (SanityCheckSignature).      *)
ForeignIsRecovered ==
  \A m \in messages :
    m.auth = "agreed" \/ \E i \in SignaturesAfter(0) :
                           i <= startTimestamp /\ ledger[i] = m

(* Without failed calls no deposit the watcher has passed is dropped: it   *)
(* has a record or a goroutine that still works on it.                     *)
DepositsInHand ==
  txWatch = "on" =>
    \A i \in DepositsAfter(startTimestamp) :
      i <= txSeen => \/ status[ledger[i].deposit] # NoRow
                     \/ flow[ledger[i].deposit] # "idle"

(* The same for the members' signatures the topic watcher has passed.      *)
SignaturesInHand ==
  msgWatch = "on" =>
    \A i \in SignaturesAfter(startTimestamp) :
      i <= msgSeen /\ ledger[i].auth = "agreed" /\ IsMember(ledger[i].signer)
        => ledger[i] \in messages \/ handler[i] # "idle"

AfterStart(item) ==
  \E i \in (startTimestamp + 1)..Present : ledger[i] = item

(* Without failed calls, a deposit made after the start whose majority     *)
(* signs after the start is completed, unless the process dies, though     *)
(* every handler counts at its own pace and may find less than a majority. *)
(* (The report may be withdrawn again: see CompletedIsTerminal.)           *)
MajorityCompletes ==
  \A t \in Transfers :
    (/\ phase = "running"
     /\ AfterStart([deposit |-> t])
     /\ Cardinality({s \in Members : AfterStart(AgreedSignature(t, s))})
          >= RequiredSigCount
     /\ ~HasMajority(t))
      ~> status[t] = "COMPLETED" \/ phase = "down"

(* A recovery interval configured from the beginning leaves no gap: when   *)
(* the watchers start, every deposit before their start has a record.      *)
RecoveredDeposits ==
  phase \in {"messages", "unfinished", "running"} =>
    \A i \in DepositsAfter(0) :
      i <= startTimestamp => status[ledger[i].deposit] # NoRow

(* And every signature a member published before it is stored.             *)
RecoveredSignatures ==
  phase \in {"unfinished", "running"} =>
    \A i \in SignaturesAfter(0) :
      i <= startTimestamp /\ IsMember(ledger[i].signer)
        => ledger[i] \in messages

(* A transfer with a record ends up with this node's signature on the      *)
(* topic or completed without it, though the process may die at any point  *)
(* between the record and the submission.                                  *)
RecordedIsFinished ==
  \A t \in Transfers :
    status[t] # NoRow ~> \/ OnLedger(OwnSignature(t))
                         \/ status[t] = "COMPLETED"

-----------------------------------------------------------------------------
(* What a comment of the repository says and the code does not do.         *)

(* process/recovery/recovery.go: topicMessagesRecovery "performs sanity    *)
(* checks on the missed messages and persists them", so that a stored      *)
(* signature, whoever stored it, is over the content this node agrees      *)
(* with.  It compares nothing.                                             *)
StoredIsAgreed == \A m \in messages : m.auth = "agreed"

(* entity/transfer/status.go: COMPLETED "is a terminal status".            *)
CompletedIsTerminal ==
  [][\A t \in Transfers :
       status[t] = "COMPLETED" => status'[t] = "COMPLETED"]_vars
=============================================================================

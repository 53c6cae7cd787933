-------------------------- MODULE ConsensusLedger --------------------------
(***************************************************************************)
(* What one validator sees of Hedera.  The consensus service orders the    *)
(* deposits to the bridge account and the authorisation signatures sent to *)
(* the bridge topic in one ledger; the consensus timestamp of an item is   *)
(* its position.  Scheduled fee transactions are kept apart: the code      *)
(* learns their fate by polling, never through the two watchers.           *)
(*                                                                         *)
(* Nothing in this module is code of the repository.  It is modelled from  *)
(* what the validator sends and reads (clients/hedera and mirror-node).    *)
(***************************************************************************)
EXTENDS Integers, Sequences, FiniteSets

CONSTANTS
  Transfers,      \* deposits a user may make: Hedera transaction ids
  Signers,        \* keys that write to the topic, this validator's included
  Members,        \* signers the bridge's member list names
  Self,           \* this validator
  Misconfigured,  \* members that run with another fee_percentage
  MaxCopies,      \* bound: how often a peer may publish the same signature
  MaxLedger       \* bound: length of the ledger

ASSUME SignersAssumption ==
  /\ Self \in Members
  /\ Members \subseteq Signers
  /\ IsFiniteSet(Members)
  /\ Misconfigured \subseteq Members \ {Self}

ASSUME BoundsAssumption == MaxCopies \in Nat /\ MaxLedger \in Nat

VARIABLES
  ledger,     \* sequence of deposits and signatures, in consensus order
  scheduled   \* fate of the scheduled fee transaction of each transfer

ledgerVars == <<ledger, scheduled>>

(* "agreed": the content (receiver, router, asset, amount less fee) this   *)
(* validator computes for the deposit.  "other": what a member with        *)
(* another fee percentage computes for the same deposit.                   *)
Deposits   == [deposit : Transfers]
Signatures == [tx : Transfers, signer : Signers, auth : {"agreed", "other"}]
Schedules  == {"none", "pending", "SUCCESS", "FAILED"}

AgreedSignature(t, s) == [tx |-> t, signer |-> s, auth |-> "agreed"]

Present == Len(ledger)
DepositsAfter(from) ==
  {i \in (from + 1)..Present : ledger[i] \in Deposits}
SignaturesAfter(from) ==
  {i \in (from + 1)..Present : ledger[i] \in Signatures}

OnLedger(item) == \E i \in 1..Len(ledger) : ledger[i] = item
CopiesOf(item) == Cardinality({i \in 1..Len(ledger) : ledger[i] = item})
Deposited(t)   == OnLedger([deposit |-> t])

TypeOKLedger ==
  /\ ledger \in Seq(Deposits \cup Signatures)
  /\ scheduled \in [Transfers -> Schedules]

InitLedger ==
  /\ ledger = <<>>
  /\ scheduled = [t \in Transfers |-> "none"]

Reach(item) == ledger' = Append(ledger, item)

-----------------------------------------------------------------------------
(* A user transfers an asset to the bridge account.                        *)
Deposit(t) ==
  /\ Present < MaxLedger
  /\ ~Deposited(t)
  /\ Reach([deposit |-> t])
  /\ UNCHANGED scheduled

(* Another signer publishes its authorisation of t.  A member signs only   *)
(* what was deposited; a restarted peer publishes the same bytes again     *)
(* (its signature is deterministic).                                       *)
Publish(t, s) ==
  LET m == [tx |-> t, signer |-> s,
            auth |-> IF s \in Misconfigured THEN "other" ELSE "agreed"]
  IN /\ s # Self
     /\ Present < MaxLedger
     /\ s \in Members => Deposited(t)
     /\ CopiesOf(m) < MaxCopies
     /\ Reach(m)
     /\ UNCHANGED scheduled

(* The network executes a scheduled transaction once enough members        *)
(* signed it; the transfer in it succeeds or fails.                        *)
Settle(t) ==
  /\ scheduled[t] = "pending"
  /\ \E outcome \in {"SUCCESS", "FAILED"} :
        scheduled' = [scheduled EXCEPT ![t] = outcome]
  /\ UNCHANGED ledger

Environment ==
  \/ \E t \in Transfers : Deposit(t)
  \/ \E t \in Transfers, s \in Signers : Publish(t, s)
  \/ \E t \in Transfers : Settle(t)
=============================================================================

-------------------------- MODULE SignatureQuorum --------------------------
(***************************************************************************)
(* What a validator promises about the signatures of one deposit after the *)
(* other, without watchers, handlers, tables or restarts: it collects      *)
(* signatures that members published, reports a transfer as completed once *)
(* it holds those of a quorum, never loses one, and withdraws the report   *)
(* at most once, when it records its own signature.                        *)
(***************************************************************************)
EXTENDS Integers, FiniteSets

CONSTANTS Transfers, Members, Self

VARIABLES
  published,   \* pairs <<t, s>>: member s published its signature of t
  collected,   \* those the validator holds
  recorded,    \* transfers whose own signature it recorded as published
  completed    \* transfers it reports as completed

quorumVars == <<published, collected, recorded, completed>>

QuorumSize == (Cardinality(Members) \div 2) + 1

SignersOf(pairs, t) == {s \in Members : <<t, s>> \in pairs}

QInit ==
  /\ published = {}
  /\ collected = {}
  /\ recorded = {}
  /\ completed = {}

QPublish(t, s) ==
  /\ published' = published \cup {<<t, s>>}
  /\ UNCHANGED <<collected, recorded, completed>>

QCollect(t, s) ==
  /\ <<t, s>> \in published
  /\ collected' = collected \cup {<<t, s>>}
  /\ UNCHANGED <<published, recorded, completed>>

QRecord(t) ==
  /\ t \notin recorded
  /\ <<t, Self>> \in published
  /\ recorded' = recorded \cup {t}
  /\ completed' = completed \ {t}
  /\ UNCHANGED <<published, collected>>

QComplete(t) ==
  /\ Cardinality(SignersOf(collected, t)) >= QuorumSize
  /\ completed' = completed \cup {t}
  /\ UNCHANGED <<published, collected, recorded>>

QNext ==
  \E t \in Transfers :
    \/ \E s \in Members : QPublish(t, s) \/ QCollect(t, s)
    \/ QRecord(t)
    \/ QComplete(t)

QSpec == QInit /\ [][QNext]_quorumVars
=============================================================================

-------------------------- MODULE ValidatorProcess --------------------------
(***************************************************************************)
(* One validator process from start to death and over again (cmd/main.go): *)
(* the phases of Startup with the member list of ContractMembers and the   *)
(* feeds of MirrorFeed, the listener of the member list running beside the *)
(* recovery and the watchers.                                              *)
(***************************************************************************)
EXTENDS MirrorFeed

vars == <<startupVars, contractVars, memberVars, mirrorVars, milestone,
          feedVars>>

ProcessTypeOK == TypeOKStartup /\ TypeOKMembers /\ TypeOKFeed

Init ==
  /\ InitStartup /\ InitContract /\ InitMembers /\ InitMirror /\ InitFeed
  /\ milestone = [f \in Feeds |-> Never]

Unfed      == UNCHANGED <<milestone, feedVars>>
Quiet      == UNCHANGED <<contractVars, mirrorVars>>
SameMembers == UNCHANGED memberVars

-----------------------------------------------------------------------------
Contract ==
  /\ UpdateMember
  /\ UNCHANGED <<startupVars, mirrorVars>> /\ Unfed

Hedera ==
  /\ Tick \/ \E f \in Feeds : Publish(f)
  /\ UNCHANGED <<startupVars, list>> /\ SameMembers /\ Unfed

MirrorNode ==
  /\ Import
  /\ UNCHANGED <<startupVars, list>> /\ SameMembers /\ Unfed

(* Death of the process, or log.Fatal in whichever goroutine.              *)
Die ==
  /\ Up
  /\ Fault \/ (EntryGone /\ Ok)
  /\ Fatal
  /\ ResetMembers /\ ResetFeed
  /\ Quiet /\ UNCHANGED milestone

AfterMembers == IF RestApiOnly THEN "serving" ELSE "intervals"

Main ==
  /\ \/ /\ LoadAndInit \/ PrepareClients \/ NewDatabase \/ ValidateContract
        /\ SameMembers /\ Unfed
     \/ (FirstRefresh(AfterMembers) \/ ReadFirst(AfterMembers)) /\ Unfed
     \/ /\ \/ ComputeIntervals \/ RecoverTransfers \/ RecoverMessages
           \/ ProcessUnfinished \/ StartPairs
        /\ SameMembers
  /\ Quiet

Members == Listener /\ Quiet /\ Unfed

Broken == ConnectionBreaks /\ Quiet /\ Unfed

Watch(f) == Watcher(f) /\ SameMembers /\ Quiet

Repoll(f) == PollAgain(f) /\ SameMembers /\ Quiet

Next ==
  \/ Contract \/ Hedera \/ MirrorNode
  \/ Die \/ Main \/ Members \/ Broken
  \/ \E f \in Feeds : Watch(f) \/ Repoll(f)

(* The supervisor restarts the process and main goes on, every goroutine   *)
(* is scheduled, and the mirror node imports what reached consensus.       *)
Fairness ==
  /\ WF_vars(Main)
  /\ WF_vars(Members)
  /\ WF_vars(Die /\ EntryGone /\ Ok)
  /\ \A f \in Feeds : WF_vars(Watch(f))
  /\ WF_vars(MirrorNode)

Safety == Init /\ [][Next]_vars
Spec   == Safety /\ Fairness

-----------------------------------------------------------------------------
(* Whatever fails, the process gets to its REST API and its watchers.      *)
ComesUp == []<>(phase = "serving")

(* The listener of the member list catches up with the contract, beside    *)
(* the recovery and the watchers, unless it never heard of a change.       *)
MembersCatchUp == []<>(Up => members = list \/ missed)

(* Every item after the start of a watcher is handed over.                 *)
FeedsCatchUp ==
  \A f \in Feeds :
    []<>(Watching(f) =>
           \A t \in published[f] :
             start < t => t \in handed[f] \/ Shadowed(f, t))
=============================================================================

-------------------------- MODULE ContractMembers ---------------------------
(***************************************************************************)
(* The member list of the Router contract and the copy the contracts       *)
(* service keeps of it (app/services/contracts).  The copy is read entry   *)
(* by entry, at the start and after every MemberUpdated event; the         *)
(* listener subscribes after the first reading.  Events are handled one    *)
(* after the other by the listener's goroutine.                            *)
(*                                                                         *)
(* The contract keeps an enumerable set: a removed entry is replaced by    *)
(* the last one.                                                           *)
(***************************************************************************)
EXTENDS Startup

CONSTANTS
  Addresses,      \* who may be a member of the bridge
  FirstMembers,   \* the list at the beginning
  MaxEvents       \* bound: changes of the list and items of the feeds

ASSUME MembersAssumption ==
  /\ FirstMembers \in Seq(Addresses)
  /\ MaxEvents \in Nat

VARIABLES
  list,       \* the contract's members
  happened,   \* events of the environment so far
  members,    \* Service.members
  refresh,    \* updateMembers: the count it was told and what it has read
  listener,   \* listenForMemberUpdatedEvent and its subscription
  updates,    \* events delivered to the subscription and not handled
  missed      \* the list changed unheard since the last reading began

contractVars == <<list, happened>>
memberVars   == <<members, refresh, listener, updates, missed>>

NoRefresh == [count |-> -1, read |-> <<>>]

TypeOKMembers ==
  /\ list \in Seq(Addresses)
  /\ happened \in 0..MaxEvents
  /\ members \in Seq(Addresses)
  /\ refresh \in [count : Int, read : Seq(Addresses)]
  /\ listener \in {"none", "starting", "on", "broken"}
  /\ updates \in Nat
  /\ missed \in BOOLEAN

InitContract == list = FirstMembers /\ happened = 0

InitMembers ==
  /\ members = <<>>
  /\ refresh = NoRefresh
  /\ listener = "none"
  /\ updates = 0
  /\ missed = FALSE

ResetMembers ==
  /\ members' = <<>>
  /\ refresh' = NoRefresh
  /\ listener' = "none"
  /\ updates' = 0
  /\ missed' = FALSE

Happens == happened < MaxEvents /\ happened' = happened + 1

-----------------------------------------------------------------------------
(* updateMember, a transaction of the validators' multisig; the contract   *)
(* emits MemberUpdated.                                                    *)
Emit ==
  IF listener = "on"
  THEN updates' = updates + 1 /\ UNCHANGED missed
  ELSE missed' = TRUE /\ UNCHANGED updates

AddMember(a) ==
  /\ a \notin Range(list)
  /\ Happens
  /\ list' = Append(list, a)
  /\ Emit
  /\ UNCHANGED <<members, refresh, listener>>

RemoveMember(i) ==
  /\ Happens
  /\ list' = SubSeq([list EXCEPT ![i] = list[Len(list)]], 1, Len(list) - 1)
  /\ Emit
  /\ UNCHANGED <<members, refresh, listener>>

UpdateMember ==
  \/ \E a \in Addresses : AddMember(a)
  \/ \E i \in DOMAIN list : RemoveMember(i)

-----------------------------------------------------------------------------
MembersCount == Len(list)
MemberAt(i)  == list[i + 1]     \* reverts for an index that is none

(* updateMembers begins: the count.  An empty list is read at once.        *)
BeginRefresh ==
  /\ missed' = FALSE
  /\ IF MembersCount = 0
     THEN members' = <<>> /\ UNCHANGED refresh
     ELSE /\ refresh' = [count |-> MembersCount, read |-> <<>>]
          /\ UNCHANGED members

(* Fault: the last entry is forgotten.                                     *)
ReadEntryButLast ==
  LET read == Append(refresh.read, MemberAt(Len(refresh.read)))
  IN IF Len(read) = refresh.count
     THEN members' = refresh.read /\ refresh' = NoRefresh
     ELSE refresh' = [refresh EXCEPT !.read = read] /\ UNCHANGED members

(* The next entry; with the last one the copy is replaced.                 *)
ReadEntry ==
  LET read == Append(refresh.read, MemberAt(Len(refresh.read)))
  IN IF Len(read) = refresh.count
     THEN members' = read /\ refresh' = NoRefresh
     ELSE refresh' = [refresh EXCEPT !.read = read] /\ UNCHANGED members

EntryThere == Len(refresh.read) < MembersCount

(* The start: main reads the list, and only then starts the listener.      *)
FirstRefresh(next) ==
  /\ phase = "members" /\ refresh = NoRefresh
  /\ Ok
  /\ BeginRefresh
  /\ IF MembersCount = 0 THEN Goto(next) /\ listener' = "starting"
     ELSE UNCHANGED <<phase, listener>>
  /\ UNCHANGED updates

ReadFirst(next) ==
  /\ phase = "members" /\ refresh # NoRefresh
  /\ EntryThere
  /\ Ok
  /\ ReadEntry
  /\ IF refresh' = NoRefresh THEN Goto(next) /\ listener' = "starting"
     ELSE UNCHANGED <<phase, listener>>
  /\ UNCHANGED <<updates, missed>>

(* WatchMemberUpdated.                                                     *)
SubscribeMembers ==
  /\ listener = "starting"
  /\ Ok
  /\ listener' = "on"
  /\ UNCHANGED <<phase, members, refresh, updates, missed>>

(* Faults: the event is taken and the list not read; the list is read      *)
(* without an event.                                                       *)
IgnoreUpdate ==
  /\ listener \in {"on", "broken"} /\ refresh = NoRefresh
  /\ updates > 0
  /\ Ok
  /\ updates' = updates - 1
  /\ UNCHANGED <<phase, listener, members, refresh, missed>>

ReadUnasked ==
  /\ listener \in {"on", "broken"} /\ refresh = NoRefresh
  /\ Ok
  /\ updates' = updates - 1
  /\ BeginRefresh
  /\ UNCHANGED <<phase, listener>>

HandleUpdate ==
  /\ listener \in {"on", "broken"} /\ refresh = NoRefresh
  /\ updates > 0
  /\ Ok
  /\ updates' = updates - 1
  /\ BeginRefresh
  /\ UNCHANGED <<phase, listener>>

ReadNext ==
  /\ listener \in {"on", "broken"} /\ refresh # NoRefresh
  /\ EntryThere
  /\ Ok
  /\ ReadEntry
  /\ UNCHANGED <<phase, listener, updates, missed>>

(* The subscription breaks; the listener notices between two events and    *)
(* subscribes again.  What was delivered and not handled is lost, and the  *)
(* list is not read again.                                                 *)
ConnectionBreaks ==
  /\ listener = "on"
  /\ Fault
  /\ listener' = "broken"
  /\ UNCHANGED <<phase, members, refresh, updates, missed>>

ListenAgain ==
  /\ listener = "broken" /\ refresh = NoRefresh
  /\ Ok
  /\ listener' = "starting"
  /\ updates' = 0
  /\ missed' = (missed \/ updates > 0)
  /\ UNCHANGED <<phase, members, refresh>>

(* An entry that is gone when it is asked for: the call reverts, and       *)
(* updateMembers calls log.Fatal.                                          *)
EntryGone == refresh # NoRefresh /\ ~EntryThere

Listener ==
  \/ SubscribeMembers
  \/ HandleUpdate
  \/ ReadNext
  \/ ListenAgain

-----------------------------------------------------------------------------
(* GetMembers returns the members currently set in the contract, unless    *)
(* an event is still to be handled or was never heard: whatever mixture of *)
(* two lists a reading saw is replaced by a later reading.                 *)
MembersFollow ==
  listener # "none" /\ refresh = NoRefresh /\ updates = 0 /\ ~missed
    => members = list
=============================================================================

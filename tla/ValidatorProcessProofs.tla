----------------------- MODULE ValidatorProcessProofs -----------------------
(***************************************************************************)
(* Proofs about ValidatorProcess, for every configuration, every list of   *)
(* members, every number of digits and every bound.                        *)
(***************************************************************************)
EXTENDS ValidatorProcess, FiniteSetTheorems, SequenceTheorems, TLAPS

(***************************************************************************)
(* Types.                                                                  *)
(***************************************************************************)
LEMMA NoRefreshType ==
  /\ <<>> \in Seq(Addresses)
  /\ NoRefresh \in [count : Int, read : Seq(Addresses)]
  /\ NoRefresh.count = -1
<1>1. <<>> \in Seq(Addresses)
  BY EmptySeq
<1>2. -1 \in Int
  OBVIOUS
<1> QED BY <1>1, <1>2 DEF NoRefresh

LEMMA TypeInit == Init => ProcessTypeOK
<1> SUFFICES ASSUME Init PROVE ProcessTypeOK
  OBVIOUS
<1>1. TypeOKStartup
  BY StartupAssumption DEF Init, InitStartup, TypeOKStartup, Phases
<1>2. InitContract /\ InitMembers
  BY DEF Init
<1>3. TypeOKMembers
  <2>1. list \in Seq(Addresses) /\ happened \in 0..MaxEvents
    BY <1>2, MembersAssumption DEF InitContract
  <2>2. members \in Seq(Addresses)
    BY <1>2, NoRefreshType DEF InitMembers
  <2>3. refresh \in [count : Int, read : Seq(Addresses)]
    BY <1>2, NoRefreshType DEF InitMembers
  <2>4. /\ listener \in {"none", "starting", "on", "broken"}
        /\ updates \in Nat /\ missed \in BOOLEAN
    BY <1>2 DEF InitMembers
  <2> QED BY <2>1, <2>2, <2>3, <2>4 DEF TypeOKMembers
<1>4. TypeOKFeed
  BY FeedAssumption
     DEF Init, InitMirror, InitFeed, TypeOKFeed, Times, Never, Nothing
<1> QED BY <1>1, <1>3, <1>4 DEF ProcessTypeOK

LEMMA RemovedType ==
  ASSUME TypeOKMembers, NEW i \in DOMAIN list
  PROVE  SubSeq([list EXCEPT ![i] = list[Len(list)]], 1, Len(list) - 1)
           \in Seq(Addresses)
<1> DEFINE l == [list EXCEPT ![i] = list[Len(list)]]
<1>1. list \in Seq(Addresses) /\ Len(list) \in Nat /\ i \in 1..Len(list)
  BY LenProperties DEF TypeOKMembers
<1>2. list[Len(list)] \in Addresses
  BY <1>1, ElementOfSeq
<1>3. l \in Seq(Addresses) /\ Len(l) = Len(list)
  BY <1>1, <1>2, ExceptSeq
<1> HIDE DEF l
<1>4. \A j \in 1..(Len(list) - 1) : l[j] \in Addresses
  BY <1>1, <1>3, ElementOfSeq
<1>5. SubSeq(l, 1, Len(list) - 1) \in Seq(Addresses)
  BY <1>1, <1>4, SubSeqProperties
<1> QED BY <1>5 DEF l

LEMMA EmitType ==
  ASSUME TypeOKMembers, Happens, Emit
  PROVE  happened' \in 0..MaxEvents /\ updates' \in Nat /\ missed' \in BOOLEAN
<1>1. happened' \in 0..MaxEvents
  BY MembersAssumption DEF TypeOKMembers, Happens
<1>2. updates' \in Nat
  BY DEF TypeOKMembers, Emit
<1>3. missed' \in BOOLEAN
  BY Zenon DEF TypeOKMembers, Emit
<1> QED BY <1>1, <1>2, <1>3

(* What a reading of the list does.                                        *)
LEMMA BeginType ==
  ASSUME TypeOKMembers, BeginRefresh
  PROVE  /\ members' \in Seq(Addresses)
         /\ refresh' \in [count : Int, read : Seq(Addresses)]
         /\ missed' \in BOOLEAN
<1>1. <<>> \in Seq(Addresses) /\ Len(list) \in Nat
  BY EmptySeq, LenProperties DEF TypeOKMembers
<1>2. [count |-> Len(list), read |-> <<>>] \in [count : Int, read : Seq(Addresses)]
  BY <1>1
<1> QED BY <1>1, <1>2 DEF TypeOKMembers, BeginRefresh, MembersCount

LEMMA ReadType ==
  ASSUME TypeOKMembers, refresh # NoRefresh, EntryThere, ReadEntry
  PROVE  /\ members' \in Seq(Addresses)
         /\ refresh' \in [count : Int, read : Seq(Addresses)]
<1> DEFINE n == Len(refresh.read)
           read == Append(refresh.read, MemberAt(n))
<1>1. n \in Nat /\ Len(list) \in Nat /\ n + 1 \in 1..Len(list)
  BY LenProperties DEF TypeOKMembers, EntryThere, MembersCount
<1>2. MemberAt(n) \in Addresses
  BY <1>1, ElementOfSeq DEF TypeOKMembers, MemberAt
<1>3. read \in Seq(Addresses)
  BY <1>2, AppendProperties DEF TypeOKMembers
<1>4. [refresh EXCEPT !.read = read] \in [count : Int, read : Seq(Addresses)]
  BY <1>3 DEF TypeOKMembers
<1> HIDE DEF n, read
<1>5. \/ members' = read /\ refresh' = NoRefresh
      \/ refresh' = [refresh EXCEPT !.read = read] /\ UNCHANGED members
  BY DEF ReadEntry, n, read
<1> QED BY <1>3, <1>4, <1>5, NoRefreshType DEF TypeOKMembers

LEMMA PageInside ==
  ASSUME NEW items
  PROVE  Page(items) \subseteq items
BY DEF Page

LEMMA AfterInside ==
  ASSUME TypeOKFeed, NEW f \in Feeds, NEW from
  PROVE  After(f, from) \subseteq published[f] /\ published[f] \in SUBSET Times
BY PageInside DEF After, TypeOKFeed

LEMMA HandOverType ==
  ASSUME TypeOKFeed, NEW f \in Feeds, NEW items \in SUBSET Times,
         HandOver(f, items)
  PROVE  handed' \in [Feeds -> SUBSET Times]
BY DEF TypeOKFeed, HandOver

LEMMA MembersTypeStep ==
  ASSUME ProcessTypeOK, Next
  PROVE  TypeOKMembers'
<1> USE DEF ProcessTypeOK
<1>1. ASSUME UpdateMember
      PROVE  TypeOKMembers'
  <2>1. ASSUME NEW a \in Addresses, AddMember(a)
        PROVE  TypeOKMembers'
    <3>1. list' \in Seq(Addresses)
      BY <2>1, AppendProperties DEF AddMember, TypeOKMembers
    <3>2. /\ happened' \in 0..MaxEvents /\ updates' \in Nat /\ missed' \in BOOLEAN
          /\ UNCHANGED <<members, refresh, listener>>
      BY <2>1, EmitType DEF AddMember
    <3> QED BY <3>1, <3>2 DEF TypeOKMembers
  <2>2. ASSUME NEW i \in DOMAIN list, RemoveMember(i)
        PROVE  TypeOKMembers'
    <3>1. list' \in Seq(Addresses)
      BY <2>2, RemovedType DEF RemoveMember
    <3>2. happened' \in 0..MaxEvents /\ updates' \in Nat /\ missed' \in BOOLEAN
      BY <2>2, EmitType DEF RemoveMember
    <3>3. UNCHANGED <<members, refresh, listener>>
      BY <2>2 DEF RemoveMember
    <3> QED BY <3>1, <3>2, <3>3 DEF TypeOKMembers
  <2> QED BY <1>1, <2>1, <2>2 DEF UpdateMember
<1>2. ASSUME UNCHANGED <<list, memberVars>>, happened' \in 0..MaxEvents
      PROVE  TypeOKMembers'
  BY <1>2 DEF memberVars, TypeOKMembers
<1>3. CASE Hedera \/ MirrorNode
  <2>1. UNCHANGED <<list, memberVars>> /\ happened' \in 0..MaxEvents
    BY <1>3, MembersAssumption
       DEF Hedera, MirrorNode, SameMembers, Tick, Publish, Import, Happens,
           TypeOKMembers
  <2> QED BY <2>1, <1>2
<1>4. CASE Die
  <2> QED BY <1>4, NoRefreshType
          DEF Die, ResetMembers, Quiet, contractVars, TypeOKMembers
<1>5. ASSUME NEW next, FirstRefresh(next), UNCHANGED contractVars
      PROVE  TypeOKMembers'
  <2>1. BeginRefresh /\ listener' \in {listener, "starting"} /\ UNCHANGED updates
    BY <1>5 DEF FirstRefresh
  <2> QED BY <1>5, <2>1, BeginType DEF contractVars, TypeOKMembers
<1>6. ASSUME NEW next, ReadFirst(next), UNCHANGED contractVars
      PROVE  TypeOKMembers'
  <2>1. /\ refresh # NoRefresh /\ EntryThere /\ ReadEntry
        /\ listener' \in {listener, "starting"} /\ UNCHANGED <<updates, missed>>
    BY <1>6 DEF ReadFirst
  <2> QED BY <1>6, <2>1, ReadType DEF contractVars, TypeOKMembers
<1>7. CASE Main
  <2>1. \/ FirstRefresh(AfterMembers) \/ ReadFirst(AfterMembers)
        \/ SameMembers
    BY <1>7 DEF Main
  <2>2. UNCHANGED contractVars
    BY <1>7 DEF Main, Quiet
  <2> QED BY <2>1, <2>2, <1>2, <1>5, <1>6
          DEF SameMembers, contractVars, TypeOKMembers
<1>8. CASE Members
  <2>1. UNCHANGED contractVars
    BY <1>8 DEF Members, Quiet
  <2>2. CASE SubscribeMembers \/ ListenAgain
    <3>1. missed' \in BOOLEAN
      BY <2>2, Zenon DEF SubscribeMembers, ListenAgain, TypeOKMembers
    <3> QED BY <2>1, <2>2, <3>1
            DEF SubscribeMembers, ListenAgain, contractVars, TypeOKMembers
  <2>3. CASE HandleUpdate
    BY <2>1, <2>3, BeginType DEF HandleUpdate, contractVars, TypeOKMembers
  <2>4. CASE ReadNext
    BY <2>1, <2>4, ReadType DEF ReadNext, contractVars, TypeOKMembers
  <2> QED BY <1>8, <2>2, <2>3, <2>4 DEF Members, Listener
<1>9. CASE Broken
  BY <1>9 DEF Broken, ConnectionBreaks, Quiet, contractVars, TypeOKMembers
<1>10. ASSUME NEW f \in Feeds, Watch(f) \/ Repoll(f)
       PROVE  TypeOKMembers'
  BY <1>2, <1>10
     DEF Watch, Repoll, SameMembers, Quiet, contractVars, TypeOKMembers
<1> QED BY <1>1, <1>3, <1>4, <1>7, <1>8, <1>9, <1>10 DEF Next, Contract

LEMMA StartupTypeStep ==
  ASSUME ProcessTypeOK, Next
  PROVE  TypeOKStartup'
<1> USE StartupAssumption
    DEF ProcessTypeOK, TypeOKStartup, Phases, startupVars, Ok, Fault, Goto, Fatal
<1>1. CASE Contract \/ Hedera \/ MirrorNode
  BY <1>1 DEF Contract, Hedera, MirrorNode
<1>2. CASE Die
  BY <1>2 DEF Die
<1>3. AfterMembers \in {"serving", "intervals"}
  BY DEF AfterMembers
<1>4. CASE Main
  <2>1. CASE FirstRefresh(AfterMembers) \/ ReadFirst(AfterMembers)
    BY <2>1, <1>3 DEF FirstRefresh, ReadFirst
  <2>2. CASE LoadAndInit \/ PrepareClients \/ NewDatabase \/ ValidateContract
    BY <2>2 DEF LoadAndInit, PrepareClients, NewDatabase, ValidateContract
  <2>3. CASE \/ ComputeIntervals \/ RecoverTransfers \/ RecoverMessages
             \/ ProcessUnfinished \/ StartPairs
    BY <2>3 DEF ComputeIntervals, RecoverTransfers, RecoverMessages,
                ProcessUnfinished, StartPairs
  <2> QED BY <1>4, <2>1, <2>2, <2>3 DEF Main
<1>5. CASE Members \/ Broken
  BY <1>5 DEF Members, Listener, SubscribeMembers, HandleUpdate, ReadNext,
              ListenAgain, Broken, ConnectionBreaks
<1>6. ASSUME NEW f \in Feeds, Watch(f) \/ Repoll(f)
      PROVE  TypeOKStartup'
  BY <1>6 DEF Watch, Watcher, StartWatcher, PollTransfers, IsLatest, PollMessages,
              DeliverMessage, SaveMilestone, Repoll, PollAgain
<1> QED BY <1>1, <1>2, <1>4, <1>5, <1>6 DEF Next

LEMMA FeedTypeStep ==
  ASSUME ProcessTypeOK, Next
  PROVE  TypeOKFeed'
<1> USE DEF ProcessTypeOK
<1>1. CASE Contract \/ Members \/ Broken
  <2>1. UNCHANGED <<mirrorVars, milestone, feedVars>>
    BY <1>1 DEF Contract, Members, Broken, Quiet, Unfed
  <2> QED BY <2>1 DEF mirrorVars, feedVars, TypeOKFeed
<1>2. CASE Hedera
  <2>1. UNCHANGED <<milestone, feedVars, imported>> /\ now' = now + 1 /\ now < MaxTime
    BY <1>2 DEF Hedera, Unfed, Tick, Publish
  <2>2. now' \in Times /\ imported <= now'
    BY <2>1, FeedAssumption DEF TypeOKFeed, Times
  <2>3. published' \in [Feeds -> SUBSET Times]
    BY <1>2 DEF Hedera, Tick, Publish, TypeOKFeed
  <2> QED BY <2>1, <2>2, <2>3 DEF feedVars, TypeOKFeed
<1>3. CASE MirrorNode
  <2>1. /\ UNCHANGED <<milestone, feedVars, now, published>>
        /\ imported' \in (imported + 1)..now
    BY <1>3 DEF MirrorNode, Unfed, Import
  <2>2. imported' \in Times /\ imported' <= now
    BY <2>1, FeedAssumption DEF TypeOKFeed, Times
  <2> QED BY <2>1, <2>2 DEF feedVars, TypeOKFeed
<1>4. CASE Die
  BY <1>4 DEF Die, ResetFeed, Quiet, mirrorVars, Never, Nothing, TypeOKFeed
<1>5. CASE Main
  <2>0. UNCHANGED mirrorVars
    BY <1>5 DEF Main, Quiet
  <2>1. CASE Unfed
    BY <2>0, <2>1 DEF Unfed, mirrorVars, feedVars, TypeOKFeed
  <2>2. CASE ComputeIntervals
    <3>1. start' \in Nat
      BY <2>2, FeedAssumption DEF ComputeIntervals, TypeOKFeed, Times
    <3> QED BY <2>0, <2>2, <3>1 DEF ComputeIntervals, mirrorVars, TypeOKFeed
  <2>3. CASE RecoverTransfers
    <3>1. Between("account", From("account"), start) \in SUBSET Times
      BY AfterInside DEF Between, Feeds
    <3>2. handed' \in [Feeds -> SUBSET Times]
      BY <2>3, <3>1, HandOverType DEF RecoverTransfers, Feeds
    <3> QED BY <2>0, <2>3, <3>2 DEF RecoverTransfers, mirrorVars, TypeOKFeed
  <2>4. CASE RecoverMessages
    <3>1. Between("topic", From("topic"), start) \in SUBSET Times
      BY AfterInside DEF Between, Feeds
    <3>2. handed' \in [Feeds -> SUBSET Times]
      BY <2>4, <3>1, HandOverType DEF RecoverMessages, Feeds, TypeOKFeed
    <3> QED BY <2>0, <2>4, <3>2 DEF RecoverMessages, mirrorVars, TypeOKFeed
  <2>5. CASE ProcessUnfinished \/ StartPairs
    BY <2>0, <2>5 DEF ProcessUnfinished, StartPairs, mirrorVars, feedVars, TypeOKFeed
  <2> QED BY <1>5, <2>1, <2>2, <2>3, <2>4, <2>5 DEF Main
<1>6. ASSUME NEW f \in Feeds, Watch(f) \/ Repoll(f)
      PROVE  TypeOKFeed'
  <2>0. UNCHANGED mirrorVars
    BY <1>6 DEF Watch, Repoll, Quiet
  <2>1. CASE StartWatcher(f)
    BY <2>0, <2>1 DEF StartWatcher, mirrorVars, TypeOKFeed
  <2>2. CASE PollAgain(f)
    BY <2>0, <2>2 DEF PollAgain, mirrorVars, TypeOKFeed
  <2>3. CASE f = "account" /\ PollTransfers
    <3> DEFINE answer == After("account", reached["account"])
    <3>1. answer \in SUBSET Times
      BY AfterInside DEF Feeds
    <3>2. PICK last \in answer :
             /\ HandOver("account", answer)
             /\ reached' = [reached EXCEPT !["account"] = last]
      BY <2>3 DEF PollTransfers, IsLatest
    <3>3. handed' \in [Feeds -> SUBSET Times]
      BY <3>1, <3>2, HandOverType DEF Feeds
    <3>4. last \in Nat
      BY <3>1, FeedAssumption DEF Times
    <3>5. reached' \in [Feeds -> Nat]
      BY <3>2, <3>4 DEF TypeOKFeed
    <3> QED BY <2>0, <2>3, <3>3, <3>5 DEF PollTransfers, IsLatest, mirrorVars, TypeOKFeed
  <2>4. CASE f = "topic" /\ PollMessages
    <3>1. After("topic", reached["topic"]) \in SUBSET Times
      BY AfterInside DEF Feeds
    <3> QED BY <2>0, <2>4, <3>1 DEF PollMessages, mirrorVars, TypeOKFeed
  <2>5. CASE f = "topic" /\ DeliverMessage
    <3>1. PICK next \in fetched :
             /\ HandOver("topic", {next})
             /\ reached' = [reached EXCEPT !["topic"] = next]
             /\ fetched' = fetched \ {next}
      BY <2>5 DEF DeliverMessage
    <3>2. next \in Times /\ next \in Nat
      BY FeedAssumption DEF TypeOKFeed, Times
    <3>3. handed' \in [Feeds -> SUBSET Times]
      BY <3>1, <3>2, HandOverType DEF Feeds
    <3>4. reached' \in [Feeds -> Nat] /\ fetched' \in SUBSET Times
      BY <3>1, <3>2 DEF TypeOKFeed
    <3> QED BY <2>0, <2>5, <3>3, <3>4 DEF DeliverMessage, mirrorVars, TypeOKFeed
  <2>6. CASE SaveMilestone(f)
    BY <2>0, <2>6 DEF SaveMilestone, mirrorVars, TypeOKFeed
  <2> QED BY <1>6, <2>1, <2>2, <2>3, <2>4, <2>5, <2>6
          DEF Watch, Watcher, Repoll
<1> QED BY <1>1, <1>2, <1>3, <1>4, <1>5, <1>6 DEF Next

LEMMA TypeStep ==
  ASSUME ProcessTypeOK, [Next]_vars
  PROVE  ProcessTypeOK'
<1>1. CASE Next
  BY <1>1, StartupTypeStep, MembersTypeStep, FeedTypeStep DEF ProcessTypeOK
<1>2. CASE UNCHANGED vars
  BY <1>2 DEF vars, startupVars, contractVars, memberVars, mirrorVars, feedVars,
              ProcessTypeOK, TypeOKStartup, TypeOKMembers, TypeOKFeed
<1> QED BY <1>1, <1>2

(* Every variable keeps its type.                                          *)
THEOREM ProcessTypeCorrect == Safety => []ProcessTypeOK
BY TypeInit, TypeStep, PTL DEF Safety

(***************************************************************************)
(* The copy of the member list.  A reading that no event and no unheard    *)
(* change has overtaken has seen the contract's list so far.               *)
(***************************************************************************)
ListenerStarts ==
  /\ phase \in {"down", "clients", "database", "services"} =>
       refresh = NoRefresh
  /\ phase \in {"down", "clients", "database", "services", "members"} =>
       listener = "none"
  /\ listener = "none" => updates = 0

ReadingFollows ==
  refresh # NoRefresh =>
    /\ Len(refresh.read) < refresh.count
    /\ updates = 0 /\ ~missed =>
         /\ refresh.count = Len(list)
         /\ \A i \in 1..Len(refresh.read) : refresh.read[i] = list[i]

MembersInv == ListenerStarts /\ ReadingFollows /\ MembersFollow

LEMMA MembersInit == Init => MembersInv
BY DEF Init, InitStartup, InitMembers, MembersInv, ListenerStarts,
       ReadingFollows, MembersFollow

(* A reading that begins, and one that reads its next entry.               *)
LEMMA BeginFollows ==
  ASSUME TypeOKMembers, refresh = NoRefresh, BeginRefresh, UNCHANGED list
  PROVE  /\ refresh' # NoRefresh =>
              /\ Len(refresh'.read) < refresh'.count
              /\ refresh'.count = Len(list)
              /\ \A i \in 1..Len(refresh'.read) : refresh'.read[i] = list[i]
         /\ refresh' = NoRefresh => members' = list
<1>1. Len(list) \in Nat /\ Len(<<>>) = 0 /\ <<>> \in Seq(Addresses)
  BY LenProperties, EmptySeq DEF TypeOKMembers
<1>2. CASE Len(list) = 0
  <2>1. list = <<>>
    BY <1>1, <1>2, EmptySeq DEF TypeOKMembers
  <2> QED BY <1>2, <2>1 DEF BeginRefresh, MembersCount
<1>3. CASE Len(list) # 0
  <2>1. refresh' = [count |-> Len(list), read |-> <<>>]
    BY <1>3 DEF BeginRefresh, MembersCount
  <2>2. refresh'.count = Len(list) /\ refresh'.read = <<>>
    BY <2>1
  <2>3. refresh' # NoRefresh
    BY <1>1, <2>2, NoRefreshType
  <2> QED BY <1>1, <1>3, <2>2, <2>3
<1> QED BY <1>2, <1>3

LEMMA ReadFollows ==
  ASSUME TypeOKMembers, ReadingFollows, refresh # NoRefresh, EntryThere,
         ReadEntry, UNCHANGED <<list, updates, missed>>
  PROVE  /\ ReadingFollows'
         /\ refresh' = NoRefresh /\ updates = 0 /\ ~missed => members' = list
<1> DEFINE n == Len(refresh.read)
           read == Append(refresh.read, MemberAt(n))
<1>1. n \in Nat /\ Len(list) \in Nat /\ n + 1 \in 1..Len(list)
      /\ refresh.count \in Int /\ n < refresh.count
      /\ refresh.read \in Seq(Addresses) /\ list \in Seq(Addresses)
  BY LenProperties DEF TypeOKMembers, EntryThere, MembersCount, ReadingFollows
<1>2. MemberAt(n) = list[n + 1] /\ list[n + 1] \in Addresses
  BY <1>1, ElementOfSeq DEF MemberAt
<1>3. /\ read \in Seq(Addresses) /\ Len(read) = n + 1
      /\ \A i \in 1..n : read[i] = refresh.read[i]
      /\ read[n + 1] = list[n + 1]
  BY <1>1, <1>2, AppendProperties
<1>4. \/ Len(read) = refresh.count /\ members' = read /\ refresh' = NoRefresh
      \/ /\ Len(read) # refresh.count
         /\ refresh' = [refresh EXCEPT !.read = read]
  BY DEF ReadEntry
<1>5. /\ updates = 0 /\ ~missed =>
           /\ refresh.count = Len(list)
           /\ \A i \in 1..n : refresh.read[i] = list[i]
  BY DEF ReadingFollows
<1> HIDE DEF read, n
<1>6. updates = 0 /\ ~missed => \A i \in 1..(n + 1) : read[i] = list[i]
  BY <1>1, <1>3, <1>5
<1>7. CASE Len(read) = refresh.count
  <2>1. members' = read /\ refresh' = NoRefresh
    BY <1>4, <1>7
  <2>2. ASSUME updates = 0, ~missed
        PROVE  read = list
    <3>1. Len(read) = Len(list)
      BY <1>5, <1>7, <2>2
    <3> QED BY <1>1, <1>3, <1>6, <2>2, <3>1, SeqEqual
  <2> QED BY <2>1, <2>2 DEF ReadingFollows
<1>8. CASE Len(read) # refresh.count
  <2>1. refresh' = [refresh EXCEPT !.read = read]
    BY <1>4, <1>8
  <2>2. refresh'.count = refresh.count /\ refresh'.read = read
    BY <2>1 DEF TypeOKMembers
  <2>3. refresh' # NoRefresh
    BY <1>1, <2>2, NoRefreshType
  <2>4. Len(read) < refresh.count
    BY <1>1, <1>3, <1>8
  <2>5. updates = 0 /\ ~missed =>
          /\ refresh.count = Len(list)
          /\ \A i \in 1..Len(read) : read[i] = list[i]
    BY <1>3, <1>5, <1>6
  <2> QED BY <2>2, <2>3, <2>4, <2>5 DEF ReadingFollows
<1> QED BY <1>7, <1>8

LEMMA MembersStep ==
  ASSUME ProcessTypeOK, MembersInv, [Next]_vars
  PROVE  MembersInv'
<1> USE DEF ProcessTypeOK, MembersInv
<1>0. updates \in Nat
  BY DEF TypeOKMembers
<1>1. ASSUME UNCHANGED <<phase, list, memberVars>>
      PROVE  MembersInv'
  BY <1>1 DEF memberVars, ListenerStarts, ReadingFollows, MembersFollow
<1>2. CASE Contract
  <2>1. /\ UNCHANGED <<phase, members, refresh, listener>>
        /\ Emit
    BY <1>2 DEF Contract, UpdateMember, AddMember, RemoveMember, startupVars
  <2>2. ListenerStarts'
    BY <2>1 DEF Emit, ListenerStarts
  <2>3. updates' # 0 \/ missed'
    <3>1. CASE listener = "on"
      BY <1>0, <2>1, <3>1 DEF Emit
    <3>2. CASE listener # "on"
      BY <2>1, <3>2, Zenon DEF Emit
    <3> QED BY <3>1, <3>2
  <2> QED BY <2>1, <2>2, <2>3 DEF ReadingFollows, MembersFollow
<1>3. CASE Hedera \/ MirrorNode
  BY <1>1, <1>3 DEF Hedera, MirrorNode, startupVars, SameMembers
<1>4. CASE Die
  <2>1. /\ members' = <<>> /\ refresh' = NoRefresh /\ listener' = "none"
        /\ updates' = 0
    BY <1>4 DEF Die, ResetMembers
  <2> QED BY <2>1 DEF ListenerStarts, ReadingFollows, MembersFollow
<1>5. AfterMembers \in {"serving", "intervals"}
  BY StartupAssumption DEF AfterMembers
<1>6. CASE Main
  <2>0. UNCHANGED list
    BY <1>6 DEF Main, Quiet, contractVars
  <2>1. CASE FirstRefresh(AfterMembers)
    <3>1. /\ phase = "members" /\ refresh = NoRefresh /\ BeginRefresh
          /\ UNCHANGED updates
          /\ \/ phase' = AfterMembers /\ listener' = "starting" /\ MembersCount = 0
             \/ UNCHANGED <<phase, listener>> /\ MembersCount # 0
      BY <2>1 DEF FirstRefresh, Goto
    <3>2. listener = "none" /\ updates = 0
      BY <3>1 DEF ListenerStarts
    <3>3. ListenerStarts'
      BY <1>5, <3>1, <3>2 DEF ListenerStarts
    <3> QED BY <2>0, <3>1, <3>2, <3>3, BeginFollows
            DEF ReadingFollows, MembersFollow, BeginRefresh
  <2>2. CASE ReadFirst(AfterMembers)
    <3>1. /\ phase = "members" /\ refresh # NoRefresh /\ EntryThere /\ ReadEntry
          /\ UNCHANGED <<updates, missed>>
          /\ \/ phase' = AfterMembers /\ listener' = "starting" /\ refresh' = NoRefresh
             \/ UNCHANGED <<phase, listener>> /\ refresh' # NoRefresh
      BY <2>2 DEF ReadFirst, Goto
    <3>2. listener = "none" /\ updates = 0
      BY <3>1 DEF ListenerStarts
    <3>3. ListenerStarts'
      BY <1>5, <3>1, <3>2 DEF ListenerStarts
    <3>4. /\ ReadingFollows'
          /\ refresh' = NoRefresh /\ updates = 0 /\ ~missed => members' = list
      BY <2>0, <3>1, ReadFollows
    <3> QED BY <2>0, <3>1, <3>3, <3>4 DEF MembersFollow
  <2>3. ASSUME SameMembers,
               phase' \in {"serving", "intervals", "transfers", "messages",
                           "unfinished", "pairs"} =>
                 phase \notin {"down", "clients", "database", "services",
                               "members"},
               phase' = "members" => phase = "services",
               phase' \in {"down", "clients", "database", "services"} =>
                 phase \in {"down", "clients", "database", "services"}
        PROVE  MembersInv'
    <3>1. ListenerStarts'
      BY <2>3 DEF SameMembers, memberVars, ListenerStarts
    <3> QED BY <2>0, <2>3, <3>1
            DEF SameMembers, memberVars, ReadingFollows, MembersFollow
  <2>4. CASE LoadAndInit \/ PrepareClients \/ NewDatabase \/ ValidateContract
    <3>1. SameMembers
      BY <1>6, <2>4
         DEF Main, LoadAndInit, PrepareClients, NewDatabase, ValidateContract,
             FirstRefresh, ReadFirst
    <3> QED BY <2>3, <2>4, <3>1, StartupAssumption
            DEF LoadAndInit, PrepareClients, NewDatabase, ValidateContract,
                Goto, Fatal
  <2>5. CASE \/ ComputeIntervals \/ RecoverTransfers \/ RecoverMessages
             \/ ProcessUnfinished \/ StartPairs
    <3>1. SameMembers
      BY <1>6, <2>5
         DEF Main, LoadAndInit, PrepareClients, NewDatabase, ValidateContract,
             FirstRefresh, ReadFirst, ComputeIntervals, RecoverTransfers,
             RecoverMessages, ProcessUnfinished, StartPairs
    <3> QED BY <2>3, <2>5, <3>1
            DEF ComputeIntervals, RecoverTransfers, RecoverMessages,
                ProcessUnfinished, StartPairs, Goto
  <2> QED BY <1>6, <2>1, <2>2, <2>4, <2>5 DEF Main
<1>7. CASE Members
  <2>0. UNCHANGED <<phase, list>>
    BY <1>7 DEF Members, Quiet, contractVars, Listener, SubscribeMembers,
                HandleUpdate, ReadNext, ListenAgain
  <2>1. CASE SubscribeMembers
    BY <2>0, <2>1
       DEF SubscribeMembers, ListenerStarts, ReadingFollows, MembersFollow
  <2>2. CASE HandleUpdate
    <3>1. /\ refresh = NoRefresh /\ BeginRefresh /\ listener # "none"
          /\ UNCHANGED listener
      BY <2>2 DEF HandleUpdate
    <3>2. phase \notin {"down", "clients", "database", "services", "members"}
      BY <3>1 DEF ListenerStarts
    <3> QED BY <2>0, <3>1, <3>2, BeginFollows
            DEF ListenerStarts, ReadingFollows, MembersFollow
  <2>3. CASE ReadNext
    <3>1. /\ refresh # NoRefresh /\ EntryThere /\ ReadEntry
          /\ listener # "none" /\ UNCHANGED <<listener, updates, missed>>
      BY <2>3 DEF ReadNext
    <3>2. phase \notin {"down", "clients", "database", "services", "members"}
      BY <3>1 DEF ListenerStarts
    <3> QED BY <2>0, <3>1, <3>2, ReadFollows
            DEF ListenerStarts, MembersFollow
  <2>4. CASE ListenAgain
    <3>1. /\ listener = "broken" /\ refresh = NoRefresh
          /\ listener' = "starting" /\ updates' = 0
          /\ missed' = (missed \/ updates > 0)
          /\ UNCHANGED <<members, refresh>>
      BY <2>4 DEF ListenAgain
    <3>2. ~missed' => ~missed /\ ~(updates > 0)
      BY <3>1, Zenon
    <3>3. updates = 0 \/ updates > 0
      BY <1>0
    <3>4. phase \notin {"down", "clients", "database", "services", "members"}
      BY <3>1 DEF ListenerStarts
    <3>5. ListenerStarts'
      BY <2>0, <3>1, <3>4 DEF ListenerStarts
    <3> QED BY <2>0, <3>1, <3>2, <3>3, <3>5
            DEF ReadingFollows, MembersFollow
  <2> QED BY <1>7, <2>1, <2>2, <2>3, <2>4 DEF Members, Listener
<1>8. CASE Broken
  BY <1>8 DEF Broken, ConnectionBreaks, Quiet, contractVars, ListenerStarts,
              ReadingFollows, MembersFollow
<1>9. ASSUME NEW f \in Feeds, Watch(f) \/ Repoll(f)
      PROVE  MembersInv'
  <2>1. UNCHANGED <<phase, list, memberVars>>
    BY <1>9 DEF Watch, Repoll, Quiet, contractVars, SameMembers, Watcher,
                StartWatcher, PollTransfers, IsLatest, PollMessages, DeliverMessage,
                SaveMilestone, PollAgain
  <2> QED BY <1>1, <2>1
<1>10. CASE UNCHANGED vars
  BY <1>1, <1>10 DEF vars, startupVars, contractVars
<1> QED BY <1>2, <1>3, <1>4, <1>6, <1>7, <1>8, <1>9, <1>10 DEF Next

(* GetMembers is the contract's list, whatever mixture a reading saw,      *)
(* unless an event is still to be handled or was never heard.              *)
THEOREM MembersAreCurrent == Safety => []MembersFollow
<1>1. Init => MembersInv
  BY MembersInit
<1>2. ProcessTypeOK /\ MembersInv /\ [Next]_vars => MembersInv'
  BY MembersStep
<1>3. MembersInv => MembersFollow
  BY DEF MembersInv
<1> QED BY <1>1, <1>2, <1>3, ProcessTypeCorrect, PTL DEF Safety

(***************************************************************************)
(* What the text of a timestamp does to it: the mirror node never reads    *)
(* an earlier time than was written.                                       *)
(***************************************************************************)
LEMMA WrittenType ==
  ASSUME NEW nano
  PROVE  Written(nano) \in 1..Digits
<1> DEFINE more == {d \in 1..(Digits - 1) : nano >= Base ^ d}
<1>1. /\ IsFiniteSet(1..(Digits - 1))
      /\ Cardinality(1..(Digits - 1)) = Digits - 1
  BY FS_Interval, FeedAssumption
<1>2. /\ IsFiniteSet(more)
      /\ Cardinality(more) <= Cardinality(1..(Digits - 1))
  BY <1>1, FS_Subset
<1>3. Cardinality(more) \in Nat
  BY <1>2, FS_CardinalityType
<1> HIDE DEF more
<1>4. 1 + Cardinality(more) \in 1..Digits
  BY <1>1, <1>2, <1>3, FeedAssumption
<1> QED BY <1>4 DEF Written, more

LEMMA ReadNoEarlier ==
  ASSUME NEW t \in Nat
  PROVE  AsRead(t) \in Nat /\ t <= AsRead(t)
<1> DEFINE n == NanosInSecond
           k == Digits - Written(t % n)
           shift == Base ^ k
           second == t \div n
           nano == t % n
<1>1. n \in Nat \ {0}
  BY PowersArePositive, FeedAssumption DEF NanosInSecond
<1>2. k \in 0..Digits
  BY WrittenType, FeedAssumption
<1>3. shift \in Nat \ {0}
  BY <1>2, PowersArePositive
<1>4. second \in Nat /\ nano \in Nat /\ t = second * n + nano
  BY <1>1, SMT
<1>5. AsRead(t) = second * n + nano * shift
  BY DEF AsRead
<1> HIDE DEF n, k, shift, second, nano
<1>6. nano <= nano * shift /\ nano * shift \in Nat /\ second * n \in Nat
  BY <1>1, <1>3, <1>4
<1> QED BY <1>4, <1>5, <1>6

(* A page that holds an item holds every earlier one.                      *)
LEMMA PageIsFirst ==
  ASSUME NEW items \in SUBSET Times, NEW u \in Page(items), NEW t \in items,
         t <= u
  PROVE  t \in Page(items)
<1> DEFINE beforeT == {s \in items : s < t}
           beforeU == {s \in items : s < u}
<1>1. IsFiniteSet(Times)
  BY FS_Interval, FeedAssumption DEF Times
<1>2. items \subseteq Int /\ u \in Int
  BY FeedAssumption DEF Times, Page
<1>3. IsFiniteSet(beforeU)
  <2>1. beforeU \in SUBSET Times
    OBVIOUS
  <2> QED BY <1>1, <2>1, FS_Subset
<1>4. beforeT \in SUBSET beforeU
  <2> SUFFICES ASSUME NEW s \in items, s < t
               PROVE  s < u
    OBVIOUS
  <2>1. s \in Int /\ t \in Int
    BY <1>2
  <2> QED BY <1>2, <2>1
<1>5. /\ IsFiniteSet(beforeT) /\ Cardinality(beforeT) <= Cardinality(beforeU)
      /\ Cardinality(beforeT) \in Nat /\ Cardinality(beforeU) \in Nat
  BY <1>3, <1>4, FS_Subset, FS_CardinalityType
<1>6. Cardinality(beforeU) < PageSize
  BY DEF Page
<1>7. Cardinality(beforeT) < PageSize
  BY <1>5, <1>6, FeedAssumption
<1> QED BY <1>7 DEF Page

(* An answer is of what the mirror node shows after the asked time, and    *)
(* leaves nothing out before its last item.                                *)
LEMMA AnswerIsFirst ==
  ASSUME TypeOKFeed, NEW f \in Feeds, NEW from \in Nat,
         NEW u \in After(f, from)
  PROVE  /\ u \in Times /\ from < u /\ AsRead(from) < u /\ u < imported
         /\ \A t \in published[f] :
              from < t /\ t <= u => t \in After(f, from) \/ t <= AsRead(from)
<1> DEFINE items == {t \in published[f] : t < imported /\ t > AsRead(from)}
<1>1. items \in SUBSET Times /\ u \in items /\ u \in Page(items)
  BY AfterInside, PageInside DEF After
<1>2. AsRead(from) \in Nat /\ from <= AsRead(from)
  BY ReadNoEarlier
<1>3. u \in Nat /\ imported \in Nat /\ published[f] \subseteq Nat
  BY <1>1, FeedAssumption, AfterInside DEF TypeOKFeed, Times
<1>4. AsRead(from) < u /\ u < imported /\ from < u
  <2> HIDE DEF items
  <2>1. u < imported /\ u > AsRead(from)
    BY <1>1 DEF items
  <2> QED BY <1>2, <1>3, <2>1
<1>5. ASSUME NEW t \in published[f], t <= u, ~(t <= AsRead(from))
      PROVE  t \in After(f, from)
  <2>1. t \in items
    BY <1>2, <1>3, <1>4, <1>5
  <2> QED BY <1>1, <1>5, <2>1, PageIsFirst DEF After
<1> QED BY <1>1, <1>4, <1>5

(***************************************************************************)
(* The inductive invariant of the feeds.                                   *)
(***************************************************************************)
(* The phases in which nothing was recovered, and in which no watcher runs.*)
Unrecovered == {"down", "clients", "database", "services", "members",
                "intervals"}

WatchersStart ==
  /\ phase # "serving" => \A f \in Feeds : watcher[f] = "none"
  /\ phase \in Unrecovered => handed = Nothing
  /\ fetched # {} => watcher["topic"] \in {"deliver", "save"}

(* The recovery stops before the watchers begin.                           *)
RecoveredBefore ==
  \A f \in Feeds : ~Watching(f) => \A t \in handed[f] : t < start

(* A watcher has come to the end of the recovery or to an item it handed   *)
(* over, and to no later one.                                              *)
ReachedIsHanded ==
  \A f \in Feeds : Watching(f) =>
    /\ start <= reached[f]
    /\ reached[f] = start \/ (reached[f] \in handed[f] /\ reached[f] < imported)
    /\ \A t \in handed[f] : t <= reached[f]
    /\ watcher[f] = "poll" => milestone[f] = reached[f]

(* The fetched messages are the next ones.                                 *)
FetchedAreNext ==
  \A u \in fetched :
    /\ reached["topic"] < u /\ u < imported
    /\ \A t \in published["topic"] :
         reached["topic"] < t /\ t <= u => t \in fetched \/ Shadowed("topic", t)

FeedInv ==
  WatchersStart /\ RecoveredBefore /\ ReachedIsHanded /\ FetchedAreNext
    /\ OnlyShadowed

LEMMA FeedInit == Init => FeedInv
BY DEF Init, InitStartup, InitFeed, FeedInv, WatchersStart, RecoveredBefore,
       ReachedIsHanded, FetchedAreNext, OnlyShadowed, Watching, Nothing, Feeds

(* A next query cannot answer with what was handed over.                   *)
LEMMA NotTwice ==
  ASSUME TypeOKFeed, FeedInv
  PROVE  NothingTwice
<1>1. ASSUME NEW f \in Feeds, Watching(f),
             NEW t \in After(f, reached[f]), t \in handed[f]
      PROVE  FALSE
  <2>1. reached[f] \in Nat
    BY DEF TypeOKFeed
  <2>2. reached[f] < t /\ t \in Times
    BY <2>1, AnswerIsFirst
  <2>3. t <= reached[f]
    BY <1>1 DEF FeedInv, ReachedIsHanded
  <2> QED BY <2>1, <2>2, <2>3, FeedAssumption DEF Times
<1>2. ASSUME NEW t \in fetched, t \in handed["topic"]
      PROVE  FALSE
  <2>1. Watching("topic") /\ reached["topic"] < t
    BY DEF FeedInv, WatchersStart, FetchedAreNext, Watching
  <2>2. t <= reached["topic"]
    BY <1>2, <2>1 DEF FeedInv, ReachedIsHanded, Feeds
  <2>3. t \in Nat /\ reached["topic"] \in Nat
    BY FeedAssumption DEF TypeOKFeed, Times, Feeds
  <2> QED BY <2>1, <2>2, <2>3
<1> QED BY <1>1, <1>2 DEF NothingTwice

LEMMA FeedStep ==
  ASSUME ProcessTypeOK, FeedInv, [Next]_vars
  PROVE  FeedInv'
<1> USE DEF ProcessTypeOK, FeedInv
<1>a. published \in [Feeds -> SUBSET Nat] /\ fetched \in SUBSET Nat
      /\ handed \in [Feeds -> SUBSET Nat] /\ start \in Nat
      /\ imported \in Nat /\ now \in Nat /\ imported <= now
      /\ reached \in [Feeds -> Nat] /\ milestone \in [Feeds -> Nat]
  BY FeedAssumption DEF TypeOKFeed, Times
<1>1. ASSUME UNCHANGED <<phase, mirrorVars, milestone, feedVars>>
      PROVE  FeedInv'
  BY <1>1 DEF mirrorVars, feedVars, WatchersStart, RecoveredBefore,
              ReachedIsHanded, FetchedAreNext, OnlyShadowed, Watching, Shadowed
<1>2. CASE Contract \/ Members \/ Broken
  BY <1>1, <1>2
     DEF Contract, Members, Broken, Quiet, Unfed, startupVars, Listener,
         SubscribeMembers, HandleUpdate, ReadNext, ListenAgain, ConnectionBreaks

(* A new item is later than everything a watcher has seen.                 *)
<1>3. CASE Hedera \/ MirrorNode
  <2>1. UNCHANGED <<phase, milestone, feedVars>>
    BY <1>3 DEF Hedera, MirrorNode, Unfed, startupVars
  <2>2. imported' \in Nat /\ imported <= imported'
    BY <1>a, <1>3 DEF Hedera, MirrorNode, Tick, Publish, Import
  <2>3. \A f \in Feeds : \A t \in published'[f] : t \in published[f] \/ t = now
    BY <1>3 DEF Hedera, MirrorNode, Tick, Publish, Import, TypeOKFeed
  <2>4. WatchersStart' /\ RecoveredBefore'
    BY <2>1 DEF feedVars, WatchersStart, RecoveredBefore, Watching
  <2>5. ReachedIsHanded'
    BY <1>a, <2>1, <2>2 DEF feedVars, ReachedIsHanded, Watching
  <2>6. ASSUME NEW u \in fetched
        PROVE  /\ reached["topic"] < u /\ u < imported'
               /\ \A t \in published'["topic"] :
                    reached["topic"] < t /\ t <= u =>
                      t \in fetched \/ Shadowed("topic", t)
    <3>1. u \in Nat /\ u < imported
      BY <1>a DEF FetchedAreNext
    <3>2. ~(now <= u)
      BY <1>a, <3>1
    <3> QED BY <1>a, <2>2, <2>3, <3>1, <3>2 DEF FetchedAreNext, Feeds
  <2>7. FetchedAreNext'
    BY <2>1, <2>6 DEF feedVars, FetchedAreNext, Shadowed
  <2>8. ASSUME NEW f \in Feeds, Watching(f), NEW t \in published'[f],
               start < t, t <= reached[f]
        PROVE  t \in handed[f] \/ Shadowed(f, t)
    <3>1. t # now
      BY <1>a, <2>8 DEF ReachedIsHanded
    <3> QED BY <2>3, <2>8, <3>1 DEF OnlyShadowed
  <2>9. OnlyShadowed'
    BY <2>1, <2>8 DEF feedVars, OnlyShadowed, Watching, Shadowed
  <2> QED BY <2>4, <2>5, <2>7, <2>9
<1>4. CASE Die
  <2>1. /\ phase' = "down" /\ fetched' = {} /\ handed' = Nothing
        /\ watcher' = [f \in Feeds |-> "none"]
    BY <1>4 DEF Die, Fatal, ResetFeed
  <2> QED BY <2>1 DEF WatchersStart, RecoveredBefore, ReachedIsHanded,
                      FetchedAreNext, OnlyShadowed, Watching, Nothing

(* main, before the watchers run.                                          *)
<1>5. CASE Main
  <2>1. UNCHANGED mirrorVars
    BY <1>5 DEF Main, Quiet
  <2>2. phase # "serving" /\ \A f \in Feeds : ~Watching(f)
    <3>1. phase # "serving"
      BY <1>5 DEF Main, LoadAndInit, PrepareClients, NewDatabase,
                  ValidateContract, FirstRefresh, ReadFirst, ComputeIntervals,
                  RecoverTransfers, RecoverMessages, ProcessUnfinished, StartPairs
    <3> QED BY <3>1 DEF WatchersStart, Watching
  <2>3. fetched = {}
    BY <2>2 DEF WatchersStart, Watching, Feeds
  <2>4. ASSUME NEW w \in {"none", "starting"}, fetched' = {},
               \A f \in Feeds : watcher'[f] = w,
               w # "none" => phase' = "serving",
               phase' \in Unrecovered => handed' = Nothing,
               \A f \in Feeds : \A t \in handed'[f] : t < start'
        PROVE  FeedInv'
    BY <2>4 DEF WatchersStart, RecoveredBefore, ReachedIsHanded, FetchedAreNext,
                OnlyShadowed, Watching
  <2>5. \A f \in Feeds : watcher[f] = "none"
    BY <2>2 DEF WatchersStart
  <2>6. \A f \in Feeds : \A t \in handed[f] : t < start
    BY <2>2 DEF RecoveredBefore
  <2>7. CASE UNCHANGED feedVars /\ phase' \in Unrecovered \cup {"serving"}
             /\ phase \in Unrecovered
    BY <2>3, <2>4, <2>5, <2>6, <2>7 DEF feedVars, WatchersStart
  <2>8. AfterMembers \in Unrecovered \cup {"serving"}
    BY StartupAssumption DEF AfterMembers, Unrecovered
  <2>9. CASE FirstRefresh(AfterMembers) \/ ReadFirst(AfterMembers)
    <3>1. phase = "members" /\ phase' \in {phase, AfterMembers}
      BY <2>9 DEF FirstRefresh, ReadFirst, Goto
    <3>2. UNCHANGED feedVars
      BY <1>5, <3>1
         DEF Main, Unfed, LoadAndInit, PrepareClients, NewDatabase,
             ValidateContract, ComputeIntervals, RecoverTransfers,
             RecoverMessages, ProcessUnfinished, StartPairs
    <3> QED BY <2>7, <2>8, <3>1, <3>2 DEF Unrecovered
  <2>10. CASE LoadAndInit \/ PrepareClients \/ NewDatabase \/ ValidateContract
    <3>1. phase \in Unrecovered /\ phase' \in Unrecovered
          /\ phase \notin {"intervals", "members"}
      BY <2>10, StartupAssumption
         DEF LoadAndInit, PrepareClients, NewDatabase, ValidateContract, Goto,
             Fatal, Unrecovered
    <3>2. UNCHANGED feedVars
      BY <1>5, <3>1
         DEF Main, Unfed, FirstRefresh, ReadFirst, ComputeIntervals,
             RecoverTransfers, RecoverMessages, ProcessUnfinished, StartPairs,
             Unrecovered
    <3> QED BY <2>7, <3>1, <3>2
  <2>11. CASE ComputeIntervals
    <3>1. handed = Nothing
      BY <2>11 DEF ComputeIntervals, WatchersStart, Unrecovered
    <3> QED BY <2>3, <2>4, <2>5, <2>11, <3>1 DEF ComputeIntervals, Nothing
  <2>12. \A f \in Feeds : \A t \in Between(f, From(f), start) : t < start
    BY DEF Between
  <2>13. ASSUME NEW f \in Feeds, HandOver(f, Between(f, From(f), start))
         PROVE  \A g \in Feeds : \A t \in handed'[g] : t < start
    BY <2>6, <2>12, <2>13 DEF HandOver, TypeOKFeed
  <2>14. CASE RecoverTransfers
    BY <2>3, <2>4, <2>5, <2>13, <2>14 DEF RecoverTransfers, Goto, Unrecovered, Feeds
  <2>15. CASE RecoverMessages
    <3>1. \A g \in Feeds : \A t \in handed'[g] : t < start
      BY <2>6, <2>13, <2>15 DEF RecoverMessages, Feeds
    <3> QED BY <2>3, <2>4, <2>5, <2>15, <3>1 DEF RecoverMessages, Goto, Unrecovered
  <2>16. CASE ProcessUnfinished
    BY <2>3, <2>4, <2>5, <2>6, <2>16
       DEF ProcessUnfinished, feedVars, Goto, Unrecovered
  <2>17. CASE StartPairs
    BY <2>3, <2>4, <2>6, <2>17 DEF StartPairs, Goto, Unrecovered
  <2> QED BY <1>5, <2>9, <2>10, <2>11, <2>14, <2>15, <2>16, <2>17 DEF Main
<1>6. ASSUME NEW f \in Feeds, Watch(f) \/ Repoll(f)
      PROVE  FeedInv'
  <2>0. UNCHANGED <<mirrorVars, phase>>
    BY <1>6 DEF Watch, Repoll, Quiet, Watcher, StartWatcher, PollTransfers, IsLatest,
                PollMessages, DeliverMessage, SaveMilestone, PollAgain
  <2>1. CASE StartWatcher(f)
    <3>1. ~Watching(f) /\ phase = "serving"
      BY <2>1 DEF StartWatcher, Watching, WatchersStart
    <3>2. UNCHANGED <<start, fetched, handed>>
      BY <2>1 DEF StartWatcher
    <3>3. \A t \in handed[f] : t <= start
      BY <1>a, <3>1 DEF RecoveredBefore
    <3>4. \A g \in Feeds \ {f} : /\ watcher'[g] = watcher[g]
                                 /\ reached'[g] = reached[g]
                                 /\ milestone'[g] = milestone[g]
      BY <2>1 DEF StartWatcher, TypeOKFeed
    <3>5. \/ watcher'[f] = "dead"
          \/ watcher'[f] = "poll" /\ reached'[f] = start /\ milestone'[f] = start
      BY <2>1 DEF StartWatcher, TypeOKFeed
    <3>6. f = "topic" => fetched = {}
      BY <3>1 DEF WatchersStart, Watching
    <3>7. fetched # {} => f # "topic" /\ UNCHANGED <<watcher["topic"], reached["topic"]>>
      BY <3>4, <3>6 DEF Feeds
    <3>8. WatchersStart'
      BY <2>0, <3>1, <3>2, <3>7 DEF WatchersStart, Unrecovered
    <3>9. RecoveredBefore'
      BY <3>1, <3>2, <3>4, <3>5 DEF RecoveredBefore, Watching
    <3>10. ReachedIsHanded'
      <4>1. ASSUME NEW g \in Feeds, Watching(g)'
            PROVE  /\ start <= reached'[g]
                   /\ \/ reached'[g] = start
                      \/ reached'[g] \in handed[g] /\ reached'[g] < imported
                   /\ \A t \in handed[g] : t <= reached'[g]
                   /\ watcher'[g] = "poll" => milestone'[g] = reached'[g]
        <5>1. CASE g = f
          BY <1>a, <3>3, <3>5, <4>1, <5>1 DEF Watching
        <5>2. CASE g # f
          BY <3>4, <4>1, <5>2 DEF ReachedIsHanded, Watching
        <5> QED BY <5>1, <5>2
      <4> QED BY <2>0, <3>2, <4>1 DEF ReachedIsHanded, mirrorVars
    <3>11. FetchedAreNext'
      BY <2>0, <3>2, <3>7 DEF FetchedAreNext, Shadowed, mirrorVars
    <3>12. OnlyShadowed'
      <4>1. ASSUME NEW g \in Feeds, Watching(g)', NEW t \in published[g],
                   start < t, t <= reached'[g]
            PROVE  t \in handed[g] \/ Shadowed(g, t)
        <5>1. g # f
          BY <1>a, <3>5, <4>1 DEF Watching
        <5> QED BY <3>4, <4>1, <5>1 DEF OnlyShadowed, Watching
      <4> QED BY <2>0, <3>2, <4>1 DEF OnlyShadowed, Shadowed, mirrorVars
    <3> QED BY <3>8, <3>9, <3>10, <3>11, <3>12
  <2>2. CASE PollAgain(f)
    <3>1. Watching(f) /\ reached[f] = milestone[f]
      BY <2>2 DEF PollAgain, ReachedIsHanded, Watching
    <3>2. UNCHANGED <<reached, milestone, start, watcher, fetched, handed>>
      BY <2>2, <3>1 DEF PollAgain, TypeOKFeed
    <3> QED BY <1>1, <2>0, <3>2 DEF feedVars
  <2>3. CASE SaveMilestone(f)
    <3>1. /\ Watching(f) /\ UNCHANGED <<start, reached, fetched, handed>>
          /\ \A g \in Feeds \ {f} : watcher'[g] = watcher[g] /\ milestone'[g] = milestone[g]
          /\ watcher'[f] \in {"deliver", "poll"} /\ milestone'[f] = reached[f]
          /\ f = "topic" /\ fetched # {} => watcher'[f] = "deliver"
          /\ watcher[f] = "save"
      BY <2>3 DEF SaveMilestone, Watching, TypeOKFeed
    <3>2. \A g \in Feeds : Watching(g)' <=> Watching(g)
      BY <3>1 DEF Watching
    <3>3. phase = "serving"
      BY <3>1 DEF WatchersStart
    <3>4. WatchersStart'
      BY <2>0, <3>1, <3>3 DEF WatchersStart, Unrecovered, Feeds
    <3>5. ReachedIsHanded'
      BY <2>0, <3>1, <3>2 DEF ReachedIsHanded, mirrorVars
    <3> QED BY <2>0, <3>1, <3>2, <3>4, <3>5
            DEF RecoveredBefore, FetchedAreNext, OnlyShadowed, Shadowed, mirrorVars
  <2>4. CASE f = "topic" /\ PollMessages
    <3> DEFINE answer == After("topic", reached["topic"])
    <3>1. /\ watcher["topic"] = "poll" /\ fetched' = answer
          /\ watcher' = [watcher EXCEPT !["topic"] = "deliver"]
          /\ UNCHANGED <<milestone, start, reached, handed>>
      BY <2>4 DEF PollMessages
    <3>2. \A g \in Feeds : Watching(g)' <=> Watching(g)
      BY <3>1 DEF Watching, TypeOKFeed, Feeds
    <3>3. phase = "serving"
      BY <3>1 DEF WatchersStart, Feeds
    <3>4. WatchersStart'
      BY <2>0, <3>1, <3>3 DEF WatchersStart, Unrecovered, TypeOKFeed, Feeds
    <3>5. ReachedIsHanded'
      BY <2>0, <3>1, <3>2 DEF ReachedIsHanded, mirrorVars, TypeOKFeed
    <3>6. reached["topic"] \in handed["topic"] \cup {start}
      BY <3>1 DEF ReachedIsHanded, Watching, Feeds
    <3>7. ASSUME NEW u \in answer
          PROVE  /\ reached["topic"] < u /\ u < imported
                 /\ \A t \in published["topic"] :
                      reached["topic"] < t /\ t <= u =>
                        t \in answer \/ Shadowed("topic", t)
      <4>1. reached["topic"] \in Nat
        BY <1>a DEF Feeds
      <4>2. /\ reached["topic"] < u /\ u < imported
            /\ \A t \in published["topic"] :
                 reached["topic"] < t /\ t <= u =>
                   t \in answer \/ t <= AsRead(reached["topic"])
        BY <4>1, AnswerIsFirst DEF Feeds
      <4> QED BY <3>6, <4>2 DEF Shadowed
    <3>8. FetchedAreNext'
      BY <2>0, <3>1, <3>7 DEF FetchedAreNext, Shadowed, mirrorVars
    <3> QED BY <2>0, <3>1, <3>2, <3>4, <3>5, <3>8
            DEF RecoveredBefore, OnlyShadowed, Shadowed, mirrorVars
  (* A watcher hands over items and goes on to the last of them.           *)
  <2>5. ASSUME NEW last \in Nat, NEW items \in SUBSET Nat, last \in items,
               Watching(f), reached[f] < last, last < imported,
               HandOver(f, items), \A t \in items : t <= last,
               reached' = [reached EXCEPT ![f] = last],
               watcher' = [watcher EXCEPT ![f] = "save"],
               UNCHANGED <<milestone, start>>, fetched' \subseteq fetched,
               \A t \in published[f] : reached[f] < t /\ t <= last =>
                 t \in items \/ Shadowed(f, t),
               f # "topic" => UNCHANGED fetched,
               f = "topic" => \A u \in fetched' : last < u /\ u \in fetched,
               f = "topic" => fetched \ fetched' \subseteq items
        PROVE  FeedInv'
    <3>1. /\ handed' = [handed EXCEPT ![f] = @ \cup items]
          /\ \A g \in Feeds \ {f} : /\ watcher'[g] = watcher[g]
                                    /\ reached'[g] = reached[g]
                                    /\ handed'[g] = handed[g]
          /\ watcher'[f] = "save" /\ reached'[f] = last
          /\ handed'[f] = handed[f] \cup items
      BY <2>5 DEF HandOver, TypeOKFeed
    <3>2. \A g \in Feeds : Watching(g)' <=> Watching(g)
      BY <2>5, <3>1 DEF Watching
    <3>3. phase = "serving"
      BY <2>5 DEF WatchersStart, Watching
    <3>4. \A g \in Feeds : \A t : Shadowed(g, t) => Shadowed(g, t)'
      BY <2>5, <3>1 DEF Shadowed
    <3>5. WatchersStart'
      BY <2>0, <2>5, <3>1, <3>3 DEF WatchersStart, Unrecovered, Feeds
    <3>6. RecoveredBefore'
      BY <2>5, <3>1, <3>2 DEF RecoveredBefore
    <3>7. ReachedIsHanded'
      <4>1. ASSUME NEW g \in Feeds, Watching(g)
            PROVE  /\ start <= reached'[g]
                   /\ \/ reached'[g] = start
                      \/ reached'[g] \in handed'[g] /\ reached'[g] < imported
                   /\ \A t \in handed'[g] : t <= reached'[g]
                   /\ watcher'[g] = "poll" => milestone'[g] = reached'[g]
        <5>1. CASE g = f
          <6>1. \A t \in handed[f] : t <= reached[f] /\ t \in Nat
            BY <1>a, <2>5 DEF ReachedIsHanded
          <6>2. start <= reached[f] /\ reached[f] \in Nat
            BY <1>a, <2>5 DEF ReachedIsHanded
          <6> QED BY <1>a, <2>5, <3>1, <5>1, <6>1, <6>2
        <5>2. CASE g # f
          BY <2>5, <3>1, <4>1, <5>2 DEF ReachedIsHanded
        <5> QED BY <5>1, <5>2
      <4> QED BY <2>0, <2>5, <3>2, <4>1 DEF ReachedIsHanded, mirrorVars
    <3>8. FetchedAreNext'
      <4>1. ASSUME NEW u \in fetched'
            PROVE  /\ reached'["topic"] < u /\ u < imported
                   /\ \A t \in published["topic"] :
                        reached'["topic"] < t /\ t <= u =>
                          t \in fetched' \/ Shadowed("topic", t)'
        <5>1. CASE f = "topic"
          <6>1. u \in fetched /\ last < u /\ reached'["topic"] = last
            BY <2>5, <3>1, <4>1, <5>1
          <6>2. u < imported
            BY <6>1 DEF FetchedAreNext
          <6>3. ASSUME NEW t \in published["topic"], last < t, t <= u
                PROVE  t \in fetched' \/ Shadowed("topic", t)'
            <7>1. t \in Nat /\ u \in Nat /\ reached["topic"] \in Nat
              BY <1>a, <6>1 DEF Feeds
            <7>2. t \in fetched \/ Shadowed("topic", t)
              BY <2>5, <5>1, <6>1, <6>3, <7>1 DEF FetchedAreNext
            <7>3. t \in fetched => t \in fetched'
              BY <2>5, <5>1, <6>3, <7>1
            <7> QED BY <3>4, <7>2, <7>3 DEF Feeds
          <6> QED BY <6>1, <6>2, <6>3
        <5>2. CASE f # "topic"
          BY <2>5, <3>1, <3>4, <4>1, <5>2 DEF FetchedAreNext, Feeds
        <5> QED BY <5>1, <5>2
      <4> QED BY <2>0, <4>1 DEF FetchedAreNext, mirrorVars
    <3>9. OnlyShadowed'
      <4>1. ASSUME NEW g \in Feeds, Watching(g), NEW t \in published[g],
                   start < t, t <= reached'[g]
            PROVE  t \in handed'[g] \/ Shadowed(g, t)'
        <5>1. CASE g = f
          <6>1. t \in Nat /\ reached[f] \in Nat
            BY <1>a, <5>1
          <6>2. CASE t <= reached[f]
            BY <3>1, <3>4, <4>1, <5>1, <6>2 DEF OnlyShadowed
          <6>3. CASE reached[f] < t
            BY <2>5, <3>1, <3>4, <4>1, <5>1, <6>3
          <6> QED BY <6>1, <6>2, <6>3
        <5>2. CASE g # f
          BY <3>1, <3>4, <4>1, <5>2 DEF OnlyShadowed
        <5> QED BY <5>1, <5>2
      <4> QED BY <2>0, <2>5, <3>2, <4>1 DEF OnlyShadowed, mirrorVars
    <3> QED BY <3>5, <3>6, <3>7, <3>8, <3>9
  <2>6. CASE f = "account" /\ PollTransfers
    <3> DEFINE answer == After("account", reached["account"])
    <3>1. PICK last \in answer :
             /\ \A t \in answer : t <= last
             /\ HandOver("account", answer)
             /\ reached' = [reached EXCEPT !["account"] = last]
      BY <2>6 DEF PollTransfers, IsLatest
    <3>2. /\ watcher["account"] = "poll"
          /\ watcher' = [watcher EXCEPT !["account"] = "save"]
          /\ UNCHANGED <<milestone, start, fetched>>
      BY <2>6 DEF PollTransfers, IsLatest
    <3>3. Watching("account") /\ reached["account"] \in Nat
      BY <1>a, <3>2 DEF Watching, Feeds
    <3>4. reached["account"] \in handed["account"] \cup {start}
      BY <3>3 DEF ReachedIsHanded, Feeds
    <3>5. answer \in SUBSET Nat
      BY AfterInside, FeedAssumption DEF Times, Feeds
    <3>6. /\ reached["account"] < last /\ last < imported
          /\ \A t \in published["account"] :
               reached["account"] < t /\ t <= last =>
                 t \in answer \/ t <= AsRead(reached["account"])
      BY <3>3, AnswerIsFirst DEF Feeds
    <3>7. \A t \in published["account"] :
            reached["account"] < t /\ t <= last =>
              t \in answer \/ Shadowed("account", t)
      BY <3>4, <3>6 DEF Shadowed
    <3> HIDE DEF answer
    <3> QED BY <2>5, <2>6, <3>1, <3>2, <3>3, <3>5, <3>6, <3>7
  <2>7. CASE f = "topic" /\ DeliverMessage
    <3>1. PICK next \in fetched :
             /\ \A t \in fetched : next <= t
             /\ HandOver("topic", {next})
             /\ reached' = [reached EXCEPT !["topic"] = next]
             /\ fetched' = fetched \ {next}
      BY <2>7 DEF DeliverMessage
    <3>2. /\ watcher["topic"] = "deliver"
          /\ watcher' = [watcher EXCEPT !["topic"] = "save"]
          /\ UNCHANGED <<milestone, start>>
      BY <2>7 DEF DeliverMessage
    <3>3. Watching("topic") /\ reached["topic"] \in Nat /\ next \in Nat
      BY <1>a, <3>2 DEF Watching, Feeds
    <3>4. /\ reached["topic"] < next /\ next < imported
          /\ \A t \in published["topic"] :
               reached["topic"] < t /\ t <= next =>
                 t \in fetched \/ Shadowed("topic", t)
      BY DEF FetchedAreNext
    <3>5. \A t \in published["topic"] :
            reached["topic"] < t /\ t <= next =>
              t \in {next} \/ Shadowed("topic", t)
      BY <1>a, <3>1, <3>3, <3>4 DEF Feeds
    <3>6. \A u \in fetched' : next < u /\ u \in fetched
      BY <1>a, <3>1, <3>3
    <3>7. {next} \in SUBSET Nat /\ next \in {next} /\ \A t \in {next} : t <= next
      BY <3>3
    <3>8. fetched' \subseteq fetched /\ fetched \ fetched' \subseteq {next}
      BY <3>1
    <3> DEFINE items == {next}
    <3> HIDE DEF items
    <3>9. FeedInv'
      BY <2>5, <2>7, <3>1, <3>2, <3>3, <3>4, <3>5, <3>6, <3>7, <3>8 DEF items
    <3> QED BY <3>9
  <2> QED BY <1>6, <2>1, <2>2, <2>3, <2>4, <2>6, <2>7
          DEF Watch, Watcher, Repoll
<1>7. CASE UNCHANGED vars
  BY <1>1, <1>7 DEF vars, startupVars
<1> QED BY <1>2, <1>3, <1>4, <1>5, <1>6, <1>7 DEF Next

LEMMA FeedsCorrect == Safety => [](ProcessTypeOK /\ FeedInv)
<1>1. ProcessTypeOK /\ FeedInv /\ [Next]_vars => FeedInv'
  BY FeedStep
<1> QED BY FeedInit, <1>1, ProcessTypeCorrect, PTL DEF Safety

(* Paging, the mirror node's lag, clock skew and failed queries lose       *)
(* nothing between the recovery and a watcher's milestone.                 *)
THEOREM FeedsLoseOnlyShadowed == Safety => []OnlyShadowed
<1>1. FeedInv => OnlyShadowed
  BY DEF FeedInv
<1> QED BY <1>1, FeedsCorrect, PTL

(* No item is handed over twice in the life of a process.                  *)
THEOREM FeedsHandOverOnce == Safety => []NothingTwice
<1>1. ProcessTypeOK /\ FeedInv => NothingTwice
  BY NotTwice DEF ProcessTypeOK
<1> QED BY <1>1, FeedsCorrect, PTL
=============================================================================

-------------------------- MODULE SupervisorProofs --------------------------
(***************************************************************************)
(* Proofs about the supervisor, for every number of launches, kills,       *)
(* letters and every channel capacity.                                     *)
(*                                                                         *)
(* First type correctness: one lemma per part of TypeOK that an action     *)
(* leaves alone (the frames), one per helper, one per group of actions.    *)
(* Then the reference count of the namespace descriptors, whose invariant  *)
(* RefInv implies NoUseAfterClose.                                         *)
(***************************************************************************)
EXTENDS Supervisor, FiniteSetTheorems, TLAPS

(* Types of the operators that build new values. *)

LEMMA RootIDType == ASSUME NEW p \in Pod PROVE RootID(p) \in ID
  BY DEF RootID, ID

LEMMA IDParts == ASSUME NEW i \in ID PROVE i[1] \in Pod
  BY DEF ID

LEMMA InsertType ==
    ASSUME TablesOK, NEW i \in ID, NEW e \in Entry, Insert(i, e),
           UNCHANGED <<handles, podNet, forwards>>
    PROVE  TablesOK'
  <1>1. /\ DOMAIN containers' = DOMAIN containers \cup {i}
        /\ DOMAIN containers' \subseteq ID
        /\ containers' \in [DOMAIN containers' -> Entry]
    BY DEF Insert, TablesOK, Put
  <1>2. IsFiniteSet(DOMAIN containers')
    BY <1>1, FS_AddElement DEF TablesOK
  <1>3. clobbered' \subseteq Launch
    <2>1. CASE i \in DOMAIN containers /\ containers[i].l \notin {0, e.l}
      <3>1. containers[i].l \in Launch
        BY <2>1 DEF TablesOK, Entry, Launch
      <3> QED
        BY <2>1, <3>1 DEF Insert, TablesOK
    <2>2. CASE ~(i \in DOMAIN containers /\ containers[i].l \notin {0, e.l})
      BY <2>2 DEF Insert, TablesOK
    <2> QED
      BY <2>1, <2>2
  <1> QED
    BY <1>1, <1>2, <1>3 DEF TablesOK

LEMMA MembersType ==
    ASSUME TablesOK, NEW p
    PROVE  /\ Members(containers, p) \subseteq ID
           /\ NextIndex(p) \in Nat \ {0}
  <1>1. Members(containers, p) \subseteq DOMAIN containers
    BY DEF Members
  <1>2. IsFiniteSet(Members(containers, p))
    BY <1>1, FS_Subset DEF TablesOK
  <1>3. Cardinality(Members(containers, p)) \in Nat
    BY <1>2, FS_CardinalityType
  <1> QED
    BY <1>1, <1>3 DEF TablesOK, NextIndex

LEMMA IdleType == Idle \in CliType
  BY BoundsAssumption, RootIDType DEF Idle, CliType, CliOp, Pod

LEMMA InitType == Init => TypeOK
  <1> SUFFICES ASSUME Init PROVE TypeOK
    OBVIOUS
  <1>1. TablesOK
    <2>1. containers = <<>> /\ DOMAIN containers = {} /\ handles = <<>> /\ DOMAIN handles = {}
      BY DEF Init
    <2>2. IsFiniteSet(DOMAIN containers)
      BY <2>1, FS_EmptySet
    <2> QED
      BY <2>1, <2>2, BoundsAssumption DEF Init, TablesOK, Pod
  <1>2. BusOK
    BY BoundsAssumption DEF Init, BusOK
  <1>3. UserOK
    <2>1. cli \in CliType
      BY IdleType DEF Init
    <2>2. panicked \in BOOLEAN
      BY DEF Init
    <2> QED
      BY <2>1, <2>2 DEF Init, UserOK
  <1>4. StartOK
    <2>1. RootID(0) \in ID
      BY RootIDType, BoundsAssumption DEF Pod
    <2> QED
      BY <2>1, BoundsAssumption DEF Init, StartOK, PC
  <1>5. ProcsOK /\ ResourcesOK
    BY DEF Init, ProcsOK, ResourcesOK, InitState
  <1> QED
    BY <1>1, <1>2, <1>3, <1>4, <1>5 DEF TypeOK
-----------------------------------------------------------------------------
(* A part of the type that a step leaves alone. *)

LEMMA TablesFrame == TablesOK /\ UNCHANGED table => TablesOK'
  BY DEF TablesOK, table

LEMMA BusFrame == BusOK /\ UNCHANGED bus => BusOK'
  BY DEF BusOK, bus

LEMMA UserFrame == UserOK /\ UNCHANGED user => UserOK'
  BY DEF UserOK, user

LEMMA StartFrame == StartOK /\ UNCHANGED start => StartOK'
  BY DEF StartOK, start

LEMMA ProcsFrame == ProcsOK /\ UNCHANGED procs => ProcsOK'
  BY DEF ProcsOK, procs

LEMMA ResourcesFrame == ResourcesOK /\ UNCHANGED <<pipes, res>> => ResourcesOK'
  BY DEF ResourcesOK, pipes, res

(* What the helpers of several actions do to their part of the type. *)

LEMMA SpawnType ==
    ASSUME StartOK, UserOK, NEW k \in Creators \cup Joiners, NEW i \in ID,
           NEW at \in PC, next \in Launch, Spawn(k, i, at), UNCHANGED <<grab, ipc>>
    PROVE  StartOK' /\ next' \in Nat \ {0}
  BY DEF StartOK, UserOK, Spawn

LEMMA GotoType ==
    ASSUME StartOK, NEW l \in Launch, NEW p \in PC, Goto(l, p),
           UNCHANGED <<kind, id, grab, ipc>>
    PROVE  StartOK'
  BY DEF StartOK, Goto

LEMMA ReturnType ==
    ASSUME UserOK, NEW l, Return(l), UNCHANGED <<next, kills, panicked>>
    PROVE  UserOK'
  BY IdleType DEF UserOK, Return

LEMMA CommandType == TypeOK /\ Command => TypeOK'
  <1> SUFFICES ASSUME TypeOK, Command PROVE TypeOK'
    OBVIOUS
  <1> USE TablesFrame, BusFrame, UserFrame, StartFrame, ProcsFrame, ResourcesFrame
      DEF TypeOK
  <1>1. ASSUME NEW c, NEW k \in Creators, NewPod(c, k) PROVE TypeOK'
    <2>1. PICK p \in Pod : Spawn(k, RootID(p), "fork")
      BY <1>1 DEF NewPod
    <2>2. RootID(p) \in ID /\ "fork" \in PC
      BY RootIDType DEF PC
    <2>3. StartOK' /\ next' \in Nat \ {0}
      BY <1>1, <2>1, <2>2, SpawnType DEF NewPod
    <2>4. cli' \in CliType
      BY <1>1 DEF NewPod, UserOK, CliType, CliOp
    <2>5. UserOK'
      BY <1>1, <2>3, <2>4 DEF NewPod, UserOK
    <2> QED
      BY <1>1, <2>3, <2>5 DEF NewPod
  <1>2. ASSUME GetNextPodLetterPanics PROVE TypeOK'
    <2>1. UserOK'
      BY <1>2 DEF GetNextPodLetterPanics, UserOK
    <2> QED
      BY <1>2, <2>1 DEF GetNextPodLetterPanics
  <1>3. ASSUME NEW p \in 1..NumLetters, NEW n \in 1..MaxCount, NewJoiners(p, n)
        PROVE  TypeOK'
    <2>1. p \in Pod /\ n \in Nat
      BY BoundsAssumption DEF Pod
    <2>2. cli' \in CliType
      BY <1>3, <2>1 DEF NewJoiners, UserOK, CliType, CliOp
    <2>3. UserOK'
      BY <1>3, <2>2 DEF NewJoiners, UserOK
    <2> QED
      BY <1>3, <2>3 DEF NewJoiners
  <1>4. ASSUME NEW p \in 1..NumLetters, RunInPod(p) PROVE TypeOK'
    <2>1. p \in Pod
      BY BoundsAssumption DEF Pod
    <2>2. cli' \in CliType
      BY <1>4, <2>1 DEF RunInPod, UserOK, CliType, CliOp
    <2>3. UserOK'
      BY <1>4, <2>2 DEF RunInPod, UserOK
    <2> QED
      BY <1>4, <2>3 DEF RunInPod
  <1>5. ASSUME NEW p \in 1..NumLetters, Forward(p) PROVE TypeOK'
    <2>1. p \in Pod
      BY BoundsAssumption DEF Pod
    <2>2. cli' \in CliType
      BY <1>5, <2>1 DEF Forward, UserOK, CliType, CliOp
    <2>3. UserOK'
      BY <1>5, <2>2 DEF Forward, UserOK
    <2> QED
      BY <1>5, <2>3 DEF Forward
  <1>6. ASSUME NEW p \in Pod, KillPod(p) PROVE TypeOK'
    <2>1. cli' \in CliType
      BY <1>6 DEF KillPod, UserOK, CliType, CliOp
    <2>2. UserOK'
      BY <1>6, <2>1 DEF KillPod, UserOK
    <2> QED
      BY <1>6, <2>2 DEF KillPod
  <1>7. ASSUME NEW i \in DOMAIN containers, KillOne(i) PROVE TypeOK'
    <2>1. cli' \in CliType
      BY <1>7 DEF KillOne, UserOK, CliType, CliOp, TablesOK
    <2>2. UserOK'
      BY <1>7, <2>1 DEF KillOne, UserOK
    <2> QED
      BY <1>7, <2>2 DEF KillOne
  <1> QED
    BY <1>1, <1>2, <1>3, <1>4, <1>5, <1>6, <1>7 DEF Command, Creators

LEMMA CliStepType == TypeOK /\ CliStep => TypeOK'
  <1> SUFFICES ASSUME TypeOK, CliStep PROVE TypeOK'
    OBVIOUS
  <1> USE TablesFrame, BusFrame, UserFrame, StartFrame, ProcsFrame, ResourcesFrame
      DEF TypeOK
  <1>1. ASSUME GetNextContainerIndex PROVE TypeOK'
    <2>1. NextIndex(cli.pod) \in Nat \ {0}
      BY MembersType
    <2>2. cli' \in CliType
      BY <1>1, <2>1 DEF GetNextContainerIndex, UserOK, CliType, CliOp
    <2>3. UserOK'
      BY <1>1, <2>2 DEF GetNextContainerIndex, UserOK
    <2> QED
      BY <1>1, <2>3 DEF GetNextContainerIndex
  <1>2. ASSUME PlaceJoiner PROVE TypeOK'
    <2> DEFINE i == <<cli.pod, cli.idx>>
               at == IF cli.nilRoot THEN "nilroot" ELSE "fork"
    <2>1. i \in ID /\ at \in PC /\ "joiner" \in Creators \cup Joiners
      BY DEF UserOK, CliType, ID, PC, Joiners
    <2>2. Placeholder \in Entry
      BY BoundsAssumption DEF Placeholder, Entry
    <2>3. Insert(i, Placeholder) /\ Spawn("joiner", i, at) /\ next \in Launch
          /\ UNCHANGED <<handles, podNet, forwards, grab, ipc>>
      BY <1>2 DEF PlaceJoiner
    <2> HIDE DEF i, at
    <2>4. TablesOK'
      BY <2>1, <2>2, <2>3, InsertType
    <2>5. StartOK' /\ next' \in Nat \ {0}
      BY <2>1, <2>3, SpawnType
    <2>6. cli' \in CliType
      <3>1. CASE cli.left <= 1
        BY <1>2, <3>1, IdleType DEF PlaceJoiner
      <3>2. CASE ~(cli.left <= 1)
        <4>1. cli.left - 1 \in Nat
          BY <3>2 DEF UserOK, CliType
        <4> QED
          BY <1>2, <3>2, <4>1 DEF PlaceJoiner, UserOK, CliType, CliOp
      <3> QED
        BY <3>1, <3>2
    <2>7. UserOK'
      BY <1>2, <2>5, <2>6 DEF PlaceJoiner, UserOK
    <2> QED
      BY <1>2, <2>4, <2>5, <2>7 DEF PlaceJoiner
  <1>3. ASSUME SpawnBatchJoiner PROVE TypeOK'
    <2> DEFINE i == <<cli.pod, NextIndex(cli.pod)>>
               at == IF cli.nilRoot THEN "nilroot" ELSE "fork"
    <2>1. i \in ID /\ at \in PC /\ "batchJoiner" \in Creators \cup Joiners
      BY MembersType DEF UserOK, CliType, ID, PC, Joiners
    <2>2. Spawn("batchJoiner", i, at) /\ next \in Launch /\ UNCHANGED <<grab, ipc>>
      BY <1>3 DEF SpawnBatchJoiner
    <2> HIDE DEF i, at
    <2>3. StartOK' /\ next' \in Nat \ {0}
      BY <2>1, <2>2, SpawnType
    <2>4. UserOK'
      BY <1>3, <2>3, IdleType DEF SpawnBatchJoiner, UserOK
    <2> QED
      BY <1>3, <2>3, <2>4 DEF SpawnBatchJoiner
  <1>4. ASSUME KillRound PROVE TypeOK'
    <2>1. Members(containers, cli.pod) \subseteq ID
      BY MembersType
    <2>2. cli' \in CliType
      <3>1. KillList(Members(containers, cli.pod)) \in CliType
        <4>1. cli.round + 1 \in Nat
          BY DEF UserOK, CliType
        <4> QED
          BY <2>1, <4>1 DEF KillList, UserOK, CliType, CliOp
      <3> QED
        BY <1>4, <3>1, IdleType DEF KillRound
    <2>3. UserOK'
      BY <1>4, <2>2 DEF KillRound, UserOK
    <2> QED
      BY <1>4, <2>3 DEF KillRound
  <1>5. ASSUME AddSession PROVE TypeOK'
    <2>1. UserOK'
      BY <1>5, IdleType DEF AddSession, UserOK
    <2>2. TablesOK'
      BY <1>5 DEF AddSession, TablesOK, UserOK, CliType
    <2> QED
      BY <1>5, <2>1, <2>2 DEF AddSession
  <1>6. ASSUME NEW i \in cli.todo, KillAttempt(i) PROVE TypeOK'
    <2>1. i \in ID
      BY DEF UserOK, CliType
    <2>2. KilledNext(i) \in CliType
      BY IdleType DEF KilledNext, UserOK, CliType, CliOp
    <2>3. cli' \in CliType
      <3>1. KillRetry(i) \in CliType
        <4>1. cli.tries + 1 \in Nat
          BY DEF UserOK, CliType
        <4> QED
          BY <2>1, <4>1 DEF KillRetry, UserOK, CliType
      <3> QED
        BY <1>6, <2>2, <3>1 DEF KillAttempt
    <2>4. UserOK'
      BY <1>6, <2>3 DEF KillAttempt, UserOK
    <2>5. ProcsOK'
      BY <1>6 DEF KillAttempt, KillInit, ProcsOK, InitState
    <2>6. ResourcesOK'
      BY <1>6 DEF KillAttempt, FreeKeepAlive, ResourcesOK, pipes, res
    <2> QED
      BY <1>6, <2>4, <2>5, <2>6 DEF KillAttempt
  <1> QED
    BY <1>1, <1>2, <1>3, <1>4, <1>5, <1>6 DEF CliStep

LEMMA EntryType ==
    ASSUME NEW l \in Launch, NEW g \in {"created", "running"}
    PROVE  [l |-> l, stage |-> g] \in Entry
  BY BoundsAssumption DEF Entry, Launch

LEMMA StartStepType == ASSUME TypeOK, NEW l \in Launch, StartStep(l) PROVE TypeOK'
  <1> USE TablesFrame, BusFrame, UserFrame, StartFrame, ProcsFrame, ResourcesFrame
      DEF TypeOK
  <1>1. ASSUME RootSpecPanics(l) PROVE TypeOK'
    <2>1. UserOK'
      BY <1>1 DEF RootSpecPanics, UserOK
    <2> QED
      BY <1>1, <2>1 DEF RootSpecPanics
  <1>2. ASSUME Fork(l) PROVE TypeOK'
    <2>1. StartOK'
      BY <1>2 DEF Fork, Goto, StartOK, PC
    <2>2. ProcsOK'
      BY <1>2 DEF Fork, ProcsOK, InitState
    <2> QED
      BY <1>2, <2>1, <2>2 DEF Fork
  <1>3. ASSUME SetupUserNS(l) PROVE TypeOK'
    <2>1. StartOK'
      BY <1>3 DEF SetupUserNS, Goto, StartOK, PC
    <2>2. ProcsOK'
      BY <1>3 DEF SetupUserNS, ProcsOK, InitState
    <2> QED
      BY <1>3, <2>1, <2>2 DEF SetupUserNS
  <1>4. ASSUME TakeHandles(l) PROVE TypeOK'
    <2> DEFINE r == FromContainer(l)
    <2>1. CASE r \in DOMAIN handles /\ handles[r].owner # 0
      <3>1. handles' = [handles EXCEPT ![r] = CountRef(@)] /\ Goto(l, "sendmsg")
            /\ grab' = [grab EXCEPT ![l] = handles[r].owner]
        BY <1>4, <2>1 DEF TakeHandles
      <3>2. handles[r] \in Handle
        BY <2>1 DEF TablesOK
      <3>3. CountRef(handles[r]) \in Handle /\ handles[r].owner \in 0..MaxLaunch
        <4>1. handles[r].ref + 1 \in Nat
          BY <3>2 DEF Handle
        <4> QED
          BY <3>2, <4>1 DEF Handle, CountRef
      <3> HIDE DEF r
      <3>4. DOMAIN handles' \subseteq ID /\ handles' \in [DOMAIN handles' -> Handle]
        BY <3>1, <3>3, <2>1 DEF TablesOK
      <3>5. TablesOK'
        BY <1>4, <3>4 DEF TakeHandles, TablesOK
      <3>6. StartOK'
        BY <1>4, <3>1, <3>3 DEF TakeHandles, Goto, StartOK, PC
      <3> QED
        BY <1>4, <3>5, <3>6 DEF TakeHandles
    <2>2. CASE ~(r \in DOMAIN handles /\ handles[r].owner # 0)
      <3>1. UNCHANGED table /\ UNCHANGED <<kind, id, grab, ipc>> /\ Goto(l, "created")
        BY <1>4, <2>2 DEF TakeHandles, table
      <3>2. StartOK'
        BY <3>1, GotoType DEF PC
      <3> QED
        BY <1>4, <3>1, <3>2 DEF TakeHandles
    <2> QED
      BY <2>1, <2>2
  <1>5. ASSUME SendNamespaceFDs(l) PROVE TypeOK'
    <2>1. StartOK'
      BY <1>5 DEF SendNamespaceFDs, Goto, StartOK, PC
    <2>2. ProcsOK'
      BY <1>5 DEF SendNamespaceFDs, ProcsOK, InitState
    <2> QED
      BY <1>5, <2>1, <2>2 DEF SendNamespaceFDs
  <1>6. ASSUME InsertCreated(l) PROVE TypeOK'
    <2>1. TablesOK'
      <3>1. id[l] \in ID
        BY DEF StartOK
      <3> QED
        BY <1>6, <3>1, EntryType, InsertType DEF InsertCreated
    <2>2. StartOK'
      BY <1>6 DEF InsertCreated, Goto, StartOK, PC
    <2> QED
      BY <1>6, <2>1, <2>2 DEF InsertCreated
  <1>7. ASSUME Receive(l) PROVE TypeOK'
    <2>1. id[l] \in ID
      BY DEF StartOK
    <2>2. [owner |-> l, ref |-> 1] \in Handle /\ [owner |-> 0, ref |-> 0] \in Handle
      BY BoundsAssumption DEF Handle, Launch
    <2>3. TablesOK'
      BY <1>7, <2>1, <2>2
      DEF Receive, RegisterNamespaceHandles, Put, TablesOK
    <2>4. ResourcesOK'
      BY <1>7 DEF Receive, RegisterNamespaceHandles, ResourcesOK, pipes
    <2>5. StartOK'
      BY <1>7 DEF Receive, Goto, StartOK, PC
    <2> QED
      BY <1>7, <2>3, <2>4, <2>5 DEF Receive
  <1>8. ASSUME NetworkConfig(l) PROVE TypeOK'
    <2>1. ResourcesOK'
      BY <1>8 DEF NetworkConfig, ResourcesOK, pipes
    <2>2. StartOK'
      BY <1>8 DEF NetworkConfig, Goto, StartOK, PC
    <2> QED
      BY <1>8, <2>1, <2>2 DEF NetworkConfig
  <1>9. ASSUME InsertRunning(l) PROVE TypeOK'
    <2>1. TablesOK'
      <3>1. id[l] \in ID
        BY DEF StartOK
      <3> QED
        BY <1>9, <3>1, EntryType, InsertType DEF InsertRunning
    <2>2. StartOK'
      BY <1>9 DEF InsertRunning, Goto, StartOK, PC
    <2> QED
      BY <1>9, <2>1, <2>2 DEF InsertRunning
  <1>10. ASSUME SetIPC(l) PROVE TypeOK'
    <2>1. StartOK'
      BY <1>10 DEF SetIPC, Goto, StartOK, PC
    <2> QED
      BY <1>10, <2>1 DEF SetIPC
  <1>11. ASSUME FreeBatchRoot(l) PROVE TypeOK'
    <2>1. StartOK'
      BY <1>11 DEF FreeBatchRoot, Goto, StartOK, PC
    <2>2. ResourcesOK'
      BY <1>11 DEF FreeBatchRoot, FreeKeepAlive, ResourcesOK, res
    <2> QED
      BY <1>11, <2>1, <2>2 DEF FreeBatchRoot
  <1>12. ASSUME Reinsert(l) PROVE TypeOK'
    <2>1. TablesOK'
      <3>1. id[l] \in ID
        BY DEF StartOK
      <3> QED
        BY <1>12, <3>1, EntryType, InsertType DEF Reinsert
    <2>2. StartOK'
      BY <1>12 DEF Reinsert, Goto, StartOK, PC
    <2>3. UserOK'
      BY <1>12, ReturnType DEF Reinsert
    <2> QED
      BY <1>12, <2>1, <2>2, <2>3 DEF Reinsert
  <1> QED
    BY <1>1, <1>2, <1>3, <1>4, <1>5, <1>6, <1>7, <1>8, <1>9, <1>10, <1>11, <1>12
    DEF StartStep

LEMMA ProcessStepType ==
    ASSUME TypeOK, NEW l \in Launch,
           ProcessStep(l) \/ Fault(l) \/ WorkloadExits(l) \/ Reap(l)
    PROVE  TypeOK'
  <1> USE TablesFrame, BusFrame, UserFrame, StartFrame, ProcsFrame, ResourcesFrame
      DEF TypeOK
  <1>1. ASSUME ProcessStep(l) \/ InitDies(l) \/ WorkloadExits(l) PROVE TypeOK'
    <2>1. UNCHANGED <<table, user, start, pipes, res, bus>>
      BY <1>1
      DEF ProcessStep, InitReady, InitForks, InitSends, InitWaits, InitReleased,
          InitDies, WorkloadExits
    <2>2. init' \in [Launch -> InitState]
      BY <1>1
      DEF ProcessStep, InitReady, InitForks, InitSends, InitWaits, InitReleased,
          InitDies, WorkloadExits, InitStep, ProcsOK, InitState
    <2>3. work' \in [Launch -> {"none", "alive", "dead"}]
      BY <1>1
      DEF ProcessStep, InitReady, InitForks, InitSends, InitWaits, InitReleased,
          InitDies, WorkloadExits, ProcsOK
    <2>4. sent' \in [Launch -> {"nothing", "ready", "created"}]
      BY <1>1
      DEF ProcessStep, InitReady, InitForks, InitSends, InitWaits, InitReleased,
          InitDies, WorkloadExits, ProcsOK
    <2> QED
      BY <2>1, <2>2, <2>3, <2>4 DEF ProcsOK
  <1>2. ASSUME ForkFails(l) PROVE TypeOK'
    <2>1. StartOK'
      BY <1>2 DEF ForkFails, Goto, StartOK, PC
    <2>2. UserOK'
      BY <1>2, ReturnType DEF ForkFails
    <2> QED
      BY <1>2, <2>1, <2>2 DEF ForkFails
  <1>3. ASSUME SetupUserNSFails(l) PROVE TypeOK'
    <2>1. StartOK'
      BY <1>3 DEF SetupUserNSFails, Goto, StartOK, PC
    <2>2. UserOK'
      BY <1>3, ReturnType DEF SetupUserNSFails
    <2> QED
      BY <1>3, <2>1, <2>2 DEF SetupUserNSFails
  <1>4. ASSUME Reap(l) PROVE TypeOK'
    <2>1. l \in 0..MaxLaunch
      BY BoundsAssumption DEF Launch
    <2>2. events' \in Seq(0..MaxLaunch) /\ Len(events') <= EventCap
      BY <1>4, <2>1, BoundsAssumption DEF Reap, HasRoom, BusOK
    <2>3. BusOK'
      BY <1>4, <2>2 DEF Reap, BusOK
    <2>4. ProcsOK'
      BY <1>4 DEF Reap, InitStep, ProcsOK, InitState
    <2> QED
      BY <1>4, <2>3, <2>4 DEF Reap
  <1> QED
    BY <1>1, <1>2, <1>3, <1>4 DEF Fault

LEMMA SignalType == TypeOK /\ Signal => TypeOK'
  <1> SUFFICES ASSUME TypeOK, Signal PROVE TypeOK'
    OBVIOUS
  <1> USE TablesFrame, UserFrame, StartFrame, ProcsFrame, ResourcesFrame DEF TypeOK
  <1>1. events' \in Seq(0..MaxLaunch) /\ Len(events') <= EventCap
    BY BoundsAssumption DEF Signal, HasRoom, BusOK
  <1>2. BusOK'
    BY <1>1 DEF Signal, BusOK
  <1> QED
    BY <1>2 DEF Signal

LEMMA EventTaken ==
    ASSUME BusOK, events # <<>>
    PROVE  /\ Head(events) \in 0..MaxLaunch
           /\ Tail(events) \in Seq(0..MaxLaunch) /\ Len(Tail(events)) <= EventCap
  BY BoundsAssumption DEF BusOK

LEMMA HandlerStepType == TypeOK /\ HandlerStep => TypeOK'
  <1> SUFFICES ASSUME TypeOK, HandlerStep PROVE TypeOK'
    OBVIOUS
  <1> USE TablesFrame, BusFrame, UserFrame, StartFrame, ProcsFrame, ResourcesFrame
      DEF TypeOK
  <1>1. ASSUME OnSignal PROVE TypeOK'
    <2>1. BusOK'
      BY <1>1, EventTaken DEF OnSignal, Handling, BusOK
    <2>2. ProcsOK'
      BY <1>1 DEF OnSignal, ProcsOK, InitState
    <2> QED
      BY <1>1, <2>1, <2>2 DEF OnSignal
  <1>2. ASSUME OnUnknownExit PROVE TypeOK'
    <2>1. BusOK'
      BY <1>2, EventTaken DEF OnUnknownExit, Handling, BusOK
    <2> QED
      BY <1>2, <2>1 DEF OnUnknownExit
  <1>3. ASSUME NEW i \in DOMAIN containers, OnContainerExit(i) PROVE TypeOK'
    <2> DEFINE rest == Del(containers, i)
    <2>1. BusOK'
      BY <1>3, EventTaken DEF OnContainerExit, Handling, BusOK
    <2>2. /\ DropHandles(i) /\ containers' = rest
          /\ releaseLastNetRootKeepAlive(i[1], rest)
          /\ CleanupPod(i[1], SavedNet(i), IsPod(i) /\ isPodEmpty(i[1], rest))
          /\ UNCHANGED <<clobbered, user, start, procs>>
      BY <1>3 DEF OnContainerExit
    <2>3. i \in ID /\ i[1] \in Pod
      BY IDParts DEF TablesOK
    <2>4. SavedNet(i) \in 0..MaxLaunch /\ containers[i] \in Entry
      BY <2>3, BoundsAssumption DEF SavedNet, EntryNet, TablesOK, Entry
    <2>5. /\ DOMAIN containers' = DOMAIN containers \ {i}
          /\ containers' \in [DOMAIN containers' -> Entry]
      BY <2>2 DEF Del, TablesOK
    <2>6. IsFiniteSet(DOMAIN containers')
      BY <2>5, FS_Subset DEF TablesOK
    <2>7. DOMAIN handles' \subseteq ID /\ handles' \in [DOMAIN handles' -> Handle]
      BY <2>2 DEF DropHandles, Del, TablesOK
    <2>8. podNet' \in [Pod -> 0..MaxLaunch] /\ forwards' \subseteq Pod
      BY <2>2, <2>3, <2>4, BoundsAssumption DEF CleanupPod, NetAfter, TablesOK
    <2>9. TablesOK'
      BY <2>2, <2>5, <2>6, <2>7, <2>8 DEF TablesOK
    <2>10. nsFd' \in [Launch -> {"none", "open", "closed"}]
      BY <2>2 DEF DropHandles, ResourcesOK
    <2>11. net' \in [Launch -> {"none", "up", "removed"}]
      BY <2>2 DEF CleanupPod, ResourcesOK
    <2>12. keep' \in [Launch -> BOOLEAN] /\ released' \in [Launch -> BOOLEAN]
      BY <2>2 DEF releaseLastNetRootKeepAlive
    <2>13. ResourcesOK'
      BY <2>10, <2>11, <2>12 DEF ResourcesOK
    <2> QED
      BY <2>1, <2>2, <2>9, <2>13
  <1> QED
    BY <1>1, <1>2, <1>3 DEF HandlerStep

LEMMA TypeStep == TypeOK /\ [Next]_vars => TypeOK'
  <1> SUFFICES ASSUME TypeOK, [Next]_vars PROVE TypeOK'
    OBVIOUS
  <1>1. CASE UNCHANGED vars
    BY <1>1, TablesFrame, BusFrame, UserFrame, StartFrame, ProcsFrame, ResourcesFrame
    DEF TypeOK, vars
  <1>2. CASE Next
    BY <1>2, CommandType, CliStepType, HandlerStepType, SignalType, StartStepType,
       ProcessStepType
    DEF Next
  <1> QED
    BY <1>1, <1>2

\* Type correctness of the supervisor, for every bound.
THEOREM TypeCorrect == Spec => []TypeOK
  BY InitType, TypeStep, PTL DEF Spec

-----------------------------------------------------------------------------
(* The reference count of shared namespace descriptors.                     *)

(* Launches that are not started yet are untouched. *)
Fresh == \A l \in Launch : l >= next => pc[l] = "none"

Registered == {"net", "insert", "ipc", "free", "reinsert", "done"}

(* Only a root that has reported its namespaces has descriptors. *)
DescriptorOwner ==
    \A l \in Launch : nsFd[l] # "none" => pc[l] \in Registered /\ IsCreator(l)

(* A listed handle belongs to the root of that name and is open. *)
HandleOpen ==
    \A i \in DOMAIN handles : handles[i].owner # 0 =>
        /\ id[handles[i].owner] = i /\ nsFd[handles[i].owner] = "open"
        /\ handles[i].ref >= 1

(* A descriptor once taken by a joiner stays open: while it is listed its  *)
(* count is at least two, and the handler gives up only one.               *)
TakenStaysOpen ==
    \A l \in Launch : grab[l] # 0 =>
        /\ pc[l] # "none" /\ nsFd[grab[l]] = "open"
        /\ id[grab[l]] = RootID(id[l][1])
        /\ \A i \in DOMAIN handles :
              handles[i].owner = grab[l] => handles[i].ref >= 2

Sending == \A l \in Launch : pc[l] = "sendmsg" => grab[l] # 0

RefInv == Fresh /\ DescriptorOwner /\ HandleOpen /\ TakenStaysOpen /\ Sending
refVars == <<next, pc, kind, id, grab, nsFd, handles>>

LEMMA RefFrame == RefInv /\ UNCHANGED refVars => RefInv'
  BY DEF RefInv, refVars, Fresh, DescriptorOwner, HandleOpen, TakenStaysOpen, Sending,
         IsCreator, Registered

(* A new launch: nothing refers to it yet. *)
LEMMA SpawnRef ==
    ASSUME TypeOK, RefInv, next \in Launch, NEW k, NEW i, NEW at \in {"fork", "nilroot"},
           Spawn(k, i, at), UNCHANGED <<grab, nsFd, handles>>
    PROVE  RefInv'
  <1> USE DEF TypeOK, StartOK, UserOK, ResourcesOK, TablesOK, Handle, Spawn, Launch
  <1>1. pc[next] = "none"
    BY DEF RefInv, Fresh
  <1>2. nsFd[next] = "none"
    BY <1>1 DEF RefInv, DescriptorOwner, Registered
  <1>3. grab[next] = 0 /\ \A l \in Launch : grab[l] # next
    BY <1>1, <1>2 DEF RefInv, TakenStaysOpen
  <1>4. \A j \in DOMAIN handles : handles[j].owner # next
    BY <1>2, BoundsAssumption DEF RefInv, HandleOpen
  <1>5. Fresh'
    BY DEF RefInv, Fresh
  <1>6. DescriptorOwner'
    BY <1>2 DEF RefInv, DescriptorOwner, IsCreator
  <1>7. HandleOpen'
    BY <1>4 DEF RefInv, HandleOpen
  <1>8. TakenStaysOpen'
    BY <1>3 DEF RefInv, TakenStaysOpen
  <1>9. Sending'
    BY DEF RefInv, Sending
  <1> QED
    BY <1>5, <1>6, <1>7, <1>8, <1>9 DEF RefInv

(* A launch goes on without touching descriptors. *)
LEMMA GotoRef ==
    ASSUME TypeOK, RefInv, NEW l \in Launch, pc[l] # "none",
           NEW q \in PC \ {"none", "sendmsg"}, pc[l] \in Registered => q \in Registered,
           Goto(l, q), UNCHANGED <<next, kind, id, grab, nsFd, handles>>
    PROVE  RefInv'
  <1> USE DEF TypeOK, StartOK, UserOK, Goto
  <1>1. Fresh'
    BY DEF RefInv, Fresh
  <1>2. DescriptorOwner'
    BY DEF RefInv, DescriptorOwner, IsCreator
  <1>3. HandleOpen'
    BY DEF RefInv, HandleOpen
  <1>4. TakenStaysOpen'
    BY DEF RefInv, TakenStaysOpen
  <1>5. Sending'
    BY DEF RefInv, Sending
  <1> QED
    BY <1>1, <1>2, <1>3, <1>4, <1>5 DEF RefInv

LEMMA TakeHandlesRef ==
    ASSUME TypeOK, RefInv, NEW l \in Launch, TakeHandles(l)
    PROVE  RefInv'
  <1> DEFINE r == FromContainer(l)
  <1>1. CASE r \in DOMAIN handles /\ handles[r].owner # 0
    <2>1. /\ handles' = [handles EXCEPT ![r] = CountRef(@)]
          /\ grab' = [grab EXCEPT ![l] = handles[r].owner]
          /\ pc' = [pc EXCEPT ![l] = "sendmsg"] /\ pc[l] = "sendns"
          /\ UNCHANGED <<next, kind, id, nsFd>>
      BY <1>1 DEF TakeHandles, Goto, At, user, res
    <2>2. handles[r] \in Handle /\ handles[r].owner \in Launch /\ handles[r].ref \in Nat
      BY <1>1 DEF TypeOK, TablesOK, Handle, Launch
    <2>3. /\ DOMAIN handles' = DOMAIN handles
          /\ handles'[r].owner = handles[r].owner /\ handles'[r].ref = handles[r].ref + 1
          /\ \A i \in DOMAIN handles \ {r} : handles'[i] = handles[i]
      BY <1>1, <2>1, <2>2 DEF CountRef, TypeOK, TablesOK, Handle
    <2>4. r = RootID(id[l][1])
      BY DEF FromContainer
    <2> HIDE DEF r
    <2>5. Fresh'
      BY <2>1 DEF RefInv, Fresh, TypeOK, StartOK, UserOK
    <2>6. DescriptorOwner'
      BY <2>1 DEF RefInv, DescriptorOwner, IsCreator, Registered, TypeOK, StartOK
    <2>7. HandleOpen'
      BY <2>1, <2>2, <2>3 DEF RefInv, HandleOpen, TypeOK, TablesOK, Handle
    <2>8. id[handles[r].owner] = r /\ nsFd[handles[r].owner] = "open" /\ handles[r].ref >= 1
      BY <1>1 DEF RefInv, HandleOpen
    <2>9. \A i \in DOMAIN handles : handles[i].owner = handles[r].owner => i = r
      BY <1>1, <2>8 DEF RefInv, HandleOpen
    <2>10. \A i \in DOMAIN handles' : handles'[i].owner = handles[r].owner
                                         => handles'[i].ref >= 2
      BY <1>1, <2>2, <2>3, <2>8, <2>9
    <2>11. \A i \in DOMAIN handles : /\ handles'[i].owner = handles[i].owner
                                     /\ handles[i].ref >= 2 => handles'[i].ref >= 2
      BY <2>2, <2>3
    <2>12. TakenStaysOpen'
      <3> SUFFICES ASSUME NEW m \in Launch, grab'[m] # 0
                   PROVE  /\ pc'[m] # "none" /\ nsFd'[grab'[m]] = "open"
                          /\ id'[grab'[m]] = RootID(id'[m][1])
                          /\ \A i \in DOMAIN handles' :
                                handles'[i].owner = grab'[m] => handles'[i].ref >= 2
        BY DEF TakenStaysOpen
      <3>1. CASE m = l
        BY <3>1, <2>1, <2>4, <2>8, <2>10 DEF TypeOK, StartOK
      <3>2. CASE m # l
        BY <3>2, <2>1, <2>3, <2>11 DEF RefInv, TakenStaysOpen, TypeOK, StartOK
      <3> QED
        BY <3>1, <3>2
    <2>13. Sending'
      BY <1>1, <2>1 DEF RefInv, Sending, TypeOK, StartOK
    <2> QED
      BY <2>5, <2>6, <2>7, <2>12, <2>13 DEF RefInv
  <1>2. CASE ~(r \in DOMAIN handles /\ handles[r].owner # 0)
    <2>1. Goto(l, "created") /\ pc[l] = "sendns"
          /\ UNCHANGED <<next, kind, id, grab, nsFd, handles>>
      BY <1>2 DEF TakeHandles, At, user, res
    <2> QED
      BY <2>1, GotoRef DEF PC, Registered
  <1> QED
    BY <1>1, <1>2

(* A root's descriptors are new: no handle and no joiner knows them yet. *)
LEMMA ReceiveRef ==
    ASSUME TypeOK, RefInv, NEW l \in Launch, Receive(l)
    PROVE  RefInv'
  <1>1. pc[l] = "recv" /\ UNCHANGED <<next, kind, id, grab>>
        /\ pc' = [pc EXCEPT ![l] = IF IsCreator(l) THEN "net" ELSE "insert"]
    BY DEF Receive, At, Goto, user
  <1>2. nsFd[l] = "none"
    BY <1>1 DEF RefInv, DescriptorOwner, Registered, TypeOK, ResourcesOK
  <1>3. \A m \in Launch : grab[m] # l
    BY <1>2, BoundsAssumption DEF RefInv, TakenStaysOpen, Launch
  <1>4. \A i \in DOMAIN handles : handles[i].owner # l
    BY <1>2, BoundsAssumption DEF RefInv, HandleOpen, Launch
  <1>5. Fresh' /\ Sending'
    BY <1>1 DEF RefInv, Fresh, Sending, TypeOK, StartOK, UserOK
  <1>6. CASE IsCreator(l)
    <2>1. /\ handles' = Put(handles, id[l], [owner |-> l, ref |-> 1])
          /\ nsFd' = [nsFd EXCEPT ![l] = "open"]
      BY <1>6 DEF Receive, RegisterNamespaceHandles
    <2>2. /\ DOMAIN handles' = DOMAIN handles \cup {id[l]}
          /\ handles'[id[l]].owner = l /\ handles'[id[l]].ref = 1
          /\ \A i \in DOMAIN handles \ {id[l]} : handles'[i] = handles[i]
      BY <2>1 DEF Put
    <2>3. DescriptorOwner'
      BY <1>1, <1>6, <2>1
      DEF RefInv, DescriptorOwner, IsCreator, Registered, TypeOK, StartOK, ResourcesOK
    <2>4. HandleOpen'
      BY <1>1, <1>4, <2>1, <2>2 DEF RefInv, HandleOpen, TypeOK, ResourcesOK
    <2>5. TakenStaysOpen'
      <3> SUFFICES ASSUME NEW m \in Launch, grab'[m] # 0
                   PROVE  /\ pc'[m] # "none" /\ nsFd'[grab'[m]] = "open"
                          /\ id'[grab'[m]] = RootID(id'[m][1])
                          /\ \A i \in DOMAIN handles' :
                                handles'[i].owner = grab'[m] => handles'[i].ref >= 2
        BY DEF TakenStaysOpen
      <3>1. pc'[m] # "none"
        BY <1>1 DEF RefInv, TakenStaysOpen, TypeOK, StartOK
      <3>2. nsFd'[grab'[m]] = "open" /\ id'[grab'[m]] = RootID(id'[m][1])
        BY <1>1, <1>3, <2>1 DEF RefInv, TakenStaysOpen, TypeOK, ResourcesOK, StartOK
      <3>3. ASSUME NEW i \in DOMAIN handles', handles'[i].owner = grab'[m]
            PROVE  handles'[i].ref >= 2
        BY <1>1, <1>3, <2>2, <3>3 DEF RefInv, TakenStaysOpen
      <3> QED
        BY <3>1, <3>2, <3>3
    <2> QED
      BY <1>5, <2>3, <2>4, <2>5 DEF RefInv
  <1>7. CASE ~IsCreator(l)
    <2>1. /\ handles' = IF id[l] \in DOMAIN handles THEN handles
                        ELSE Put(handles, id[l], [owner |-> 0, ref |-> 0])
          /\ UNCHANGED nsFd
      BY <1>7 DEF Receive, RegisterNamespaceHandles
    <2>2. \A i \in DOMAIN handles' : handles'[i].owner # 0 =>
            i \in DOMAIN handles /\ handles'[i] = handles[i]
      BY <2>1 DEF Put
    <2>3. DescriptorOwner'
      BY <1>1, <2>1 DEF RefInv, DescriptorOwner, IsCreator, Registered, TypeOK, StartOK
    <2>4. HandleOpen'
      BY <1>1, <2>1, <2>2 DEF RefInv, HandleOpen
    <2>5. TakenStaysOpen'
      BY <1>1, <2>1, <2>2 DEF RefInv, TakenStaysOpen, TypeOK, StartOK
    <2> QED
      BY <1>5, <2>3, <2>4, <2>5 DEF RefInv
  <1> QED
    BY <1>6, <1>7

(* The handler closes at a count of one, which no taken descriptor has. *)
LEMMA ExitRef ==
    ASSUME TypeOK, RefInv, NEW i \in DOMAIN containers, OnContainerExit(i)
    PROVE  RefInv'
  <1>1. DropHandles(i) /\ UNCHANGED <<next, pc, kind, id, grab>>
    BY DEF OnContainerExit, user, start
  <1>2. /\ DOMAIN handles' = DOMAIN handles \ {i}
        /\ \A j \in DOMAIN handles' : handles'[j] = handles[j]
    BY <1>1 DEF DropHandles, Del
  <1>3. \A l \in Launch : nsFd'[l] = IF i \in DOMAIN handles /\ handles[i].owner = l
                                         /\ handles[i].ref = 1 THEN "closed" ELSE nsFd[l]
    BY <1>1 DEF DropHandles, LastRef
  <1>4. Fresh' /\ Sending'
    BY <1>1 DEF RefInv, Fresh, Sending
  <1>5. DescriptorOwner'
    <2> SUFFICES ASSUME NEW l \in Launch, nsFd'[l] # "none"
                 PROVE  pc[l] \in Registered /\ kind[l] \in Creators
      BY <1>1 DEF DescriptorOwner, IsCreator
    <2>1. nsFd[l] # "none"
      BY <1>3, BoundsAssumption DEF RefInv, HandleOpen, Launch
    <2> QED
      BY <2>1 DEF RefInv, DescriptorOwner, IsCreator
  <1>6. HandleOpen'
    <2> SUFFICES ASSUME NEW j \in DOMAIN handles', handles'[j].owner # 0
                 PROVE  /\ id[handles'[j].owner] = j /\ nsFd'[handles'[j].owner] = "open"
                        /\ handles'[j].ref >= 1
      BY <1>1 DEF HandleOpen
    <2>1. j \in DOMAIN handles /\ j # i /\ handles'[j] = handles[j]
      BY <1>2
    <2>2. id[handles[j].owner] = j /\ nsFd[handles[j].owner] = "open" /\ handles[j].ref >= 1
      BY <2>1 DEF RefInv, HandleOpen
    <2>3. handles[j].owner \in Launch
      BY <2>1 DEF TypeOK, TablesOK, Handle, Launch
    <2>4. ~(i \in DOMAIN handles /\ handles[i].owner = handles[j].owner)
      BY <2>1, <2>2 DEF RefInv, HandleOpen
    <2> QED
      BY <1>3, <2>1, <2>2, <2>3, <2>4
  <1>7. TakenStaysOpen'
    <2> SUFFICES ASSUME NEW m \in Launch, grab[m] # 0
                 PROVE  /\ pc[m] # "none" /\ nsFd'[grab[m]] = "open"
                        /\ id[grab[m]] = RootID(id[m][1])
                        /\ \A j \in DOMAIN handles' :
                              handles'[j].owner = grab[m] => handles'[j].ref >= 2
      BY <1>1 DEF TakenStaysOpen
    <2>1. grab[m] \in Launch
      BY DEF TypeOK, StartOK, Launch
    <2>2. /\ pc[m] # "none" /\ nsFd[grab[m]] = "open" /\ id[grab[m]] = RootID(id[m][1])
          /\ \A j \in DOMAIN handles : handles[j].owner = grab[m] => handles[j].ref >= 2
      BY DEF RefInv, TakenStaysOpen
    <2>3. nsFd'[grab[m]] = "open"
      BY <1>3, <2>1, <2>2
    <2> QED
      BY <1>2, <2>2, <2>3
  <1> QED
    BY <1>4, <1>5, <1>6, <1>7 DEF RefInv

LEMMA InitRef == Init => RefInv
  BY DEF Init, RefInv, Fresh, DescriptorOwner, HandleOpen, TakenStaysOpen, Sending

LEMMA CommandRef == TypeOK /\ RefInv /\ (Command \/ CliStep) => RefInv'
  <1> SUFFICES ASSUME TypeOK, RefInv, Command \/ CliStep PROVE RefInv'
    OBVIOUS
  <1>1. ASSUME NEW c, NEW k, NewPod(c, k) PROVE RefInv'
    <2>1. PICK p \in Pod : Spawn(k, RootID(p), "fork")
      BY <1>1 DEF NewPod
    <2> QED
      BY <1>1, <2>1, SpawnRef DEF NewPod, table, res
  <1>2. ASSUME PlaceJoiner PROVE RefInv'
    <2> DEFINE at == IF cli.nilRoot THEN "nilroot" ELSE "fork"
    <2>1. /\ at \in {"fork", "nilroot"} /\ next \in Launch
          /\ Spawn("joiner", <<cli.pod, cli.idx>>, at)
          /\ UNCHANGED <<grab, nsFd, handles>>
      BY <1>2 DEF PlaceJoiner, res
    <2> HIDE DEF at
    <2> QED
      BY <2>1, SpawnRef
  <1>3. ASSUME SpawnBatchJoiner PROVE RefInv'
    <2> DEFINE at == IF cli.nilRoot THEN "nilroot" ELSE "fork"
    <2>1. /\ at \in {"fork", "nilroot"} /\ next \in Launch
          /\ Spawn("batchJoiner", <<cli.pod, NextIndex(cli.pod)>>, at)
          /\ UNCHANGED <<grab, nsFd, handles>>
      BY <1>3 DEF SpawnBatchJoiner, table, res
    <2> HIDE DEF at
    <2> QED
      BY <2>1, SpawnRef
  <1>4. ASSUME NEW p, NEW n, \/ GetNextPodLetterPanics \/ NewJoiners(p, n)
                             \/ RunInPod(p) \/ Forward(p) \/ KillPod(p)
        PROVE  RefInv'
    <2>1. UNCHANGED refVars
      BY <1>4 DEF GetNextPodLetterPanics, NewJoiners, RunInPod, Forward, KillPod,
                  refVars, table, start, res
    <2> QED
      BY <2>1, RefFrame
  <1>5. ASSUME NEW i, \/ KillOne(i) \/ KillAttempt(i) \/ GetNextContainerIndex
                      \/ KillRound \/ AddSession
        PROVE  RefInv'
    <2>1. UNCHANGED refVars
      BY <1>5 DEF KillOne, KillAttempt, GetNextContainerIndex, KillRound, AddSession,
                  refVars, table, start, res
    <2> QED
      BY <2>1, RefFrame
  <1>6. CASE Command
    BY <1>1, <1>4, <1>5, <1>6 DEF Command
  <1>7. CASE CliStep
    BY <1>2, <1>3, <1>5, <1>7 DEF CliStep
  <1> QED
    BY <1>6, <1>7

LEMMA StartRef ==
    ASSUME TypeOK, RefInv, NEW l \in Launch, StartStep(l) \/ Fault(l)
    PROVE  RefInv'
  <1> USE DEF At, table, user, start, res
  <1>1. ASSUME RootSpecPanics(l) \/ InitDies(l) PROVE RefInv'
    <2>1. UNCHANGED refVars
      BY <1>1 DEF RootSpecPanics, InitDies, refVars
    <2> QED
      BY <2>1, RefFrame
  <1>2. ASSUME NEW q \in PC, NEW q1 \in PC, pc[l] = q1, q1 # "none",
               q \notin {"none", "sendmsg"}, q1 \in Registered => q \in Registered,
               Goto(l, q), UNCHANGED <<next, kind, id, grab, nsFd, handles>>
        PROVE  RefInv'
    BY <1>2, GotoRef
  <1>3. ASSUME Fork(l) PROVE RefInv'
    <2>1. CASE IsCreator(l)
      BY <1>2, <1>3, <2>1 DEF Fork, PC, Registered
    <2>2. CASE ~IsCreator(l)
      BY <1>2, <1>3, <2>2 DEF Fork, PC, Registered
    <2> QED
      BY <2>1, <2>2
  <1>4. ASSUME ForkFails(l) \/ SetupUserNSFails(l) PROVE RefInv'
    BY <1>2, <1>4 DEF ForkFails, SetupUserNSFails, PC, Registered
  <1>5. ASSUME SetupUserNS(l) \/ SendNamespaceFDs(l) PROVE RefInv'
    BY <1>2, <1>5 DEF SetupUserNS, SendNamespaceFDs, PC, Registered
  <1>6. ASSUME InsertCreated(l) \/ NetworkConfig(l) \/ InsertRunning(l) PROVE RefInv'
    BY <1>2, <1>6 DEF InsertCreated, NetworkConfig, InsertRunning, PC, Registered
  <1>7. ASSUME SetIPC(l) PROVE RefInv'
    <2>1. CASE kind[l] = "creator"
      BY <1>2, <1>7, <2>1 DEF SetIPC, PC, Registered
    <2>2. CASE kind[l] = "batchCreator"
      BY <1>2, <1>7, <2>2 DEF SetIPC, PC, Registered
    <2>3. CASE kind[l] \notin {"creator", "batchCreator"}
      BY <1>2, <1>7, <2>3 DEF SetIPC, PC, Registered
    <2> QED
      BY <2>1, <2>2, <2>3
  <1>8. ASSUME FreeBatchRoot(l) \/ Reinsert(l) PROVE RefInv'
    BY <1>2, <1>8 DEF FreeBatchRoot, Reinsert, PC, Registered
  <1> QED
    BY <1>1, <1>3, <1>4, <1>5, <1>6, <1>7, <1>8, TakeHandlesRef, ReceiveRef
    DEF StartStep, Fault

LEMMA RefStep == TypeOK /\ RefInv /\ [Next]_vars => RefInv'
  <1> SUFFICES ASSUME TypeOK, RefInv, [Next]_vars PROVE RefInv'
    OBVIOUS
  <1>1. CASE UNCHANGED vars
    BY <1>1, RefFrame DEF vars, refVars, table, user, start, res
  <1>2. ASSUME NEW l, ProcessStep(l) \/ Reap(l) \/ WorkloadExits(l) PROVE RefInv'
    <2>1. UNCHANGED refVars
      BY <1>2
      DEF ProcessStep, InitReady, InitForks, InitSends, InitWaits, InitReleased,
          Reap, WorkloadExits, refVars, table, user, start, res
    <2> QED
      BY <2>1, RefFrame
  <1>3. ASSUME Signal \/ OnSignal \/ OnUnknownExit PROVE RefInv'
    <2>1. UNCHANGED refVars
      BY <1>3 DEF Signal, OnSignal, OnUnknownExit, refVars, table, user, start, res
    <2> QED
      BY <2>1, RefFrame
  <1>4. CASE HandlerStep
    BY <1>3, <1>4, ExitRef DEF HandlerStep
  <1>5. CASE Next
    BY <1>2, <1>3, <1>4, <1>5, CommandRef, StartRef DEF Next
  <1> QED
    BY <1>1, <1>5

\* The reference-count argument holds in every state of the supervisor: handles
\* that are listed are open, and one a joiner has taken is never closed.
THEOREM ReferenceCount == Spec => []RefInv
  BY TypeCorrect, InitRef, RefStep, PTL DEF Spec

\* SendNamespaceFDs sends descriptors after the unlock that OnContainerExit has
\* not closed, for any number of containers, kills and letters.
THEOREM DescriptorsOpen == Spec => []NoUseAfterClose
  <1>1. RefInv => NoUseAfterClose
    BY DEF RefInv, Sending, TakenStaysOpen, NoUseAfterClose
  <1> QED
    BY <1>1, ReferenceCount, PTL
=============================================================================

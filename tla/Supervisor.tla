----------------------------- MODULE Supervisor -----------------------------
(***************************************************************************)
(* The supervisor of bctor: the container table, the namespace-handle      *)
(* table, the CLI that starts and kills containers, the goroutines that    *)
(* start joiners, the container inits, the reaper and the exit handler     *)
(* (sup/orchestrator.go, sup/supervisor.go, sup/clean.go, sup/commands.go, *)
(* sup/reaper.go, lib/fds_setup.go, lib/workload.go).                      *)
(*                                                                         *)
(* A launch is one call of StartContainer.  It stands for its IPC, its     *)
(* init process and its workload process: launch l owns all three, so a    *)
(* PID is a launch (the reuse of PIDs by the kernel is not modelled).      *)
(* A container ID "bctor-<letter><n>" is the pair <<letter, n>>; letter 0  *)
(* is the empty string GetNextPodLetter returns with its error.            *)
(***************************************************************************)
EXTENDS Naturals, Sequences, FiniteSets

CONSTANTS
    MaxLaunch,   \* bound: how many containers are ever started
    MaxKills,    \* bound: how many kill and forward commands are typed
    MaxCount,    \* bound: the n of "new a n"
    MaxSignals,  \* bound: how many signals reach the supervisor
    NumLetters,  \* pods that can be named (26 in the code)
    EventCap,    \* capacity of the events channel (32 in the code)
    Rounds,      \* rounds of "kill a" (3 in the code)
    Retries,     \* attempts of killOneWithRetry (4 in the code)
    Cmds,        \* the commands the user types
    Faults       \* what may fail

ASSUME BoundsAssumption ==
    /\ MaxLaunch \in Nat /\ MaxKills \in Nat /\ MaxSignals \in Nat
    /\ MaxCount \in Nat \ {0} /\ NumLetters \in Nat \ {0}
    /\ EventCap \in Nat \ {0} /\ Rounds \in Nat \ {0} /\ Retries \in Nat \ {0}

ASSUME CommandsAssumption ==
    /\ Cmds \subseteq {"new", "join", "run", "runjoin", "kill", "killone", "forward"}
    /\ Faults \subseteq {"fork", "userns", "net", "initdies"}

Launch == 1..MaxLaunch
Pod == 0..NumLetters
ID == Pod \X (Nat \ {0})

\* splitContainerID: "bctor-1", the ID of a root whose letter is empty, is not
\* the ID of a pod's container.
IsPod(i) == i[1] # 0
RootID(p) == <<p, 1>>

Creators == {"creator", "batchCreator"}
Joiners == {"joiner", "batchJoiner"}

(* StartContainer's and its callers' control points for one launch. *)
PC == {"none", "nilroot", "fork", "userns", "sendns", "sendmsg", "created",
       "recv", "net", "insert", "ipc", "free", "reinsert", "done", "failed"}

(* The life of a container init. *)
InitState == {"none", "boot", "ready", "go", "forked", "wait", "hold",
              "zombie", "reaped"}
Live == {"boot", "ready", "go", "forked", "wait", "hold"}

(* A *Container of the table: its launch, and how much of it is filled in. *)
(* "init": &Container{State: ContainerInitializing}, Spec nil and no PID;  *)
(* "created": Spec and InitPID; "running": WorkloadPID and Net as well.    *)
Entry == [l : 0..MaxLaunch, stage : {"init", "created", "running"}]
Placeholder == [l |-> 0, stage |-> "init"]

(* scx.Handles[id]: the launch whose namespace FDs are registered (0 when  *)
(* the inner map is empty, a joiner's) and the reference count they carry. *)
Handle == [owner : 0..MaxLaunch, ref : Nat]

VARIABLES
    containers,  \* the container table: ID -> Entry, a Go map
    handles,     \* scx.Handles: ID -> Handle, a Go map
    podNet,      \* podNetResources: pod -> launch whose Net it keeps, 0 if none
    forwards,    \* the pods that have forwarding sessions
    events,      \* the events channel: launches that exited, 0 for a signal
    cli,         \* the command being executed
    next,        \* the next launch
    pc,          \* the supervisor's control point for each launch
    kind,        \* creator, joiner or their batch variants
    id,          \* spec.ID
    init,        \* the init process
    sent,        \* what init has sent: nothing, that its user namespace is
                 \* ready, or the workload PID and the created FDs
    work,        \* the workload process
    grab,        \* the launch whose FDs SendNamespaceFDs took, 0 if none
    nsFd,        \* the namespace FDs received from a root's init
    net,         \* the root's veth and address
    ipc,         \* c.IPC is set on the container object
    keep,        \* c.IPC.KeepAlive[1] >= 0
    released,    \* a byte was written to the KeepAlive pipe
    kills, signals,  \* used up bounds
    panicked,    \* a nil pointer was dereferenced: the program is gone
    clobbered    \* history: launches whose table entry another one replaced

table == <<containers, handles, podNet, forwards, clobbered>>
user  == <<cli, next, kills, panicked>>
start == <<pc, kind, id, grab, ipc>>
procs == <<init, sent, work>>
pipes == <<keep, released>>
res   == <<nsFd, net>>
bus   == <<events, signals>>
vars  == <<table, user, start, procs, pipes, res, bus>>

-----------------------------------------------------------------------------
(* Go maps. *)
Put(m, i, v) == [j \in DOMAIN m \cup {i} |-> IF j = i THEN v ELSE m[j]]
Del(m, i) == [j \in DOMAIN m \ {i} |-> m[j]]

(* The IDs of pod p that a table lists. *)
Members(m, p) == {i \in DOMAIN m : i[1] = p}

isPodEmpty(p, m) == Members(m, p) = {}

HasSpec(e) == e.stage # "init"

(* containers[spec.ID] = c *)
Insert(i, e) ==
    /\ containers' = Put(containers, i, e)
    /\ clobbered' = clobbered \cup
          (IF i \in DOMAIN containers /\ containers[i].l \notin {0, e.l}
             THEN {containers[i].l} ELSE {})

Idle == [op |-> "idle", pod |-> 0, left |-> 0, idx |-> 1, nilRoot |-> FALSE,
         todo |-> {}, cur |-> RootID(0), round |-> 0, tries |-> 0]

CliOp == {"idle", "start", "index", "place", "runindex", "round", "kill",
          "killone", "forward"}

(* The CLI's goroutine is at this point of a command.  A panic in any      *)
(* goroutine ends them all; the container processes go on.                 *)
Doing(op) == ~panicked /\ cli.op = op

-----------------------------------------------------------------------------
(* CLI: new and run without a pod (d_new, d_run, GetNextPodLetter).         *)

(* The letter GetNextPodLetter returns: the first that no container uses, *)
(* or the empty one when all are in use (its error is dropped).  (Mutant: *)
(* the letters in use are not looked at.)                                 *)
FirstLetter(p) == p = 1
IsNextLetter(p) ==
    \/ /\ p # 0
       /\ Members(containers, p) = {}
       /\ \A q \in 1..(p - 1) : Members(containers, q) # {}
    \/ /\ p = 0
       /\ \A q \in 1..NumLetters : Members(containers, q) # {}

Spawn(k, i, at) ==
    /\ kind' = [kind EXCEPT ![next] = k]
    /\ id' = [id EXCEPT ![next] = i]
    /\ pc' = [pc EXCEPT ![next] = at]
    /\ next' = next + 1

(* new / run <cmd>: the CLI itself runs StartCreator to its end. *)
NewPod(c, k) ==
    /\ c \in Cmds /\ Doing("idle") /\ next \in Launch
    /\ \A i \in DOMAIN containers : HasSpec(containers[i])
    /\ \E p \in Pod : /\ IsNextLetter(p)
                      /\ Spawn(k, RootID(p), "fork")
    /\ cli' = [cli EXCEPT !.op = "start"]
    /\ UNCHANGED <<table, kills, panicked, grab, ipc, procs, pipes, res, bus>>

(* GetNextPodLetter reads c.Spec.ID of every container; a placeholder's   *)
(* Spec is nil.                                                           *)
GetNextPodLetterPanics ==
    /\ Cmds \cap {"new", "run"} # {} /\ Doing("idle")
    /\ \E i \in DOMAIN containers : ~HasSpec(containers[i])
    /\ panicked' = TRUE
    /\ UNCHANGED <<table, cli, next, kills, start, procs, pipes, res, bus>>

(* new <p> <n>: look the root up, once. *)
NewJoiners(p, n) ==
    /\ "join" \in Cmds /\ Doing("idle") /\ next + n - 1 \in Launch
    /\ RootID(p) \in DOMAIN containers
    /\ cli' = [cli EXCEPT !.op = "index", !.pod = p, !.left = n,
                          !.nilRoot = ~HasSpec(containers[RootID(p)])]
    /\ UNCHANGED <<table, next, kills, panicked, start, procs, pipes, res, bus>>

(* GetNextContainerIndex: how many containers of the pod there are, plus 1. *)
NextIndex(p) == Cardinality(Members(containers, p)) + 1

GetNextContainerIndex ==
    /\ Doing("index")
    /\ cli' = [cli EXCEPT !.op = "place", !.idx = NextIndex(cli.pod)]
    /\ UNCHANGED <<table, next, kills, panicked, start, procs, pipes, res, bus>>

(* Insert the placeholder and start the goroutine. *)
PlaceJoiner ==
    /\ Doing("place") /\ next \in Launch
    /\ Insert(<<cli.pod, cli.idx>>, Placeholder)
    /\ Spawn("joiner", <<cli.pod, cli.idx>>,
             IF cli.nilRoot THEN "nilroot" ELSE "fork")
    /\ cli' = IF cli.left <= 1 THEN Idle
                               ELSE [cli EXCEPT !.op = "index", !.left = @ - 1]
    /\ UNCHANGED <<handles, podNet, forwards, kills, panicked, grab, ipc,
                   procs, pipes, res, bus>>

(* run <p> <cmd>: a joiner without a placeholder. *)
RunInPod(p) ==
    /\ "runjoin" \in Cmds /\ Doing("idle") /\ next \in Launch
    /\ RootID(p) \in DOMAIN containers
    /\ cli' = [cli EXCEPT !.op = "runindex", !.pod = p,
                          !.nilRoot = ~HasSpec(containers[RootID(p)])]
    /\ UNCHANGED <<table, next, kills, panicked, start, procs, pipes, res, bus>>

SpawnBatchJoiner ==
    /\ Doing("runindex") /\ next \in Launch
    /\ Spawn("batchJoiner", <<cli.pod, NextIndex(cli.pod)>>,
             IF cli.nilRoot THEN "nilroot" ELSE "fork")
    /\ cli' = Idle
    /\ UNCHANGED <<table, kills, panicked, grab, ipc, procs, pipes, res, bus>>

-----------------------------------------------------------------------------
(* CLI: kill (d_kill, killOneWithRetry) and forward (d_forward).            *)

KillOne(i) ==
    /\ "killone" \in Cmds /\ Doing("idle") /\ kills < MaxKills
    /\ i \in DOMAIN containers
    /\ cli' = [cli EXCEPT !.op = "killone", !.todo = {i}]
    /\ kills' = kills + 1
    /\ UNCHANGED <<table, next, panicked, start, procs, pipes, res, bus>>

KillPod(p) ==
    /\ "kill" \in Cmds /\ Doing("idle") /\ kills < MaxKills
    /\ cli' = [cli EXCEPT !.op = "round", !.pod = p]
    /\ kills' = kills + 1
    /\ UNCHANGED <<table, next, panicked, start, procs, pipes, res, bus>>

KillList(ids) == [cli EXCEPT !.op = "kill", !.todo = ids, !.round = @ + 1]

(* One round: take the IDs under the lock; stop when there are none. *)
KillRound ==
    /\ Doing("round")
    /\ LET ids == Members(containers, cli.pod)
       IN cli' = IF ids = {} \/ cli.round = Rounds THEN Idle ELSE KillList(ids)
    /\ UNCHANGED <<table, next, kills, panicked, start, procs, pipes, res, bus>>

(* i is dealt with: the next of the list, the next round, or the prompt. *)
KilledNext(i) ==
    IF cli.todo # {i} THEN [cli EXCEPT !.todo = @ \ {i}, !.tries = 0]
    ELSE IF cli.op = "killone" THEN Idle
    ELSE [cli EXCEPT !.op = "round", !.todo = {}, !.tries = 0]

(* Sleep and try the same container again. *)
KillRetry(i) == [cli EXCEPT !.tries = @ + 1, !.cur = i]

(* FreeFd(KeepAlive[1]); KeepAlive[1] = -1 *)
FreeKeepAlive(r) ==
    /\ released' = [released EXCEPT ![r] = TRUE]
    /\ keep' = [keep EXCEPT ![r] = FALSE]

(* The root of a pod, when KeepAlive[1] may be freed through this entry. *)
HoldsDoor(e) ==
    e.stage = "running" /\ kind[e.l] \in Creators /\ ipc[e.l] /\ keep[e.l]

podWouldBeEmptyAfterRemoving(p, i) == isPodEmpty(p, Del(containers, i))

(* SIGKILL to an init: nothing to an exited one. *)
KillInit(l) ==
    init' = [init EXCEPT ![l] = IF @ \in Live THEN "zombie" ELSE @]

(* One attempt of killOneWithRetry, under the lock; while it retries a     *)
(* target it takes no other.                                               *)
KillAttempt(i) ==
    /\ (Doing("kill") \/ Doing("killone")) /\ i \in cli.todo
    /\ cli.tries > 0 => i = cli.cur
    /\ \/ /\ i \notin DOMAIN containers
          /\ cli' = KilledNext(i)
          /\ UNCHANGED <<work, init, pipes>>
       \/ /\ i \in DOMAIN containers /\ containers[i].stage = "running"
          /\ work' = [work EXCEPT ![containers[i].l] = "dead"]
          /\ IF HoldsDoor(containers[i]) /\ IsPod(i)
                /\ podWouldBeEmptyAfterRemoving(i[1], i)
               THEN FreeKeepAlive(containers[i].l)
               ELSE UNCHANGED pipes
          /\ cli' = KilledNext(i)
          /\ UNCHANGED init
       \/ /\ i \in DOMAIN containers /\ containers[i].stage = "created"
          /\ KillInit(containers[i].l)
          /\ cli' = KilledNext(i)
          /\ UNCHANGED <<work, pipes>>
       \/ /\ i \in DOMAIN containers /\ containers[i].stage = "init"
          /\ cli' = IF cli.tries + 1 = Retries THEN KilledNext(i) ELSE KillRetry(i)
          /\ UNCHANGED <<work, init, pipes>>
    /\ UNCHANGED <<table, next, kills, panicked, start, sent, res, bus>>

(* forward: the container is checked under the lock, the session added     *)
(* after it.                                                               *)
Forward(p) ==
    /\ "forward" \in Cmds /\ Doing("idle") /\ kills < MaxKills
    /\ \E i \in Members(containers, p) : IsPod(i) /\ containers[i].stage = "running"
    /\ cli' = [cli EXCEPT !.op = "forward", !.pod = p]
    /\ kills' = kills + 1
    /\ UNCHANGED <<table, next, panicked, start, procs, pipes, res, bus>>

AddSession ==
    /\ Doing("forward")
    /\ forwards' = forwards \cup {cli.pod}
    /\ cli' = Idle
    /\ UNCHANGED <<containers, handles, podNet, clobbered, next, kills, panicked,
                   start, procs, pipes, res, bus>>

-----------------------------------------------------------------------------
(* StartContainer, FinalizeContainer, StartCreator, StartJoiner.            *)

At(l, p) == ~panicked /\ pc[l] = p
Goto(l, p) == pc' = [pc EXCEPT ![l] = p]
IsCreator(l) == kind[l] \in Creators

(* The CLI is back at its prompt when it ran the launch itself. *)
Return(l) == cli' = IF IsCreator(l) THEN Idle ELSE cli

(* StartJoiner reads root.Spec.ID of a root that is still a placeholder. *)
RootSpecPanics(l) ==
    /\ At(l, "nilroot")
    /\ panicked' = TRUE
    /\ UNCHANGED <<table, cli, next, kills, start, procs, pipes, res, bus>>

Fork(l) ==
    /\ At(l, "fork")
    /\ init' = [init EXCEPT ![l] = "boot"]
    /\ Goto(l, IF IsCreator(l) THEN "userns" ELSE "sendns")
    /\ UNCHANGED <<table, user, kind, id, grab, ipc, sent, work, pipes, res, bus>>

ForkFails(l) ==
    /\ At(l, "fork") /\ "fork" \in Faults
    /\ Goto(l, "failed")
    /\ Return(l)
    /\ UNCHANGED <<table, next, kills, panicked, kind, id, grab, ipc, procs,
                   pipes, res, bus>>

(* WaitFd(UserNSReady), then SetupUserNSAndContinue. *)
SetupUserNS(l) ==
    /\ At(l, "userns") /\ init[l] = "ready"
    /\ init' = [init EXCEPT ![l] = "go"]
    /\ Goto(l, "created")
    /\ UNCHANGED <<table, user, kind, id, grab, ipc, sent, work, pipes, res, bus>>

(* The maps cannot be written (the init is gone, or the write is refused): *)
(* StartContainer returns and leaves the init as it is.                    *)
SetupUserNSFails(l) ==
    /\ At(l, "userns") /\ sent[l] = "ready"
    /\ "userns" \in Faults
    /\ Goto(l, "failed")
    /\ Return(l)
    /\ UNCHANGED <<table, next, kills, panicked, kind, id, grab, ipc, procs,
                   pipes, res, bus>>

(* h.Ref++.  (Mutant: forgotten.) *)
Uncounted(h) == h
CountRef(h) == [h EXCEPT !.ref = @ + 1]

(* The container a joiner shares namespaces with: the root it looked up,   *)
(* by name.                                                                *)
FromContainer(l) == RootID(id[l][1])

(* SendNamespaceFDs, its first half: look the handles up and count the     *)
(* reference under the lock; without handles nothing is sent and the error *)
(* is dropped.                                                             *)
TakeHandles(l) ==
    /\ At(l, "sendns")
    /\ LET r == FromContainer(l)
       IN IF r \in DOMAIN handles /\ handles[r].owner # 0
            THEN /\ handles' = [handles EXCEPT ![r] = CountRef(@)]
                 /\ grab' = [grab EXCEPT ![l] = handles[r].owner]
                 /\ Goto(l, "sendmsg")
            ELSE /\ Goto(l, "created")
                 /\ UNCHANGED <<handles, grab>>
    /\ UNCHANGED <<containers, podNet, forwards, clobbered, user, kind, id, ipc,
                   procs, pipes, res, bus>>

(* Its second half, after the unlock: the FDs go into the socket. *)
SendNamespaceFDs(l) ==
    /\ At(l, "sendmsg")
    /\ init' = [init EXCEPT ![l] = IF @ = "boot" THEN "go" ELSE @]
    /\ Goto(l, "created")
    /\ UNCHANGED <<table, user, kind, id, grab, ipc, sent, work, pipes, res, bus>>

InsertCreated(l) ==
    /\ At(l, "created")
    /\ Insert(id[l], [l |-> l, stage |-> "created"])
    /\ Goto(l, "recv")
    /\ UNCHANGED <<handles, podNet, forwards, user, kind, id, grab, ipc, procs,
                   pipes, res, bus>>

(* RecvWorkloadPID, RecvCreatedNamespaceFDs, RegisterNamespaceHandles: a   *)
(* root registers its FDs with one reference, a joiner has created none    *)
(* and leaves an empty map behind where there was no entry.                *)
RegisterNamespaceHandles(l) ==
    IF IsCreator(l)
      THEN /\ handles' = Put(handles, id[l], [owner |-> l, ref |-> 1])
           /\ nsFd' = [nsFd EXCEPT ![l] = "open"]
      ELSE /\ handles' = IF id[l] \in DOMAIN handles THEN handles
                         ELSE Put(handles, id[l], [owner |-> 0, ref |-> 0])
           /\ UNCHANGED nsFd

Receive(l) ==
    /\ At(l, "recv") /\ sent[l] = "created"
    /\ RegisterNamespaceHandles(l)
    /\ Goto(l, IF IsCreator(l) THEN "net" ELSE "insert")
    /\ UNCHANGED <<containers, podNet, forwards, clobbered, user, kind, id, grab,
                   ipc, procs, pipes, net, bus>>

(* NetworkConfig, and NetReady for the workload whether it worked or not. *)
NetworkConfig(l) ==
    /\ At(l, "net")
    /\ \/ net' = [net EXCEPT ![l] = "up"]
       \/ "net" \in Faults /\ UNCHANGED net
    /\ Goto(l, "insert")
    /\ UNCHANGED <<table, user, kind, id, grab, ipc, procs, pipes, nsFd, bus>>

InsertRunning(l) ==
    /\ At(l, "insert")
    /\ Insert(id[l], [l |-> l, stage |-> "running"])
    /\ Goto(l, "ipc")
    /\ UNCHANGED <<handles, podNet, forwards, user, kind, id, grab, ipc, procs,
                   pipes, res, bus>>

(* c.IPC = ipc; a joiner then frees a KeepAlive pipe nobody waits on. *)
SetIPC(l) ==
    /\ At(l, "ipc")
    /\ ipc' = [ipc EXCEPT ![l] = TRUE]
    /\ Goto(l, CASE kind[l] = "creator" -> "reinsert"
                 [] kind[l] = "batchCreator" -> "free"
                 [] OTHER -> "done")
    /\ UNCHANGED <<table, user, kind, id, grab, procs, pipes, res, bus>>

(* StartCreatorBatch lets its root go at once. *)
FreeBatchRoot(l) ==
    /\ At(l, "free")
    /\ FreeKeepAlive(l)
    /\ Goto(l, "reinsert")
    /\ UNCHANGED <<table, user, kind, id, grab, ipc, procs, res, bus>>

(* d_new and d_run put the container into the table once more. *)
Reinsert(l) ==
    /\ At(l, "reinsert")
    /\ Insert(id[l], [l |-> l, stage |-> "running"])
    /\ Goto(l, "done")
    /\ Return(l)
    /\ UNCHANGED <<handles, podNet, forwards, next, kills, panicked, kind, id,
                   grab, ipc, procs, pipes, res, bus>>

-----------------------------------------------------------------------------
(* The container init and its workload (RunContainerInit, ApplyNamespaces, *)
(* SetupRootAndSpawnWorkload, initWorkloadHandling).                        *)

InitStep(l, from, to) ==
    /\ init[l] = from
    /\ init' = [init EXCEPT ![l] = to]

(* A root unshares its user namespace and says so.  (Mutant: it goes on    *)
(* without a word.)                                                        *)
InitSilent(l) ==
    /\ IsCreator(l) /\ InitStep(l, "boot", "go")
    /\ UNCHANGED <<table, user, start, sent, work, pipes, res, bus>>
InitReady(l) ==
    /\ IsCreator(l) /\ InitStep(l, "boot", "ready")
    /\ sent' = [sent EXCEPT ![l] = "ready"]
    /\ UNCHANGED <<table, user, start, work, pipes, res, bus>>

InitForks(l) ==
    /\ InitStep(l, "go", "forked")
    /\ work' = [work EXCEPT ![l] = "alive"]
    /\ UNCHANGED <<table, user, start, sent, pipes, res, bus>>

InitSends(l) ==
    /\ InitStep(l, "forked", "wait")
    /\ sent' = [sent EXCEPT ![l] = "created"]
    /\ UNCHANGED <<table, user, start, work, pipes, res, bus>>

(* wait4(workload) returned: a root holds the namespaces, a joiner exits. *)
InitWaits(l) ==
    /\ work[l] = "dead"
    /\ InitStep(l, "wait", IF IsCreator(l) THEN "hold" ELSE "zombie")
    /\ UNCHANGED <<table, user, start, sent, work, pipes, res, bus>>

InitReleased(l) ==
    /\ released[l] /\ InitStep(l, "hold", "zombie")
    /\ UNCHANGED <<table, user, start, sent, work, pipes, res, bus>>

(* The init fails (unshare, setns, mount, fork) before its handshake ends. *)
InitDies(l) ==
    /\ "initdies" \in Faults
    /\ \E s \in {"boot", "ready", "go"} : InitStep(l, s, "zombie")
    /\ UNCHANGED <<table, user, start, sent, work, pipes, res, bus>>

(* The command ends.  A root's workload waits for NetReady before its exec, *)
(* but it may fail to set up its root file system before that.             *)
WorkloadExits(l) ==
    /\ work[l] = "alive"
    /\ IsCreator(l) /\ "initdies" \notin Faults =>
          pc[l] \in {"insert", "ipc", "free", "reinsert", "done"}
    /\ work' = [work EXCEPT ![l] = "dead"]
    /\ UNCHANGED <<table, user, start, init, sent, pipes, res, bus>>

-----------------------------------------------------------------------------
(* The reaper, the signal handler and the exit handler.                     *)

(* A send to the events channel does not block.  (Mutant: one too many.) *)
HasRoomOffByOne == Len(events) <= EventCap
HasRoom == Len(events) < EventCap

Reap(l) ==
    /\ ~panicked /\ HasRoom
    /\ InitStep(l, "zombie", "reaped")
    /\ events' = Append(events, l)
    /\ UNCHANGED <<table, user, start, sent, work, pipes, res, signals>>

(* The handler has received an event. *)
Handling == ~panicked /\ events # <<>>

Signal ==
    /\ ~panicked /\ signals < MaxSignals /\ HasRoom
    /\ signals' = signals + 1
    /\ events' = Append(events, 0)
    /\ UNCHANGED <<table, user, start, procs, pipes, res>>

(* EventSignal is passed on to every init that has a PID in the table; an  *)
(* init may have inherited a handler that swallows it.                     *)
OnSignal ==
    /\ Handling /\ Head(events) = 0
    /\ events' = Tail(events)
    /\ \E hit \in SUBSET {containers[i].l : i \in DOMAIN containers} :
          init' = [l \in Launch |->
                      IF l \in hit /\ init[l] \in Live THEN "zombie" ELSE init[l]]
    /\ UNCHANGED <<table, user, start, sent, work, pipes, res, signals>>

(* findContainerByPID: the IDs whose entry has this init PID. *)
Listed(l) == {i \in DOMAIN containers : containers[i].l = l}

OnUnknownExit ==
    /\ Handling /\ Head(events) # 0 /\ Listed(Head(events)) = {}
    /\ events' = Tail(events)
    /\ UNCHANGED <<table, user, start, procs, pipes, res, signals>>

(* The Net of the entry, when it is one of a pod's root that has one. *)
EntryNet(i) ==
    IF containers[i].stage = "running" /\ net[containers[i].l] = "up"
      THEN containers[i].l ELSE 0

(* What podNetResources holds once this container has gone.  (Mutant: its  *)
(* own network is not kept.)                                               *)
ForgetNet(i) == podNet[i[1]]
SavedNet(i) == IF IsPod(i) /\ EntryNet(i) # 0 THEN EntryNet(i) ELSE podNet[i[1]]

(* Ref-- is zero.  (Mutant: zero is looked for before the decrement.) *)
BeforeDecrement(h) == h.ref = 0
LastRef(h) == h.ref = 1

(* Close at the last reference; the entry goes either way. *)
DropHandles(i) ==
    /\ handles' = Del(handles, i)
    /\ nsFd' = [l \in Launch |->
                  IF i \in DOMAIN handles /\ handles[i].owner = l /\ LastRef(handles[i])
                    THEN "closed" ELSE nsFd[l]]

(* One container is left.  (Mutant: the count is off by one.) *)
CountIsZero(p, m) == Cardinality(Members(m, p)) = 0
CountIsOne(p, m) == Cardinality(Members(m, p)) = 1

(* releaseLastNetRootKeepAlive: the root is the last container of the pod. *)
releaseLastNetRootKeepAlive(p, m) ==
    LET last == {i \in Members(m, p) : IsPod(i) /\ CountIsOne(p, m) /\ HoldsDoor(m[i])}
    IN /\ released' = [l \in Launch |->
                         released[l] \/ \E i \in last : m[i].l = l]
       /\ keep' = [l \in Launch |-> keep[l] /\ \A i \in last : m[i].l # l]

(* delete(podNetResources, podName) with the cleanup.  (Mutant: kept.) *)
KeepNet(saved, empty) == saved
NetAfter(saved, empty) == IF empty THEN 0 ELSE saved

(* The pod is empty: close its forwards and take its network down. *)
CleanupPod(p, saved, empty) ==
    /\ forwards' = IF empty THEN forwards \ {p} ELSE forwards
    /\ podNet' = [podNet EXCEPT ![p] = NetAfter(saved, empty)]
    /\ net' = [l \in Launch |->
                 IF empty /\ saved = l THEN "removed" ELSE net[l]]

(* OnContainerExit for the exit of an init, all of it under the lock. *)
OnContainerExit(i) ==
    /\ Handling /\ Head(events) # 0 /\ i \in Listed(Head(events))
    /\ events' = Tail(events)
    /\ LET p == i[1]
           rest == Del(containers, i)
       IN /\ DropHandles(i)
          /\ containers' = rest
          /\ releaseLastNetRootKeepAlive(p, rest)
          /\ CleanupPod(p, SavedNet(i), IsPod(i) /\ isPodEmpty(p, rest))
    /\ UNCHANGED <<clobbered, user, start, procs, signals>>

-----------------------------------------------------------------------------
Init ==
    /\ containers = <<>> /\ handles = <<>>
    /\ podNet = [p \in Pod |-> 0] /\ forwards = {} /\ clobbered = {}
    /\ events = <<>> /\ signals = 0
    /\ cli = Idle /\ next = 1 /\ kills = 0 /\ panicked = FALSE
    /\ pc = [l \in Launch |-> "none"]
    /\ kind = [l \in Launch |-> "none"]
    /\ id = [l \in Launch |-> RootID(0)]
    /\ grab = [l \in Launch |-> 0]
    /\ ipc = [l \in Launch |-> FALSE]
    /\ init = [l \in Launch |-> "none"]
    /\ sent = [l \in Launch |-> "nothing"]
    /\ work = [l \in Launch |-> "none"]
    /\ nsFd = [l \in Launch |-> "none"]
    /\ net = [l \in Launch |-> "none"]
    /\ keep = [l \in Launch |-> TRUE]
    /\ released = [l \in Launch |-> FALSE]

Command ==
    \/ NewPod("new", "creator") \/ NewPod("run", "batchCreator")
    \/ GetNextPodLetterPanics
    \/ \E p \in 1..NumLetters :
          \/ \E n \in 1..MaxCount : NewJoiners(p, n)
          \/ RunInPod(p) \/ Forward(p)
    \/ \E p \in Pod : KillPod(p)
    \/ \E i \in DOMAIN containers : KillOne(i)

CliStep ==
    \/ GetNextContainerIndex \/ PlaceJoiner \/ SpawnBatchJoiner
    \/ KillRound \/ AddSession \/ \E i \in cli.todo : KillAttempt(i)

StartStep(l) ==
    \/ RootSpecPanics(l) \/ Fork(l) \/ SetupUserNS(l) \/ TakeHandles(l)
    \/ SendNamespaceFDs(l) \/ InsertCreated(l) \/ Receive(l) \/ NetworkConfig(l)
    \/ InsertRunning(l) \/ SetIPC(l) \/ FreeBatchRoot(l) \/ Reinsert(l)

ProcessStep(l) ==
    \/ InitReady(l) \/ InitForks(l) \/ InitSends(l) \/ InitWaits(l)
    \/ InitReleased(l)

HandlerStep ==
    \/ OnSignal \/ OnUnknownExit
    \/ \E i \in DOMAIN containers : OnContainerExit(i)

Fault(l) == ForkFails(l) \/ SetupUserNSFails(l) \/ InitDies(l)

Next ==
    \/ Command \/ CliStep \/ HandlerStep \/ Signal
    \/ \E l \in Launch : \/ StartStep(l) \/ ProcessStep(l) \/ Reap(l)
                         \/ WorkloadExits(l) \/ Fault(l)

Spec == Init /\ [][Next]_vars

(* The Go scheduler and the kernel run every goroutine and process that    *)
(* can run; the user, the workloads and the faults owe nothing.            *)
Fairness ==
    /\ WF_vars(CliStep)
    /\ WF_vars(HandlerStep)
    /\ \A l \in Launch : /\ WF_vars(StartStep(l))
                         /\ WF_vars(ProcessStep(l))
                         /\ WF_vars(Reap(l))

FairSpec == Spec /\ Fairness
-----------------------------------------------------------------------------
(* Safety.                                                                  *)

CliType == [op : CliOp, pod : Pod, left : Nat, idx : Nat \ {0}, nilRoot : BOOLEAN,
            todo : SUBSET ID, cur : ID, round : Nat, tries : Nat]

TablesOK ==
    /\ DOMAIN containers \subseteq ID /\ IsFiniteSet(DOMAIN containers)
    /\ containers \in [DOMAIN containers -> Entry]
    /\ DOMAIN handles \subseteq ID /\ handles \in [DOMAIN handles -> Handle]
    /\ podNet \in [Pod -> 0..MaxLaunch] /\ forwards \subseteq Pod
    /\ clobbered \subseteq Launch
BusOK == events \in Seq(0..MaxLaunch) /\ Len(events) <= EventCap /\ signals \in Nat
UserOK ==
    /\ cli \in CliType /\ next \in Nat \ {0} /\ kills \in Nat
    /\ panicked \in BOOLEAN
StartOK ==
    /\ pc \in [Launch -> PC]
    /\ kind \in [Launch -> Creators \cup Joiners \cup {"none"}]
    /\ id \in [Launch -> ID]
    /\ grab \in [Launch -> 0..MaxLaunch]
    /\ ipc \in [Launch -> BOOLEAN]
ProcsOK ==
    /\ init \in [Launch -> InitState]
    /\ sent \in [Launch -> {"nothing", "ready", "created"}]
    /\ work \in [Launch -> {"none", "alive", "dead"}]
ResourcesOK ==
    /\ nsFd \in [Launch -> {"none", "open", "closed"}]
    /\ net \in [Launch -> {"none", "up", "removed"}]
    /\ keep \in [Launch -> BOOLEAN]
    /\ released \in [Launch -> BOOLEAN]

\* Every variable has its type: the two tables are maps from container IDs to
\* entries and handles, the channel never holds more than its capacity.
TypeOK == TablesOK /\ BusOK /\ UserOK /\ StartOK /\ ProcsOK /\ ResourcesOK

\* The FDs that SendNamespaceFDs read under the lock are still open when its
\* sendmsg uses them after the unlock, whatever the exit handler closed in
\* between: the reference it counted keeps them open.
NoUseAfterClose ==
    \A l \in Launch : pc[l] = "sendmsg" => grab[l] # 0 /\ nsFd[grab[l]] = "open"

(* The exit of launch l has not been handled yet. *)
Unhandled(l) == init[l] # "reaped" \/ \E k \in DOMAIN events : events[k] = l

(* Root r has failed to start, its exit was handled, or a joiner that came  *)
(* when the pod was empty was given its name.                               *)
LetGo(r) ==
    \/ pc[r] = "failed" \/ ~Unhandled(r)
    \/ \E j \in Launch : kind[j] \in Joiners /\ id[j] = id[r]

\* A joiner asks for handles by the name of the root its command looked up, and
\* the letter may be another pod's by then (orchestrator.go:115).  It never
\* enters that other pod while its own still exists: every other root that had
\* the letter before the joiner was started has been let go.
JoinsOwnPod ==
    \A l \in Launch : grab[l] # 0 =>
        /\ IsCreator(grab[l])
        /\ \A r \in 1..(l - 1) :
              IsCreator(r) /\ id[r] = RootID(id[l][1]) /\ r # grab[l] => LetGo(r)

\* The namespace FDs of a root stay open in the supervisor only as long as they
\* are listed, or because a joiner took them: the reference it counted is
\* never given back, so those are never closed (clean.go 66 to 76).  A root
\* whose entry was overwritten is exempt.
LeakedOnlyIfShared ==
    \A l \in Launch : nsFd[l] = "open" /\ l \notin clobbered =>
        \/ id[l] \in DOMAIN handles /\ handles[id[l]].owner = l
        \/ \E m \in Launch : grab[m] = l

\* A veth and an address that are up are on record somewhere the exit handler
\* looks: with the launch about to list them, in the table's entry, or in
\* podNetResources.  Only a root whose entry was overwritten is exempt.  (The
\* entry may be one that came back after its exit, see NoGhost.)
NetworkAccountedFor ==
    \A l \in Launch :
        net[l] = "up" /\ IsPod(id[l]) /\ l \notin clobbered =>
            \/ pc[l] = "insert"
            \/ /\ id[l] \in DOMAIN containers
               /\ containers[id[l]] = [l |-> l, stage |-> "running"]
            \/ podNet[id[l][1]] = l

\* A network that podNetResources keeps is still up, and it is kept only while
\* the table lists something of the pod: the exit that empties the pod takes it
\* down, whichever container that is (clean.go 64 to 97).  An entry that came
\* back after its exit was handled (see NoGhost) counts as listed: it keeps the
\* network for good.
PodNetPending ==
    \A p \in Pod : podNet[p] # 0 =>
        net[podNet[p]] = "up" /\ Members(containers, p) # {}

-----------------------------------------------------------------------------
(* Liveness.                                                                *)

\* Every command the user types ends and the prompt comes back (no faults).
PromptReturns == cli.op # "idle" ~> cli.op = "idle" \/ panicked

(* Something is being started in pod p. *)
Starting(p) ==
    \/ \E l \in Launch : id[l][1] = p /\ pc[l] \notin {"none", "done", "failed"}
    \/ cli.op \in {"index", "place", "runindex"} /\ cli.pod = p

(* All commands of pod p have ended, and its root is released or is not    *)
(* alone.                                                                  *)
Finished(p) ==
    /\ Members(containers, p) # {} /\ ~Starting(p)
    /\ \A i \in Members(containers, p) :
          /\ containers[i].stage = "running" /\ Unhandled(containers[i].l)
          /\ work[containers[i].l] = "dead"
          /\ \/ released[containers[i].l] \/ ~IsCreator(containers[i].l)
             \/ Cardinality(Members(containers, p)) > 1

\* A pod whose commands have all ended leaves the table, root included,
\* unless something new is started in it.
PodDrains ==
    \A p \in 1..NumLetters :
        Finished(p) ~> (Members(containers, p) = {} \/ Starting(p) \/ panicked)

-----------------------------------------------------------------------------
(* What the documentation and the comments promise, and the code breaks.    *)

\* No command dereferences the Spec of a container that has none.
NoPanic == ~panicked

\* What is in the table has not been reaped and forgotten: the handler removes
\* an exited container "from the global map".
NoGhost ==
    \A i \in DOMAIN containers : containers[i].stage = "running" =>
        Unhandled(containers[i].l)

\* The root outlives the containers that joined its namespaces.
RootLast ==
    \A l \in Launch : grab[l] # 0 /\ work[l] = "alive" /\ init[l] \in Live =>
        init[grab[l]] \in Live
=============================================================================

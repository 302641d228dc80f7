------------------------------ MODULE Console ------------------------------
(***************************************************************************)
(* The console of bctor: the multiplexer (sup/multiplexer.go), the global  *)
(* logger and the capture of container output (lib/logger.go), attach,     *)
(* :exec and forward (sup/commands.go), and what they share with the       *)
(* starts and the exit handler: the container table under scx.Mu, the      *)
(* targets and the active ID under m.mu, and the bounded log channel.      *)
(*                                                                         *)
(* The table is restricted to the names in ID; a pod may have further      *)
(* containers outside it.  A launch is one call of StartContainer, its     *)
(* init and its workload, as in module Supervisor.  A locked section       *)
(* without a blocking call is one action; scx.Mu has a holder because the  *)
(* exit handler logs while it holds it, m.mu because d_exec locks it by    *)
(* hand.                                                                   *)
(***************************************************************************)
EXTENDS Naturals, Sequences, FiniteSets

CONSTANTS
    ID,         \* container names
    Roots,      \* the names of pods' roots
    None,       \* no name
    MaxLaunch,  \* bound: how many containers are started
    MaxCmds,    \* bound: how many other commands are typed
    LogCap      \* capacity of the log channel (200 in the code)

ASSUME ConsoleAssumption ==
    /\ Roots \subseteq ID /\ None \notin ID /\ IsFiniteSet(ID)
    /\ MaxLaunch \in Nat /\ MaxCmds \in Nat
    /\ LogCap \in Nat \ {0}

Launch == 1..MaxLaunch

(* A *Container: its launch and how much is filled in ("init" is the       *)
(* placeholder, only "running" has a WorkloadPID).                         *)
Object == [l : Launch, stage : {"init", "created", "running"}]

VARIABLES
    table,      \* the container table: name -> Object, a Go map
    marked,     \* the Objects whose State is ContainerExited
    mu,         \* who holds scx.Mu across steps
    targets,    \* m.targets: name -> launch, a Go map
    active,     \* m.activeID
    mux,        \* who holds m.mu across steps
    cli,        \* the CLI's goroutine (RunLoop)
    next, cmds, \* used up bounds
    pc, kind, name,  \* the start of each launch
    work,       \* its workload
    killed,     \* the launches whose init was killed
    handled,    \* the launches whose exit the handler has dealt with
    handler,    \* the exit handler's goroutine
    reader,     \* the pipeOutput goroutine of each Register
    logs,       \* how many messages the log channel holds
    crossed     \* history: launches whose table entry another one replaced, or
                \* that were registered after their exit had been handled

tables == <<table, marked, mu, crossed>>
muxer  == <<targets, active, mux, reader>>
user   == <<cli, next, cmds>>
start  == <<pc, kind, name>>
exits  == <<killed, handled, handler>>
vars   == <<tables, muxer, user, start, work, exits, logs>>

-----------------------------------------------------------------------------
Put(m, i, v) == [j \in DOMAIN m \cup {i} |-> IF j = i THEN v ELSE m[j]]
Del(m, i) == [j \in DOMAIN m \ {i} |-> m[j]]

Idle == [at |-> "idle", id |-> None, todo |-> {}, seen |-> {}, obj |-> {},
         target |-> 0, checked |-> 0]

HandlerIdle == [at |-> "idle", id |-> None]

(* A send to the log channel does not block.  (Mutant: one too many.) *)
RoomOffByOne == logs <= LogCap
HasRoom == logs < LogCap

Send == HasRoom /\ logs' = logs + 1

(* containers[spec.ID] = c, under scx.Mu. *)
Insert(n, c) ==
    /\ mu = "free"
    /\ table' = Put(table, n, c)
    /\ crossed' = crossed \cup
          (IF n \in DOMAIN table /\ table[n].l # c.l THEN {table[n].l} ELSE {})

(* The launches that have been registered. *)
Registered == {l \in Launch : pc[l] \in {"reinsert", "done"}}

-----------------------------------------------------------------------------
(* Starts: a root's runs in the CLI's goroutine, a joiner's in its own.    *)

AtPrompt == cli.at = "idle" /\ active = None

(* A command that starts nothing is typed. *)
Typing == AtPrompt /\ cmds < MaxCmds /\ cmds' = cmds + 1

Begin(k, n) ==
    /\ next \in Launch
    /\ next' = next + 1
    /\ pc' = [pc EXCEPT ![next] = "announce"]
    /\ kind' = [kind EXCEPT ![next] = k]
    /\ name' = [name EXCEPT ![next] = n]

NewRoot(n) ==
    /\ AtPrompt /\ n \in Roots /\ n \notin DOMAIN table
    /\ Begin("root", n)
    /\ cli' = [cli EXCEPT !.at = "start"]
    /\ UNCHANGED <<tables, muxer, cmds, work, exits, logs>>

(* new <pod> puts a placeholder into the table, run <pod> does not. *)
NewJoiner(n) ==
    /\ AtPrompt /\ n \notin Roots
    /\ Begin("joiner", n)
    /\ Insert(n, [l |-> next, stage |-> "init"])
    /\ UNCHANGED <<marked, mu, muxer, cli, cmds, work, exits, logs>>

RunJoiner(n) ==
    /\ AtPrompt /\ n \notin Roots
    /\ Begin("joiner", n)
    /\ UNCHANGED <<tables, muxer, cli, cmds, work, exits, logs>>

Goto(l, p) == pc' = [pc EXCEPT ![l] = p]

(* LogInfo "Container ..." before the fork. *)
Announce(l) ==
    /\ pc[l] = "announce"
    /\ Send
    /\ Goto(l, "created")
    /\ UNCHANGED <<tables, muxer, user, kind, name, work, exits>>

InsertCreated(l) ==
    /\ pc[l] = "created"
    /\ Insert(name[l], [l |-> l, stage |-> "created"])
    /\ Goto(l, "running")
    /\ UNCHANGED <<marked, mu, muxer, user, kind, name, work, exits, logs>>

(* The init forks the workload and sends its PID. *)
ForkWorkload(l) ==
    /\ pc[l] \in {"created", "running"} /\ work[l] = "none" /\ l \notin killed
    /\ work' = [work EXCEPT ![l] = "alive"]
    /\ UNCHANGED <<tables, muxer, user, start, exits, logs>>

(* RecvWorkloadPID has returned. *)
InsertRunning(l) ==
    /\ pc[l] = "running" /\ work[l] # "none"
    /\ Insert(name[l], [l |-> l, stage |-> "running"])
    /\ Goto(l, "register")
    /\ UNCHANGED <<marked, mu, muxer, user, kind, name, work, exits, logs>>

(* m.targets[id] = &Target{...}.  (Mutant: the first one stays.) *)
KeepsFirst(n, l) == IF n \in DOMAIN targets THEN targets ELSE Put(targets, n, l)
WithTarget(n, l) == Put(targets, n, l)

(* go m.pipeOutput(id).  (Mutant: only for a name that is new.) *)
OnlyNewName(n) == IF n \in DOMAIN targets THEN "none" ELSE "spawned"
NewReader(n) == "spawned"

(* Register; a batch container is also captured (module Processes). *)
Register(l) ==
    /\ pc[l] = "register" /\ mux = "free"
    /\ targets' = WithTarget(name[l], l)
    /\ reader' = [reader EXCEPT ![l].at = NewReader(name[l])]
    /\ Goto(l, IF kind[l] = "root" THEN "reinsert" ELSE "done")
    /\ crossed' = IF l \in handled THEN crossed \cup {l} ELSE crossed
    /\ UNCHANGED <<table, marked, mu, active, mux, user, kind, name, work, exits, logs>>

(* d_new stores the root once more and is back at the prompt. *)
Reinsert(l) ==
    /\ pc[l] = "reinsert"
    /\ Insert(name[l], [l |-> l, stage |-> "running"])
    /\ Goto(l, "done")
    /\ cli' = Idle
    /\ UNCHANGED <<marked, mu, muxer, next, cmds, kind, name, work, exits, logs>>

-----------------------------------------------------------------------------
(* Workloads, inits, and the exit handler, which logs under scx.Mu.        *)

WorkloadExits(l) ==
    /\ work[l] = "alive"
    /\ work' = [work EXCEPT ![l] = "dead"]
    /\ UNCHANGED <<tables, muxer, user, start, exits, logs>>

(* kill of a container without a WorkloadPID: its init dies, the workload  *)
(* it may have forked by now goes on.                                      *)
KillFallback(n) ==
    /\ Typing /\ mu = "free" /\ n \in DOMAIN table /\ table[n].stage = "created"
    /\ killed' = killed \cup {table[n].l}
    /\ UNCHANGED <<tables, muxer, cli, next, start, work, handled, handler, logs>>

(* The init has exited and the handler has not dealt with it: it was       *)
(* killed, or it has waited for its workload (and for its release if it is *)
(* a root's, see module Supervisor, so the exit may come at any time).     *)
InitGone(l) == (l \in killed \/ work[l] = "dead") /\ l \notin handled

(* findContainerByPID of an init that has exited. *)
Listed(l) == {n \in DOMAIN table : table[n].l = l /\ table[n].stage # "init"}

OnUnknownExit(l) ==
    /\ handler.at = "idle" /\ InitGone(l) /\ mu = "free"
    /\ Listed(l) = {}
    /\ handled' = handled \cup {l}
    /\ UNCHANGED <<tables, muxer, user, start, work, killed, handler, logs>>

OnContainerExit(l) ==
    /\ handler.at = "idle" /\ InitGone(l) /\ mu = "free"
    /\ \E n \in Listed(l) :
          /\ marked' = marked \cup {table[n]}
          /\ handler' = [at |-> "warn", id |-> n]
    /\ mu' = "handler"
    /\ handled' = handled \cup {l}
    /\ UNCHANGED <<table, crossed, muxer, user, start, work, killed, logs>>

(* LogWarn "... exited"; then the entry is deleted.  The pod is empty when *)
(* nothing of it is left, outside the table's restriction either.          *)
HandlerWarns ==
    /\ handler.at = "warn"
    /\ Send
    /\ table' = Del(table, handler.id)
    /\ \/ handler' = HandlerIdle /\ mu' = "free"
       \/ /\ \E w \in {"net", "report"} : handler' = [handler EXCEPT !.at = w]
          /\ UNCHANGED mu
    /\ UNCHANGED <<marked, crossed, muxer, user, start, work, killed, handled>>

(* LogWarn "Network for ... cleaned up", if the pod had one. *)
HandlerNet ==
    /\ handler.at = "net"
    /\ Send
    /\ handler' = [handler EXCEPT !.at = "report"]
    /\ UNCHANGED <<tables, muxer, user, start, work, killed, handled>>

(* LogWarn "... Closing forwards"; unlock. *)
HandlerReports ==
    /\ handler.at = "report"
    /\ Send
    /\ handler' = HandlerIdle
    /\ mu' = "free"
    /\ UNCHANGED <<table, marked, crossed, muxer, user, start, work, killed, handled>>

-----------------------------------------------------------------------------
(* :exec (d_exec, execOne).                                                *)

ExecLock ==
    /\ Typing /\ mux = "free"
    /\ mux' = "cli"
    /\ cli' = [cli EXCEPT !.at = "snapshot"]
    /\ UNCHANGED <<tables, targets, active, reader, next, start, work, exits, logs>>

(* "*", "!name" or a name. *)
Selections ==
    {DOMAIN targets} \cup {DOMAIN targets \ {n} : n \in ID}
                     \cup {{n} : n \in DOMAIN targets}

(* m.mu.Unlock() before the table is looked at.  (Mutant: still held.) *)
StillLocked == "cli"
Unlocked == "free"

ExecSnapshot(S) ==
    /\ cli.at = "snapshot" /\ S \in Selections
    /\ cli' = IF S = {} THEN Idle
              ELSE [cli EXCEPT !.at = "check", !.todo = {<<n, targets[n]>> : n \in S},
                               !.seen = Registered]
    /\ mux' = Unlocked
    /\ UNCHANGED <<tables, targets, active, reader, next, cmds, start, work, exits, logs>>

ExecUnknown ==
    /\ cli.at = "snapshot" /\ DOMAIN targets # ID
    /\ cli' = Idle
    /\ mux' = "free"
    /\ UNCHANGED <<tables, targets, active, reader, next, cmds, start, work, exits, logs>>

(* n is dealt with: the next container, or the prompt. *)
ExecNext(p) ==
    IF cli.todo = {p} THEN Idle
    ELSE [cli EXCEPT !.at = "check", !.todo = @ \ {p}, !.target = 0, !.checked = 0]

(* Under scx.Mu.  A workload that has exited answers kill(WorkloadPID, 0)  *)
(* until it is reaped.                                                     *)
ExecCheck(p) ==
    /\ cli.at = "check" /\ p \in cli.todo /\ mu = "free"
    /\ \/ /\ p[1] \in DOMAIN table => table[p[1]] \in marked
          /\ cli' = ExecNext(p)
          /\ UNCHANGED marked
       \/ /\ p[1] \in DOMAIN table /\ table[p[1]] \notin marked
          /\ table[p[1]].stage # "running" \/ work[table[p[1]].l] = "dead"
          /\ marked' = marked \cup {table[p[1]]}
          /\ cli' = ExecNext(p)
       \/ /\ p[1] \in DOMAIN table /\ table[p[1]] \notin marked
          /\ table[p[1]].stage = "running"
          /\ cli' = [cli EXCEPT !.at = "enter", !.id = p[1], !.target = p[2],
                                !.checked = table[p[1]].l]
          /\ UNCHANGED marked
    /\ UNCHANGED <<table, mu, crossed, muxer, next, cmds, start, work, exits, logs>>

(* nsenter -t target.PID: the user's program has ended, if it ever does. *)
ExecOne ==
    /\ cli.at = "enter"
    /\ cli' = LET c == ExecNext(<<cli.id, cli.target>>) IN [c EXCEPT !.id = None]
    /\ UNCHANGED <<tables, muxer, next, cmds, start, work, exits, logs>>

-----------------------------------------------------------------------------
(* attach (d_attach), Ctrl+X (RunLoop).                                    *)

AttachLookup(n) ==
    /\ Typing /\ mu = "free" /\ n \in DOMAIN table
    /\ cli' = [cli EXCEPT !.at = "attach", !.id = n, !.obj = {table[n]},
                          !.seen = Registered]
    /\ UNCHANGED <<tables, muxer, next, start, work, exits, logs>>

(* The State is read after the unlock, through the pointer. *)
AttachCheck ==
    /\ cli.at = "attach"
    /\ cli' = IF cli.obj \subseteq marked THEN Idle
              ELSE [cli EXCEPT !.at = "select",
                               !.checked = (CHOOSE o \in cli.obj : TRUE).l]
    /\ UNCHANGED <<tables, muxer, next, cmds, start, work, exits, logs>>

(* Under m.mu: whoever is the target of that name by now is selected. *)
AttachSelect ==
    /\ cli.at = "select" /\ mux = "free" /\ cli.id \in DOMAIN targets
    /\ active' = cli.id
    /\ cli' = [cli EXCEPT !.at = "newline", !.target = targets[cli.id]]
    /\ UNCHANGED <<tables, targets, mux, reader, next, cmds, start, work, exits, logs>>

(* "... is alive but PTY is missing" *)
AttachRefused ==
    /\ cli.at = "select" /\ mux = "free" /\ cli.id \notin DOMAIN targets
    /\ cli' = Idle
    /\ UNCHANGED <<tables, muxer, next, cmds, start, work, exits, logs>>

(* handleSupervisorInput ends with m.write(active, "\r"); what the user    *)
(* types from now on goes the same way.                                    *)
WriteNewline ==
    /\ cli.at = "newline" /\ mux = "free"
    /\ cli' = Idle
    /\ UNCHANGED <<tables, muxer, next, cmds, start, work, exits, logs>>

Detach ==
    /\ cli.at = "idle" /\ active # None /\ mux = "free"
    /\ active' = None
    /\ UNCHANGED <<tables, targets, mux, reader, user, start, work, exits, logs>>

-----------------------------------------------------------------------------
(* forward (d_forward): the session itself is in module PortForwarder; what *)
(* matters here is the message at the end.                                 *)
ForwardLookup(n) ==
    /\ Typing /\ mu = "free" /\ n \in DOMAIN table /\ table[n].stage = "running"
    /\ cli' = [cli EXCEPT !.at = "forward"]
    /\ UNCHANGED <<tables, muxer, next, start, work, exits, logs>>

(* AddSession has failed, or "Forwarding localhost ..." goes to the log.   *)
ForwardEnds ==
    /\ cli.at = "forward"
    /\ UNCHANGED logs \/ Send
    /\ cli' = Idle
    /\ UNCHANGED <<tables, muxer, next, cmds, start, work, exits>>

-----------------------------------------------------------------------------
(* pipeOutput looks its target up by name when it first runs, and reads    *)
(* that one until its terminal ends.                                       *)
ReaderLooksUp(l) ==
    /\ reader[l].at = "spawned" /\ mux = "free"
    /\ reader' = [reader EXCEPT ![l] = [at |-> "reading", of |-> targets[name[l]]]]
    /\ UNCHANGED <<tables, targets, active, mux, user, start, work, exits, logs>>

-----------------------------------------------------------------------------
(* The logger receives a message, asks for the active ID under m.mu and    *)
(* prints.                                                                 *)
LoggerPrints ==
    /\ logs > 0 /\ mux = "free"
    /\ logs' = logs - 1
    /\ UNCHANGED <<tables, muxer, user, start, work, exits>>

-----------------------------------------------------------------------------
Init ==
    /\ table = <<>> /\ marked = {} /\ mu = "free" /\ crossed = {}
    /\ targets = <<>> /\ active = None /\ mux = "free"
    /\ reader = [l \in Launch |-> [at |-> "none", of |-> 0]]
    /\ cli = Idle /\ next = 1 /\ cmds = 0
    /\ pc = [l \in Launch |-> "none"] /\ kind = [l \in Launch |-> "none"]
    /\ name = [l \in Launch |-> None] /\ work = [l \in Launch |-> "none"]
    /\ killed = {} /\ handled = {} /\ handler = HandlerIdle
    /\ logs = 0

StartStep(l) ==
    \/ Announce(l) \/ InsertCreated(l) \/ InsertRunning(l) \/ Register(l) \/ Reinsert(l)

ExecStep ==
    \/ \E S \in SUBSET ID : ExecSnapshot(S)
    \/ ExecUnknown \/ \E p \in cli.todo : ExecCheck(p)

AttachStep == AttachCheck \/ AttachRefused \/ AttachSelect \/ WriteNewline

CliStep == ExecStep \/ AttachStep \/ ForwardEnds

ExitEvent == \E l \in Launch : OnUnknownExit(l) \/ OnContainerExit(l)

HandlerStep == HandlerWarns \/ HandlerNet \/ HandlerReports

Command ==
    \/ \E n \in ID : \/ NewRoot(n) \/ NewJoiner(n) \/ RunJoiner(n) \/ AttachLookup(n)
                      \/ ForwardLookup(n) \/ KillFallback(n)
    \/ ExecLock \/ Detach

Next ==
    \/ Command \/ CliStep \/ ExecOne \/ ExitEvent \/ HandlerStep
    \/ LoggerPrints
    \/ \E l \in Launch : \/ StartStep(l) \/ ForkWorkload(l) \/ ReaderLooksUp(l)
                         \/ WorkloadExits(l)

Spec == Init /\ [][Next]_vars

(* Every goroutine that can run does, and an init forks its workload; the  *)
(* user, the workloads, the exits of inits and the programs run with :exec *)
(* owe nothing.                                                            *)
FairSpec ==
    /\ Spec
    /\ WF_vars(CliStep) /\ WF_vars(HandlerStep) /\ WF_vars(LoggerPrints)
    /\ \A l \in Launch : /\ WF_vars(StartStep(l)) /\ WF_vars(ForkWorkload(l))
                         /\ WF_vars(ReaderLooksUp(l))

-----------------------------------------------------------------------------
\* Every variable has its type, and the log channel never holds more than its
\* capacity.
TypeOK ==
    /\ DOMAIN table \subseteq ID /\ \A n \in DOMAIN table : table[n] \in Object
    /\ marked \subseteq Object /\ mu \in {"free", "handler"}
    /\ DOMAIN targets \subseteq ID /\ targets \in [DOMAIN targets -> Launch]
    /\ active \in DOMAIN targets \cup {None} /\ mux \in {"free", "cli"}
    /\ killed \subseteq Launch /\ handled \subseteq Launch /\ handler.at \in {"idle", "warn", "net", "report"}
    /\ logs \in 0..LogCap /\ work \in [Launch -> {"none", "alive", "dead"}]

\* attach and :exec use the container whose entry they looked at (commands.go
\* 514 to 548, 588 to 614), although the PID or the terminal comes from a target
\* copied at another time: only a container that was not registered yet, or
\* one whose name another start took or gave back late, is mistaken for
\* another.  attach alone has one more way: it selects after it has let go of
\* the lock, so the container may have exited, and its name been given away,
\* since it was looked at.
EntersChecked ==
    cli.at \in {"enter", "newline"} /\ cli.target # cli.checked =>
        \/ cli.checked \notin cli.seen
        \/ {cli.checked, cli.target} \cap crossed # {}
        \/ cli.at = "newline" /\ cli.checked \in handled

\* The terminal of a registered container that lives has somebody who reads it
\* or is about to, although pipeOutput looks its target up by name after the
\* name may have been registered again (multiplexer.go 55 to 89).
CurrentHasReader ==
    \A n \in DOMAIN targets :
        \/ work[targets[n]] = "dead"
        \/ \E l \in Launch : /\ name[l] = n
                             /\ \/ reader[l].at = "spawned"
                                \/ reader[l] = [at |-> "reading", of |-> targets[n]]

\* The exit handler, which logs while it holds scx.Mu, gives the lock back:
\* a full log channel is emptied by a logger that waits for m.mu only, and
\* nobody waits for scx.Mu while holding m.mu (clean.go 47 to 98).
HandlerReleases == handler.at # "idle" ~> handler.at = "idle"

\* Every new, attach, forward and :exec comes back to the prompt or to the
\* terminal, unless it waits for the program the user runs in a container.
CommandEnds ==
    cli.at \notin {"idle", "enter"} ~> cli.at \in {"idle", "enter"}
=============================================================================

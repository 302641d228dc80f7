# A TLA+ verification of bctor

bctor is a small container engine: one supervisor process with a command line,
which forks container inits, gives them namespaces, a network and a pseudo
terminal, and cleans up behind them. Containers are grouped into pods: the
first container of a pod (`bctor-a1`, the *root* or *creator*) creates the
namespaces and the network, the others (*joiners*) enter them.

This directory models the parts of it whose correctness depends on the order of
events, checks them with TLC on small instances, and proves the most important
properties with TLAPS for every value of the constants.

## The system

| Part | State | Operations | Talks to |
|---|---|---|---|
| Orchestrator (`sup/orchestrator.go`, `sup/supervisor.go`) | `containers` (ID to `*Container`), `scx.Handles`, both under `scx.Mu` | `StartCreator`, `StartJoiner` and their batch variants, `StartContainer`, `FinalizeContainer`, the choice of letters and indices | forks inits; network; handles |
| Command line (`sup/commands.go`) | the command being executed | `new`, `run`, `kill`, `forward`, `list`, `attach`, `:exec`, `exit` | orchestrator, table, forwarder, multiplexer |
| Container init (`sup/init.go`, `lib/workload.go`, `lib/namespaces.go`) | its own process, pipes to the supervisor | user-namespace handshake, fork of the workload, report of PID and descriptors, wait, hold the namespaces | supervisor over pipes and sockets |
| Descriptor passing (`lib/fds_setup.go`, `lib/ipc.go`) | descriptors with a reference count | send, receive, register | init, handles |
| Reaper and signal handler (`sup/reaper.go`, `sup/signal.go`) | the bounded events channel | wait for any child; forward signals | exit handler |
| Exit handler (`sup/clean.go`) | `podNetResources` | `OnContainerExit` | table, handles, network, forwarder |
| Container network (`lib/ntw/network.go`, `network_cleanup.go`) | `IPAllocator` (`Next`, `Used`), veth pairs | allocate, connect, configure, clean up | kernel |
| Port forwarder (`lib/ntw/forward.go`) | `sessions` per pod, listeners, stop channels | add, stop, list | exit handler, command line |
| Multiplexer and terminal (`sup/multiplexer.go`) | targets, active ID, line buffer | register, attach, detach, write, read | command line, logger |
| Logger (`lib/logger.go`) | bounded log channel | capture, print | everybody |
| Capabilities, file system, cgroups, seccomp (`lib/caps.go`, `fs.go`, `cgroup.go`, `seccomp*`) | kernel state of one process; the root directory all pods share | straight-line calls in the workload | kernel, each other's files |

The goroutines are: the command line (one command at a time; `new` and `run`
without a pod run the whole start themselves), one goroutine per joiner start,
the reaper, the signal handler, the exit handler, two per forwarding session,
the logger, one reader per terminal and one capture per batch container. They
share the two tables under `scx.Mu` and the targets under `m.mu`; no command
holds a lock from its check to its effect. The processes (supervisor, inits,
workloads) share inherited pipe ends and one root directory.

What is hard here: the gaps between two locked sections of one start; a
container that exits before its start has finished; placeholders in the table;
names (letters and indices) that are reused; descriptors that are read under
the lock and used after it; failures in the middle of a start; a bounded
channel between the reaper and the handler; stop signals sent without waiting;
a log channel that may be full while a lock is held; targets that outlive their
containers; the end of a stream that only comes when every process has closed
its copy; one directory that every root prepares for itself.
`PROJECT.json` lists these as hazards at their lines.

What makes the parts correct:

* the tables: nobody uses a descriptor after it was closed, a joiner enters its
  own pod, no network is forgotten or taken down twice, a command returns, a
  finished pod goes away;
* the network: no two pods share an address, and the allocator's book-keeping
  is exact on every error path;
* the forwarder: the port of a pod that has gone becomes free, and the
  exceptions are known;
* the console: `attach` and `:exec` act on the container they checked, except
  in known cases, and nobody blocks for good on a lock or on the log channel;
* the processes: a set-up fails for known reasons only, output is shown whole
  and to its end, and `exit` ends every process but the known strays.

## Modules

| Module | What it is |
|---|---|
| `Supervisor` | tables, command line, starts, inits, reaper, exit handler: one composed state machine |
| `SupervisorProofs` | type correctness and the reference-count argument |
| `SupervisorTableProofs` | what the tables account for: descriptors, networks, and which pod a joiner enters |
| `Network` | the address allocator and `NetworkConfig` with its cleanup |
| `AddressPool` | what the network promises of its addresses (abstract) |
| `NetworkProofs` | invariants of `Network`, and that it implements `AddressPool` |
| `PortForwarder` | forwarding sessions against pods that come and go |
| `PortForwarderProofs` | its invariants |
| `Console` | multiplexer, logger, `attach`, `:exec`, and the locks they share with starts and the exit handler |
| `ConsoleProofs` | its invariants |
| `Processes` | inits, workloads, their pipe ends, root directory, capabilities and output, under `kill` and `exit` |
| `RootFS`, `Capabilities` | operators: what `fs.go` does to the shared directory, what `caps.go` does to the sets of a process |
| `CapabilitiesProofs`, `ProcessesProofs` | what `SetupCapabilities` computes; that every workload has been through it, and why a set-up can fail |
| `CaptureProofs` | splitting output into lines, its capture to the end, the types of `Processes` |

### Supervisor

A *launch* is one call of `StartContainer`. It stands for its IPC, its init and
its workload, so a PID is a launch; PID reuse by the kernel is left out. A
container ID is the pair of its letter and its index, letter 0 being the empty
string that `GetNextPodLetter` returns with its (dropped) error. A `*Container`
is the launch and how much of it is filled in: the placeholder of `new a n`
(no Spec, no PID), the Created entry, the Running entry.

Every action is what the code does between two points at which another
goroutine can interfere: a locked section, a blocking receive, a fork. The
command line's position is `cli`, a start's position is `pc[l]`, the init's is
`init[l]`. `NewPod`, `NewJoiners`, `RunInPod`, `KillOne`, `KillPod` and
`Forward` are the user's commands; `GetNextContainerIndex`, `PlaceJoiner`,
`KillRound`, `KillAttempt`, `AddSession` continue them. `Fork` to `Reinsert`
are the start. `OnContainerExit` is the handler's whole locked section,
including the release of the last root, the forwards and the network.
A nil dereference ends all goroutines (`panicked`); the inits go on.

Abstracted: message contents (a descriptor set is the launch that created it),
the three namespace types a joiner shares (always taken together), texts,
terminals, the veth and the address of a root (one value, refined in
`Network`). A network failure is one choice here. `clobbered` is a history
variable: launches whose table entry another one replaced.

### Network

One call of `NetworkConfig` per element of `Nets`. The command line makes one
call at a time, the handler's cleanup runs beside it. An address is its last
byte. `ConfigureContainerInterface` may fail before or after `eth0` has the
address; the code then releases the address and leaves the pair in place, and
the kernel may delete it with the namespace (`NamespaceGone`, external). The
cleanup drops the errors of the lookup and of the deletion of the link and
releases the address all the same, so `LinkDel` may leave the pair too.
`Network` implements `AddressPool` under the mapping
`held[c] = IF st[c] \in Holding THEN ip[c] ELSE NoIP`.

### PortForwarder

One `forward` command per element of `Session`. The two goroutines of a session
are the stopper (`spawned`, `waiting`, `told`, `done`) and the acceptor, of
which only the closing of the listener matters. `net.Listen` may fail because
the port is taken or for any other reason. The container table is
represented by the set of pods alive; `PodStarts` is external and
`CleanupForward` includes the handler's removal of the last container.
`dropped` and `late` are history variables.

### Console

The container table is kept with the detail the console looks at: for each name
the launch and whether the entry is a placeholder, Created or Running; `marked`
are the entries whose State was set to exited. A start is the four points at
which it touches shared state (log message, two entries, `Register`), and a
root's start runs in the command line's goroutine. The init of a launch forks
its workload (`ForkWorkload`) after its own start; the two die separately.
`KillFallback` is `kill` of an entry without a workload PID: it kills the init
and the workload, if there is one by now, goes on, so the handler may mark an
entry whose workload lives. An init that was not killed exits after its workload
(`InitGone`). The exit handler is split at each log message it sends while it
holds `scx.Mu` (`HandlerWarns`, `HandlerNet`, `HandlerReports`). `ExecLock` to
`ExecOne` are `:exec`; its snapshot of targets is `cli.todo`, and in `enter` it
waits for the user's program, for as long as that takes. `AttachLookup` to
`WriteNewline` are `attach`: the entry is looked up under `scx.Mu`, its State read
after the unlock (`AttachCheck`), the target selected under `m.mu`
(`AttachSelect`), three steps with everybody else in between. `ForwardLookup` and
`ForwardEnds` are `forward` as far as it logs. A reader is spawned by `Register`
and looks its target up later. The logger needs `m.mu` to print. Names may be
reused at once, by `run` or by `new`; whether a pod has further containers is
left open, because only some names are in the table here. `crossed` is a history
variable: launches whose entry another one replaced, or that were registered
after their exit had been handled. Commands that only fail (an unknown name, a
missing argument) change nothing and are left out, the line buffer with them.

### Processes

One launch is one init and one workload. `Create` to `Reinsert` are the start in
the supervisor, `ForkWorkload` to `Released` the init, `StatBusybox` to `Exec`
the workload, step by step where another process can interfere with the shared
directory. `supEnds`, `initEnds` and `workEnds` are the write ends of
`KeepAlive` and `Log2Sup` each process holds: a fork copies them, and a read
sees the end of the stream when nobody has a copy (`Closed`). `KillWorkload`,
`KillInit`, `Reap` and `Exit` take processes away at any point. `WorkloadWrites`
and the capture are the output, as characters that do or do not end a line.

`PrepareRoot` drops the errors of reading and of writing busybox: `CopyFails`
leaves none, or an empty one. The directory outlives the supervisor, so Init
finds it without a busybox or with an empty one (`FoundFS`); a whole one is what
the first root leaves. A joiner's index is the number of its pod's entries plus
one, which another joiner may have: `Insert` then takes that one's entry away
(`replaced`), and nothing that goes through the table, `kill` and `exit`
included, reaches it any more.

A joiner is a batch joiner: an interactive one treats its ends as an interactive
root does. Letters are not used again (that is `Supervisor`). Left out: the mount
calls that are private to a workload and their failures; children a shell
starts itself; trailing white space, which is trimmed; header and footer, which
the logger ignores. The five links of `PrepareRoot` are one. The history
variables say what the exceptions of the properties are about: `disturbed`
(two set-ups at once), `wreck` (what kills, failed copies and earlier
supervisors left half done), `overlap` (forked before a capture began),
`replaced` (above) and `quiet` (no start under way at `exit`).

A capability mask is a set, and a refused call leaves the sets as they are,
since every error is dropped. `execve` is external: for user 0 of a user
namespace, which the ID maps make of every workload, permitted and effective
become the inheritable and the bounding set. The bounding set is reduced after
`CAP_SETPCAP` has left the effective one, so the drops are granted only if
`CAP_SETPCAP` is allowed itself; `DefaultSpec` allows `CAP_SYS_ADMIN` alone.
`AllowedAtExec` says what the code achieves, the sets at the call of exec;
`WhitelistKept` what the repository promises, the sets of the running workload,
and it is violated; `SetupExact` states both cases of the bounding set.

## Runs

| Run | Checks | Instance |
|---|---|---|
| `interactive` | `TypeOK`, `NoUseAfterClose`, `NetworkAccountedFor`, `PodNetPending`, `LeakedOnlyIfShared` | 3 launches, `new`, `new a n` (n up to 2), `kill a`; 2 letters; 690 000 states |
| `batch` | `NoUseAfterClose`, `JoinsOwnPod`, `NetworkAccountedFor`, `PodNetPending`, `LeakedOnlyIfShared` | 3 launches of `run` and `run a`, one letter used again, every fault, one signal; 1 300 000 states |
| `live` | `PromptReturns`, `PodDrains` | 3 launches, `new`, `new a n`, `kill a n`, `forward`; fair; 150 000 states |
| `network` | `TypeOK`, `DistinctAddresses`, `UsedIsHeld`, `ImplementsPool` | 3 calls, 2 addresses |
| `forwarding` | `TypeOK`, `LostOnlyByRace`, `ListedUnderLivePod`, `GoneFreesPort` | 2 sessions, 2 pods, 2 ports, 3 pod starts |
| `console` | `TypeOK`, `EntersChecked`, `CurrentHasReader`, `HandlerReleases`, `CommandEnds` | 2 launches, 2 names (one a root's), 1 further command, a log channel of 1; fair; 410 000 states |
| `processes` | `TypeOK`, `FailsOnlyIfDisturbed`, `AllowedAtExec`, `LinesWhole`, `ShownToTheEnd`, `ExitMissesStrays`, `CaptureCompletes`, `ExitEndsAll` | 2 launches, output of 2 characters, 3 capabilities of which 1 is allowed; fair; 810 000 states |
| `panic` | `NoPanic` is violated | as `interactive` |
| `ghost` | `NoGhost` is violated | `new`, `run a` |
| `root_last` | `RootLast` is violated | `new`, `new a n` |
| `reuse` | `ReleasedIsReusable` is violated | as `network` |
| `whitelist` | `WhitelistKept` is violated | 1 launch, 3 capabilities of which 1 is allowed |

What the properties say:

* `NoUseAfterClose`: the descriptors that `SendNamespaceFDs` read under the lock
  are open when it sends them after the unlock.
* `JoinsOwnPod`: a joiner asks for handles by name, and the letter may be another
  pod's by then. It never enters another root's namespaces while its own pod's
  root is there: every other root that had the letter before the joiner was
  started failed, its exit was handled, or a joiner was given its name.
* `NetworkAccountedFor`: a network that is up is known to the start that made
  it, to the table or to the handler, except for a root whose entry another
  launch replaced.
* `PodNetPending`: a network the handler keeps is up, and kept only while the
  table lists something of its pod; the exit that empties the pod takes it down.
  An entry that came back after its exit (`NoGhost`) counts as listed: such a pod
  is never emptied and its network stays.
* `LeakedOnlyIfShared`: a namespace descriptor that is open and no longer listed
  was taken by a joiner, whose reference is never given back, or its root's
  entry was replaced; nothing else leaks.
* `PromptReturns`, `PodDrains`: commands end; a pod whose commands have ended,
  and whose root is released or not alone, leaves the table.
* `DistinctAddresses`, `UsedIsHeld`: two interfaces never carry the same address,
  although an interface may stay behind when its address is released; `Used` is
  what is held.
* `LostOnlyByRace`, `ListedUnderLivePod`, `GoneFreesPort`: an open listener that
  nothing lists lost its stop signal or is being added; a session listed under
  a dead pod was added late; the port of a session whose pod has gone becomes
  free, unless one of these two races kept it.
* `EntersChecked`: the container that `:exec` enters, or whose terminal `attach`
  selects, is the one whose table entry was checked, unless it was not yet
  registered when the command began or its name was taken in between; and for
  `attach` alone, which selects after the unlock, unless the container's exit was
  handled since it was looked at.
* `CurrentHasReader`: the terminal of a live registered container has a reader,
  or one that is about to look it up.
* `HandlerReleases`, `CommandEnds`: the exit handler gives `scx.Mu` back and every
  command ends or waits for the user's program, whatever the log channel holds.
* `FailsOnlyIfDisturbed`: a workload's set-up fails only if another root used the
  directory at the same time or busybox could not be copied whole, now or
  earlier, or, for a joiner, a kill left no link.
* `AllowedAtExec`: a workload calls exec with exactly the allowed capabilities.
* `LinesWhole`, `ShownToTheEnd`, `CaptureCompletes`: however output is cut into
  reads, its lines are shown whole; a capture that has ended showed all of it;
  the capture of a workload that is over ends, once the containers that
  inherited its write end are gone.
* `ExitMissesStrays`: `exit`, typed when no start is under way, misses no workload
  but the strays: those whose entry a joiner of the same name replaced, and
  those whose init was killed without them.
* `ExitEndsAll`: after such an `exit` every init and workload ends, if the strays
  have ended by themselves.

The exceptions these properties name do happen: without them TLC finds a pivot
directory removed between another root's mkdir and its pivot, a busybox empty
for good, a capture that waits for a later container, a terminal selected after
its container was exchanged for the next one of its name, a listener that stays
because its stop signal came too early (forward.go:41: "cleanup signal closes
the listener"), and workloads that survive `exit`: a joiner in the middle of its
start, and the strays. The README of bctor says of `exit`: "close all pods and end
program" (line 32), its help text "Shutdown all pods and exit supervisor"
(commands.go:493).

The five violated properties are what comments and the README of bctor say and
the code does not do; `PROJECT.json` quotes them under `findings`:
`GetNextPodLetter` dereferences the Spec of a placeholder; a quick container is
put back into the table after its exit was handled; the root is not always the
last one to go; released addresses are never reused; a running workload has
every capability, because the bounding set is reduced without the capability
that takes.

### Bounds

Three launches are one root with two joiners, two roots with one joiner, or a
root, its joiner, and a new root under the same letter: the smallest instances
in which names are reused, entries collide and the handler and two starts
overlap. `EventCap = 1` makes the channel full (32 in the code), two letters
make the alphabet end (26), two rounds and two retries of `kill` reach both the
repetition and the end of it (3 and 4). Two addresses (244 in the code) with
three calls reach exhaustion after releases. Two launches of `console` reuse one
name or are a root and a joiner; a log channel of 1 (200 in the code) is full
after one message; one command beside the starts is every interference with
them and with exits, since a command leaves nothing behind but marks and the
active ID, and the proofs of its invariants hold for any number.
Two launches of `processes` are two roots at once in the directory, or a root
and its joiner with each other's pipe ends; two characters are every way of
cutting a line, an empty line and a last line without an end. A collision of two
joiners' names takes three launches and is beyond this run; it happens in
`interactive` and `batch`, and `ExitMissesStrays` is proved for any number. All runs
switch the deadlock check off: an idle supervisor, and one whose launches are
used up, may stop.

### Fairness

Weak fairness holds for the command line's own steps, each start, each init,
the reaper and the exit handler: goroutines and processes that can run are
scheduled, and a blocked one is not enabled in the model either. The mutex is
held for one action at a time, so nobody starves on it in the model; Go's mutex
hands over to waiters after a millisecond. Users, commands run in containers
and faults owe nothing. `console` adds the logger and the readers of terminals;
the programs run with `:exec`, the workloads and the exits of inits owe nothing.
`processes` has one weak fairness condition over all starts, inits and captures
together, which is weaker than one for each and enough, because none of them
takes infinitely many steps; the workloads owe nothing, not even their set-up.
`live` has no faults: with an init that dies early
`RecvWorkloadPID` waits for ever on a socket whose other end the supervisor
itself holds.

## Proofs

Every invariant that a run checks is also proved, for every value of the
constants. The assumptions are named in the modules: bounds are naturals and
capacities positive (`BoundsAssumption`, `ConsoleAssumption`,
`ProcessesAssumption`), the address range is ordered (`AddressesAssumption`), there
is a pod and a port (`ForwarderAssumption`), `CAP_SETPCAP` is a capability
(`CapAssumption`). The inductive invariants were checked with TLC on the runs'
instances before they were proved.

**Reference counts** (`SupervisorProofs`). `TypeCorrect` is `Spec => []TypeOK`.
`ReferenceCount` is `Spec => []RefInv`: `NoUseAfterClose` is not inductive, since
that a taken descriptor is open now says nothing about the handler's next close.
`RefInv` adds what the code relies on: launches not started yet are untouched
(`Fresh`); only a root that reported has descriptors (`DescriptorOwner`); a
listed handle is open, owned by the root of that very name, with a count of at
least one (`HandleOpen`); a taken descriptor is open and, while it is listed,
has a count of at least two (`TakenStaysOpen`), so the handler, which gives up
one reference and then forgets the entry, cannot bring it to zero.
`DescriptorsOpen` (`NoUseAfterClose`) follows.

**Tables** (`SupervisorTableProofs`). `LeakedOnlyIfShared`, `NetworkAccountedFor` and
`PodNetPending` rest on who may write a root's place in the table. `ControlInv`:
the command line starts one root at a time, and from then on the place holds
that root, a joiner that took its name, or nothing, never another root
(`SlotOwned`). `ShareInv`: every reference beyond the first was counted for a
joiner (`Shared`), and an open descriptor that is neither shared nor clobbered is
listed, with its root in the table or being started (`OpenListed`). `NetInv`: the
network kept for a pod is that of the root the pod has (`PodNetCurrent`), which
is why a later root of the same letter cannot make the handler forget it.

**Letters that are used again** (`SupervisorTableProofs`). `JoinersInOwnPod`
(`JoinsOwnPod`) needs a history of each letter. `ExitInv`: every exit is reported
once, so a handled one stays handled. `PodInv`: a root that has started holds its
place until it is let go (`PodHeld`), so a letter that is given out again has no
root that was not (`Succeeded`); the handles of a name are those of the latest
root that has any (`HandleLatest`), and while a root is being started nothing else
is (`Last`), so a joiner that finds the handles of an older root has no younger
one that started before it.

**Network** (`NetworkProofs`). The main point is that every address given out
lies below `Next`, so a new one differs from all earlier ones, released or not.
From it follow `NetworkTypeCorrect`, `AddressesDistinct`, `AllocatorAccounting`
and the refinement `NetworkImplementsPool`.

**Port forwarder** (`PortForwarderProofs`). A session has goroutines only once
`PortForward` returned, a stopper that is done has closed the listener
(`Goroutines`), and a session leaves the list only through a cleanup that signals
it (`Signalling`); so there is no third way to lose a listener.

**Console** (`ConsoleProofs`). `EntersChecked` compares what a command read at two
times, so its invariant has three layers. `StartInv`: who is started, under
which name, and that both maps list a launch under its own name. `TableInv`: the
entry of a registered container is still there, or was replaced, or its exit was
handled (`Kept`), and a name whose target and entry differ was crossed
(`Superseded`). `CliInv`: the same for the snapshot of `:exec`, the object
`attach` looked up and the launch it has checked, which stay true while everybody
else goes on. The theorems are `ConsoleTypeCorrect`, `CommandsEnterChecked` and
`TerminalsRead`.

**Capabilities** (`CapabilitiesProofs`, `ProcessesProofs`). `SetupExact` follows the
sets through the four calls: `SetCapabilities` of a process with all
capabilities is granted, so each `AddInheritable` is, so each `RaiseAmbient` is;
only the bounding set depends on `CAP_SETPCAP`. `CapabilitiesCorrect`
(`AllowedAtExec`) needs `CapsInv` (the sets of a workload are a function of its
stage) with `StageInv` (no processes before the fork, no workload before the
init has forked it): a fork step must find no workload there and a kill of an
init must not reach a launch that is still to be forked.

**Shared directory** (`ProcessesProofs`). `SetupFailsOnlyIfDisturbed` needs, for an
undisturbed workload, that nobody else prepares the directory (`Solo`) and that
what it has done so far is still there (`OwnInv`); and of the directory itself
that a missing or empty busybox behind somebody who has come past it
(`MountInv`) is being written or was left so (`BusyboxInv`), and a missing link
likewise (`LinkInv`).

**Exit** (`ProcessesProofs`). `ExitReachesListed` (`ExitMissesStrays`) rests on
`ListInv`: a launch whose start has come past the Running entry is listed as
running, was replaced, or its init has exited. Only a handled exit or a namesake
takes an entry away, and `exit` looks at nothing but entries.

**Output** (`CaptureProofs`). `Lines` and `Remainder` speak of a whole text, the
capture applies them to the remainder and one more read. `CutLines` shows that a
text may be cut behind any of its breaks: the breaks behind the cut have their
ranks shifted by those in front of it. `ReadOn` is the consequence for one read,
and with it `OutInv` (what was shown and what is carried over are the lines and
the remainder of what was read) is inductive: `CapturedLinesWhole`. The
induction over a text is replaced by the least element of a set of positions,
which the library's theorem on well-founded relations gives without an operator
parameter. `EndsInv` follows the write end of a log: the supervisor has it until
the capture begins, the init until it has forked, the workload as long as it is
there. So the end of the stream is seen only when nobody is left who writes, and
`CapturedToTheEnd` (`ShownToTheEnd`) follows. `ProcessesTypeCorrect` collects the
types from all these invariants.

Only model-checked are the liveness properties (`PromptReturns`, `PodDrains`,
`GoneFreesPort`, `HandlerReleases`, `CommandEnds`, `CaptureCompletes`,
`ExitEndsAll`): fairness and `ENABLED` are outside the prover.

## Not modelled

`list`, `help` and `clear`, which print; the line buffer, echo and the bytes of a
terminal; the bytes of a forwarded connection; the host's bridge and NAT, set up
once; private mounts of a workload and their failures; the processes a workload
starts itself; cgroups (switched off in `DefaultSpec`) and seccomp (no caller
installs the filter); the printing of `/proc` in `status.go` and the functions of
`caps.go` and `fs.go` that nothing calls; PID reuse; the Go runtime's state after
a raw fork; `main`, which calls `Setup` and waits for a group that is never done;
`kill a1` as a prefix of decimal names, which the models' names do not have.

## Plan

1. Safety halves of the liveness properties, as `ShownToTheEnd` is one of
   `CaptureCompletes`: that a held init is released or has an owner of its end
   left (`ExitEndsAll`), that nobody waits for a full log channel while the
   logger waits for the lock (`HandlerReleases`).
2. Which launches can hold a copy of a write end (`overlap` of `CaptureCompletes`).

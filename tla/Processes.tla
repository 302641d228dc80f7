----------------------------- MODULE Processes -----------------------------
(***************************************************************************)
(* The processes of a container: the init that StartContainer forks, the   *)
(* workload that the init forks (lib/workload.go), the pipe ends they      *)
(* inherit and when they are closed, the workload's set-up of the root     *)
(* directory that all pods share (module RootFS) and of its capabilities   *)
(* (module Capabilities), the capture of its output (lib/logger.go), and   *)
(* kill and exit, which end them.                                          *)
(*                                                                         *)
(* Of the descriptors the ends are tracked whose last close wakes somebody *)
(* up: KeepAlive[1] and Log2Sup[1].  Pipes are not close-on-exec and the   *)
(* forks are raw, so every process has the ends its parent had.  An init   *)
(* that waits for NetReady, UserNSPipe or Sup2Init holds the other end     *)
(* itself and never sees it closed: only a message wakes it.               *)
(*                                                                         *)
(* A joiner's name is its pod's letter and an index that another joiner    *)
(* may have; letters are not used again here (see module Supervisor), and  *)
(* what a log message meets in the log channel is left to module Console.  *)
(***************************************************************************)
EXTENDS Naturals, Sequences, FiniteSets, Capabilities, RootFS

CONSTANTS
    MaxLaunch,  \* bound: how many containers are started
    MaxBytes,   \* bound: how many characters a workload writes
    Writers,    \* bound: the launches whose workloads write
    Allow       \* Capabilities.AllowCaps

ASSUME ProcessesAssumption ==
    MaxLaunch \in Nat /\ MaxBytes \in Nat /\ Writers \subseteq Nat /\ Allow \subseteq Cap

Launch == 1..MaxLaunch
Char == {"x", "NL"}

VARIABLES
    sup,        \* the supervisor: up, gone
    pc,         \* where StartContainer of each launch is
    kind,       \* root: new; batch: run cmd; joiner: run pod cmd
    of, idx,    \* the root a joiner joins, and the index in its name
    table,      \* the container table, by launch
    reaped,     \* the launches whose init's exit was handled
    supEnds, initEnds, workEnds,  \* the write ends each process holds
    init,       \* the init of each launch
    at,         \* its workload
    freed,      \* the launches with a byte in their KeepAlive
    caps,       \* the workload's capability sets
    fs, mnt,    \* the shared directory; the old root's mount of each workload
    out,        \* the output of each workload and its capture
    disturbed,  \* history: workloads another root prepared the directory beside
    wreck,      \* history: what kills in the middle of PrepareRoot, failed
                \* copies and earlier supervisors left behind
    overlap,    \* history: launches forked before the capture of each began
    replaced,   \* history: launches whose table entry another one replaced
    quiet       \* history: no start was under way when the supervisor left

supervisor == <<sup, pc, kind, of, idx, table, reaped>>
process    == <<init, initEnds, at, workEnds, freed>>
setup      == <<caps, fs, mnt>>
history    == <<disturbed, wreck, overlap, replaced, quiet>>
vars       == <<supervisor, supEnds, process, setup, out, history>>

-----------------------------------------------------------------------------
NoOutput == [cap |-> "none", all |-> <<>>, read |-> 0, rem |-> <<>>, shown |-> <<>>]

Set(f, l, v) == [f EXCEPT ![l] = v]

Keep(l) == <<"keep", l>>
Log(l) == <<"log", l>>

IsRoot(l) == kind[l] \in {"root", "batch"}

(* Everything but an interactive root is captured; an interactive joiner   *)
(* treats its ends as an interactive root does and is left out.            *)
Captured(l) == kind[l] \in {"batch", "joiner"}

Over == {"none", "dead", "failed"}
Preparing == {"stat", "open", "write", "unlink", "link", "mkdir", "pivot",
              "umount", "rmold"}
Before == Preparing \cup {"caps", "exec"}
Running == {"running", "hosted"}

Gone(l) == init[l] \in {"none", "exited"} /\ at[l] \in Over

(* A root's start runs in the CLI's goroutine, which reads nothing then. *)
CliIdle == \A l \in Launch : IsRoot(l) => pc[l] = "done"

(* The other containers of root r's pod in the table. *)
Others(r) == {l \in Launch : of[l] = r /\ table[l] # "none"}

(* GetNextContainerIndex: nobody asks whether the name is free. *)
NextIndex(r) == Cardinality({r} \cup Others(r)) + 1

(* The others of the same name in the table. *)
Namesakes(l) ==
    {k \in Launch \ {l} : of[l] # 0 /\ of[k] = of[l] /\ idx[k] = idx[l] /\ table[k] # "none"}

(* containers[spec.ID] = c: a namesake is not listed any more. *)
Insert(l, c) ==
    /\ table' = [k \in Launch |-> IF k = l THEN c
                                  ELSE IF k \in Namesakes(l) THEN "none" ELSE table[k]]
    /\ replaced' = replaced \cup Namesakes(l)

(* FreeFd(KeepAlive[1]): a byte, and the supervisor's end is closed. *)
FreeKeepAlive(S) ==
    /\ freed' = freed \cup S
    /\ supEnds' = supEnds \ {Keep(l) : l \in S}

-----------------------------------------------------------------------------
(* The start, in the supervisor.                                           *)

(* NewIPC, in the CLI; a joiner goes on in its own goroutine. *)
Create(l, k, r) ==
    /\ sup = "up" /\ CliIdle
    /\ pc[l] = "none" /\ \A m \in 1..(l - 1) : pc[m] # "none"
    /\ IF k = "joiner" THEN r \in Launch /\ table[r] = "running" /\ IsRoot(r)
                       ELSE r = 0
    /\ pc' = Set(pc, l, "fork") /\ kind' = Set(kind, l, k) /\ of' = Set(of, l, r)
    /\ idx' = Set(idx, l, IF k = "joiner" THEN NextIndex(r) ELSE 1)
    /\ supEnds' = supEnds \cup {Keep(l), Log(l)}
    /\ UNCHANGED <<sup, table, reaped, process, setup, out, history>>

Fork(l) ==
    /\ sup = "up" /\ pc[l] = "fork"
    /\ pc' = Set(pc, l, "shake")
    /\ init' = Set(init, l, "boot")
    /\ initEnds' = Set(initEnds, l, supEnds)
    /\ overlap' = [m \in Launch |->
          IF pc[m] # "none" /\ m # l /\ out[m].cap \in {"none", "spawned"}
            THEN overlap[m] \cup {l} ELSE overlap[m]]
    /\ UNCHANGED <<sup, kind, of, idx, table, reaped, supEnds, at, workEnds, freed, setup,
                   out, disturbed, wreck, replaced, quiet>>

(* The handshake that lets the init go on: the user namespace maps of a    *)
(* root, or the descriptors of a joiner's root, which are gone when the    *)
(* root's exit was handled; then the entry.                                *)
Shake(l) ==
    /\ sup = "up" /\ pc[l] = "shake"
    /\ pc' = Set(pc, l, "recv")
    /\ Insert(l, "created")
    /\ init' = IF IsRoot(l) \/ of[l] \notin reaped THEN Set(init, l, "go") ELSE init
    /\ UNCHANGED <<sup, kind, of, idx, reaped, supEnds, initEnds, at, workEnds, freed, setup,
                   out, disturbed, wreck, overlap, quiet>>

(* FinalizeContainer: the PID has been sent; NetReady of a root is freed. *)
Finalize(l) ==
    /\ sup = "up" /\ pc[l] = "recv" /\ at[l] # "none"
    /\ pc' = Set(pc, l, "settle")
    /\ Insert(l, "running")
    /\ UNCHANGED <<sup, kind, of, idx, reaped, supEnds, process, setup, out,
                   disturbed, wreck, overlap, quiet>>

(* The log end is closed or handed to CaptureLogs; a batch root and a      *)
(* joiner are released beforehand.                                         *)
Settle(l) ==
    /\ sup = "up" /\ pc[l] = "settle"
    /\ pc' = Set(pc, l, IF IsRoot(l) THEN "store" ELSE "done")
    /\ IF Captured(l)
         THEN out' = [out EXCEPT ![l].cap = "spawned"] /\ FreeKeepAlive({l})
         ELSE supEnds' = supEnds \ {Log(l)} /\ UNCHANGED <<freed, out>>
    /\ UNCHANGED <<sup, kind, of, idx, table, reaped, init, initEnds, at, workEnds, setup,
                   history>>

(* new and run store a root once more, be it gone by now. *)
Reinsert(l) ==
    /\ sup = "up" /\ pc[l] = "store"
    /\ pc' = Set(pc, l, "done")
    /\ Insert(l, "running")
    /\ UNCHANGED <<sup, kind, of, idx, reaped, supEnds, process, setup, out,
                   disturbed, wreck, overlap, quiet>>

-----------------------------------------------------------------------------
(* The init.                                                               *)

(* The second fork; the PID is sent. *)
ForkWorkload(l) ==
    /\ init[l] = "go"
    /\ init' = Set(init, l, "wait")
    /\ at' = Set(at, l, IF IsRoot(l) THEN "stat" ELSE "caps")
    /\ workEnds' = Set(workEnds, l, initEnds[l])
    /\ initEnds' = Set(initEnds, l, initEnds[l] \ {Log(l)})
    /\ disturbed' = disturbed
          \cup {m \in {l} : \E k \in Launch \ {of[l]} : at[k] \in Preparing}
          \cup {m \in Launch : at[m] \in Before /\ IsRoot(l)}
    /\ UNCHANGED <<supervisor, supEnds, freed, setup, out, wreck, overlap, replaced, quiet>>

(* unix.Close(ipc.KeepAlive[1]).  (Mutant: forgotten.) *)
KeepsOwn(l) == initEnds[l]
AfterWait(l) == initEnds[l] \ {Keep(l)}

(* Wait4 returns: a joiner's init exits, a root's holds its namespaces. *)
WaitWorkload(l) ==
    /\ init[l] = "wait" /\ at[l] \in Over
    /\ init' = Set(init, l, IF IsRoot(l) THEN "hold" ELSE "exited")
    /\ initEnds' = Set(initEnds, l, IF IsRoot(l) THEN AfterWait(l) ELSE {})
    /\ UNCHANGED <<supervisor, supEnds, at, workEnds, freed, setup, out, history>>

(* Nobody holds a copy of the end e. *)
Closed(e) == e \notin supEnds \cup UNION {initEnds[l] \cup workEnds[l] : l \in Launch}

(* WaitFd(KeepAlive[0]): a byte or the end of the pipe. *)
Released(l) ==
    /\ init[l] = "hold" /\ (l \in freed \/ Closed(Keep(l)))
    /\ init' = Set(init, l, "exited")
    /\ initEnds' = Set(initEnds, l, {})
    /\ UNCHANGED <<supervisor, supEnds, at, workEnds, freed, setup, out, history>>

-----------------------------------------------------------------------------
(* The workload up to its exec.                                            *)

Goto(l, p, q) == at[l] = p /\ at' = Set(at, l, q)

Beside == <<supervisor, supEnds, init, initEnds, freed, out, history>>

(* The process goes on, or is gone with its ends and capability sets. *)
Lives(l, q) == at' = Set(at, l, q) /\ UNCHANGED workEnds
Ends(l, q) ==
    at' = Set(at, l, q) /\ workEnds' = Set(workEnds, l, {}) /\ caps' = Set(caps, l, FullCaps)

StatBusybox(l) ==
    /\ Goto(l, "stat", IF NoBusybox(fs) THEN "open" ELSE "unlink")
    /\ UNCHANGED <<Beside, workEnds, setup>>

(* A busybox that is running cannot be opened for writing: no error check. *)
OpenBusybox(l) ==
    /\ IF \E k \in Launch : at[k] = "running"
         THEN Goto(l, "open", "unlink") /\ UNCHANGED fs
         ELSE Goto(l, "open", "write") /\ fs' = Truncate(fs)
    /\ UNCHANGED <<Beside, workEnds, caps, mnt>>

OnDisk(l, p, q, f) ==
    /\ Goto(l, p, q)
    /\ fs' = f
    /\ UNCHANGED <<Beside, workEnds, caps, mnt>>

WriteBusybox(l) == OnDisk(l, "write", "unlink", Complete(fs))

(* ReadFile or WriteFile fails: the errors are dropped, and busybox is not *)
(* there or has no contents.                                               *)
CopyFails(l) ==
    /\ Goto(l, "open", "unlink") \/ Goto(l, "write", "unlink")
    /\ wreck' = wreck \cup {"busybox"}
    /\ UNCHANGED <<supervisor, supEnds, init, initEnds, freed, out, disturbed, overlap, replaced,
                   quiet, workEnds, setup>>

RemoveLink(l) == OnDisk(l, "unlink", "link", Unlink(fs))
MakeLink(l) == OnDisk(l, "link", "mkdir", Symlink(fs))
MakeOld(l) == OnDisk(l, "mkdir", "pivot", MkdirOld(fs))

(* pivot_root(newRoot, putOld) *)
PivotRoot(l) ==
    /\ at[l] = "pivot"
    /\ IF fs.old THEN Lives(l, "umount") /\ mnt' = Set(mnt, l, "on") /\ UNCHANGED caps
                 ELSE Ends(l, "failed") /\ UNCHANGED mnt
    /\ UNCHANGED <<Beside, fs>>

(* Unmount("/.pivot_old"), an error if it is no mount point any more. *)
UnmountOld(l) ==
    /\ at[l] = "umount"
    /\ IF mnt[l] = "on"
         THEN Lives(l, "rmold") /\ mnt' = Set(mnt, l, "off") /\ UNCHANGED caps
         ELSE Ends(l, "failed") /\ UNCHANGED mnt
    /\ UNCHANGED <<Beside, fs>>

(* RemoveAll("/.pivot_old") takes the directory away under the mounts that *)
(* other mount namespaces have on it; then MountVirtualFS.                 *)
RemoveOldRoot(l) ==
    /\ Goto(l, "rmold", "caps")
    /\ fs' = RemoveOld(fs)
    /\ mnt' = [k \in Launch |-> IF mnt[k] = "on" THEN "off" ELSE mnt[k]]
    /\ UNCHANGED <<Beside, workEnds, caps>>

(* The workload's root directory: its own or its pod's mount namespace has *)
(* been pivoted.                                                           *)
Pivoted(l) == mnt[IF IsRoot(l) THEN l ELSE of[l]] # "none"

ApplyCapabilities(l) ==
    /\ Goto(l, "caps", "exec")
    /\ caps' = Set(caps, l, SetupCapabilities(caps[l], Allow))
    /\ UNCHANGED <<Beside, workEnds, fs, mnt>>

(* WaitFd(NetReady[0]) in a root, and exec of the shell: the host's as     *)
(* long as nobody has pivoted, or the shared one, which must be whole and  *)
(* not open for writing.                                                   *)
Exec(l) ==
    /\ at[l] = "exec" /\ (IsRoot(l) => pc[l] \in {"settle", "store", "done"})
    /\ LET usable == Executable(fs) /\ \A k \in Launch : at[k] # "write" IN
       IF Pivoted(l) /\ ~usable
         THEN Ends(l, "failed")
         ELSE /\ Lives(l, IF Pivoted(l) THEN "running" ELSE "hosted")
              /\ caps' = Set(caps, l, execve(caps[l]))
    /\ UNCHANGED <<Beside, fs, mnt>>

WorkloadExits(l) ==
    /\ at[l] \in Running
    /\ Ends(l, "dead")
    /\ UNCHANGED <<Beside, fs, mnt>>

-----------------------------------------------------------------------------
(* kill, the exit handler, exit.                                           *)

(* What a killed workload leaves half done. *)
Debris(S) ==
    wreck' = wreck \cup {w \in {"busybox", "link"} :
        \E l \in S : at[l] = IF w = "busybox" THEN "write" ELSE "link"}

Killed(S) ==
    LET K == {l \in S : at[l] \notin Over} IN
    /\ at' = [l \in Launch |-> IF l \in K THEN "dead" ELSE at[l]]
    /\ workEnds' = [l \in Launch |-> IF l \in K THEN {} ELSE workEnds[l]]
    /\ caps' = [l \in Launch |-> IF l \in K THEN FullCaps ELSE caps[l]]
    /\ Debris(K)

(* killOneWithRetry of an entry with a WorkloadPID; an interactive root    *)
(* that is alone in its pod is released as well.                           *)
KillWorkload(l) ==
    /\ sup = "up" /\ CliIdle /\ table[l] = "running"
    /\ Killed({l})
    /\ FreeKeepAlive({r \in {l} : IsRoot(r) /\ Keep(r) \in supEnds /\ Others(r) = {}})
    /\ UNCHANGED <<supervisor, init, initEnds, fs, mnt, out, disturbed, overlap, replaced, quiet>>

(* Without one: the init is killed, and a workload it has forked goes on. *)
KillInit(l) ==
    /\ sup = "up" /\ CliIdle /\ table[l] = "created" /\ init[l] # "exited"
    /\ init' = Set(init, l, "exited")
    /\ initEnds' = Set(initEnds, l, {})
    /\ UNCHANGED <<supervisor, supEnds, at, workEnds, freed, setup, out, history>>

(* OnContainerExit of an init: its entry is deleted, and a root that is    *)
(* left alone is released.                                                 *)
Reap(l) ==
    /\ sup = "up" /\ init[l] = "exited" /\ l \notin reaped
    /\ reaped' = reaped \cup {l}
    /\ table' = Set(table, l, "none")
    /\ FreeKeepAlive({r \in {of[l]} \cap Launch :
          table[l] # "none" /\ table[r] = "running" /\ Keep(r) \in supEnds /\ Others(r) = {l}})
    /\ UNCHANGED <<sup, pc, kind, of, idx, init, initEnds, at, workEnds, setup, out, history>>

(* The workloads exit kills.  (Mutant: those of the roots only.) *)
RootsOnly == {l \in Launch : IsRoot(l) /\ table[l] = "running"}
ExitTargets == {l \in Launch : table[l] = "running"}

(* d_exit: every workload in the table, or the init of an entry without    *)
(* one, is killed; then the supervisor, its ends and its captures are      *)
(* gone.                                                                   *)
Exit ==
    LET I == {l \in Launch : table[l] = "created" /\ init[l] # "none"} IN
    /\ sup = "up" /\ CliIdle
    /\ sup' = "gone"
    /\ supEnds' = {}
    /\ Killed(ExitTargets)
    /\ init' = [l \in Launch |-> IF l \in I THEN "exited" ELSE init[l]]
    /\ initEnds' = [l \in Launch |-> IF l \in I THEN {} ELSE initEnds[l]]
    /\ quiet' = \A l \in Launch : pc[l] \in {"none", "done"}
    /\ table' = [l \in Launch |-> "none"]
    /\ out' = [l \in Launch |-> NoOutput]
    /\ UNCHANGED <<pc, kind, of, idx, reaped, freed, fs, mnt, disturbed, overlap, replaced>>

-----------------------------------------------------------------------------
(* The output of a workload and CaptureLogs: lines of any characters but a *)
(* break.  White space at the end of a line, which is trimmed, is left     *)
(* out, and so are the header and the footer, which the logger ignores.    *)

Breaks(s) == {i \in DOMAIN s : s[i] = "NL"}
LastBreak(s, n) == CHOOSE i \in {0} \cup Breaks(s) :
    i < n /\ \A j \in Breaks(s) : j < n => j <= i

(* strings.Split(chunk, "\n"): the lines that are complete, and the rest. *)
NthBreak(s, i) == CHOOSE b \in Breaks(s) : Cardinality({j \in Breaks(s) : j <= b}) = i
Lines(s) == [i \in 1..Cardinality(Breaks(s)) |->
    SubSeq(s, LastBreak(s, NthBreak(s, i)) + 1, NthBreak(s, i) - 1)]

(* (Mutants: the rest is dropped; the whole chunk is kept.) *)
NothingLeft(s) == <<>>
WholeChunk(s) == s
Remainder(s) == SubSeq(s, LastBreak(s, Len(s) + 1) + 1, Len(s))

(* What is sent of the rest at the end.  (Mutant: nothing.) *)
RestDropped(s) == <<>>
LastLine(s) == IF s = <<>> THEN <<>> ELSE <<s>>

(* Nobody reads when the supervisor is gone. *)
WorkloadWrites(l, c) ==
    /\ sup = "up" /\ at[l] \in Running /\ Captured(l)
    /\ l \in Writers /\ Len(out[l].all) < MaxBytes
    /\ out' = [out EXCEPT ![l].all = Append(@, c)]
    /\ UNCHANGED <<supervisor, supEnds, process, setup, history>>

(* The supervisor's write end.  (Mutant: left open.) *)
LeftOpen(l) == supEnds
WriteEndClosed(l) == supEnds \ {Log(l)}

CaptureStarts(l) ==
    /\ sup = "up" /\ out[l].cap = "spawned"
    /\ out' = [out EXCEPT ![l].cap = "on"]
    /\ supEnds' = WriteEndClosed(l)
    /\ UNCHANGED <<supervisor, process, setup, history>>

(* One Read returns n characters; its lines are sent. *)
CaptureReads(l, n) ==
    /\ sup = "up" /\ out[l].cap = "on" /\ n \in 1..(Len(out[l].all) - out[l].read)
    /\ LET o == out[l]
           chunk == o.rem \o SubSeq(o.all, o.read + 1, o.read + n)
       IN  out' = Set(out, l, [o EXCEPT !.read = @ + n, !.rem = Remainder(chunk),
                                        !.shown = @ \o Lines(chunk)])
    /\ UNCHANGED <<supervisor, supEnds, process, setup, history>>

(* Read returns the end of the stream: everything is read and nobody can   *)
(* write any more.                                                         *)
CaptureEnds(l) ==
    /\ sup = "up" /\ out[l].cap = "on" /\ out[l].read = Len(out[l].all)
    /\ Closed(Log(l))
    /\ out' = [out EXCEPT ![l].cap = "ended", ![l].shown = @ \o LastLine(out[l].rem)]
    /\ UNCHANGED <<supervisor, supEnds, process, setup, history>>

-----------------------------------------------------------------------------
Init ==
    /\ sup = "up" /\ supEnds = {} /\ reaped = {} /\ freed = {}
    /\ pc = [l \in Launch |-> "none"] /\ kind = [l \in Launch |-> "none"]
    /\ of = [l \in Launch |-> 0] /\ idx = [l \in Launch |-> 0]
    /\ table = [l \in Launch |-> "none"]
    /\ init = [l \in Launch |-> "none"] /\ at = [l \in Launch |-> "none"]
    /\ initEnds = [l \in Launch |-> {}] /\ workEnds = [l \in Launch |-> {}]
    /\ caps = [l \in Launch |-> FullCaps]
    /\ fs \in FoundFS /\ wreck = {w \in {"busybox"} : fs.bb = "torn"}
    /\ mnt = [l \in Launch |-> "none"]
    /\ out = [l \in Launch |-> NoOutput]
    /\ disturbed = {} /\ replaced = {} /\ quiet = FALSE
    /\ overlap = [l \in Launch |-> {}]

StartStep(l) == Fork(l) \/ Shake(l) \/ Finalize(l) \/ Settle(l) \/ Reinsert(l)

InitStep(l) == ForkWorkload(l) \/ WaitWorkload(l) \/ Released(l)

SetupStep(l) ==
    \/ StatBusybox(l) \/ OpenBusybox(l) \/ WriteBusybox(l) \/ CopyFails(l)
    \/ RemoveLink(l) \/ MakeLink(l) \/ MakeOld(l) \/ PivotRoot(l) \/ UnmountOld(l)
    \/ RemoveOldRoot(l) \/ ApplyCapabilities(l) \/ Exec(l)

CaptureStep(l) ==
    CaptureStarts(l) \/ CaptureEnds(l) \/ \E n \in 1..MaxBytes : CaptureReads(l, n)

Next ==
    \/ Exit
    \/ \E l \in Launch :
          \/ \E k \in {"root", "batch", "joiner"}, r \in 0..MaxLaunch : Create(l, k, r)
          \/ StartStep(l) \/ InitStep(l) \/ SetupStep(l) \/ CaptureStep(l)
          \/ WorkloadExits(l) \/ \E c \in Char : WorkloadWrites(l, c)
          \/ KillWorkload(l) \/ KillInit(l) \/ Reap(l)

Spec == Init /\ [][Next]_vars

(* Of the goroutines of starts and captures and of the inits, one that can *)
(* run does; workloads and the user owe nothing.  Weaker than fairness to  *)
(* each, and enough because none of them runs for ever.                    *)
FairSpec ==
    Spec /\ WF_vars(\E l \in Launch : StartStep(l) \/ InitStep(l) \/ CaptureStep(l))

-----------------------------------------------------------------------------
\* Every variable has its type, and the remainder of a capture never holds a
\* line break (logger.go 174 to 191).
TypeOK ==
    /\ sup \in {"up", "gone"} /\ fs \in FS
    /\ pc \in [Launch -> {"none", "fork", "shake", "recv", "settle", "store", "done"}]
    /\ kind \in [Launch -> {"none", "root", "batch", "joiner"}] /\ of \in [Launch -> 0..MaxLaunch]
    /\ table \in [Launch -> {"none", "created", "running"}]
    /\ init \in [Launch -> {"none", "boot", "go", "wait", "hold", "exited"}]
    /\ at \in [Launch -> Over \cup Before \cup Running]
    /\ mnt \in [Launch -> {"none", "on", "off"}]
    /\ supEnds \subseteq {"keep", "log"} \X Launch
    /\ reaped \subseteq Launch /\ freed \subseteq Launch
    /\ \A l \in Launch :
          /\ caps[l] \in CapState
          /\ out[l].cap \in {"none", "spawned", "on", "ended"}
          /\ Breaks(out[l].rem) = {}

\* The set-up of a workload in the directory all pods share fails only if another
\* root was being set up in it at the same time or busybox could not be copied
\* whole, earlier or now (an error that was dropped, a kill in the middle of the
\* copy, a file an earlier supervisor left), or, for a joiner, a kill left no
\* link (fs.go 222 to 300, workload.go 62 to 73).
FailsOnlyIfDisturbed ==
    \A l \in Launch : at[l] = "failed" /\ l \notin disturbed =>
        IF IsRoot(l) THEN "busybox" \in wreck ELSE wreck # {}

\* A workload calls exec with exactly the allowed capabilities permitted,
\* effective, inheritable and ambient, although SetupCapabilities drops every
\* error and whoever is killed or started meanwhile; what exec makes of them
\* is WhitelistKept's subject (caps.go 572 to 588, workload.go 88 to 101).
AllowedAtExec ==
    \A l \in Launch : at[l] = "exec" =>
        /\ caps[l].perm = Allow /\ caps[l].eff = Allow
        /\ caps[l].inh = Allow /\ caps[l].amb = Allow

\* A running workload has no other capabilities than the allowed ones: the list
\* is a whitelist (caps.go 13), only what is passed stays active (caps.go 345),
\* and who becomes root is still limited by the bounding set (README.md 108).
\* The code drops CAP_SETPCAP from the effective set before it reduces the
\* bounding set with it (caps.go 572 to 588), and the workload is user 0.
WhitelistKept ==
    \A l \in Launch : at[l] \in Running => caps[l].perm \cup caps[l].eff \subseteq Allow

\* However the output is cut into reads, the lines shown are those of the
\* output read so far (logger.go 173 to 192).
LinesWhole ==
    \A l \in Launch : out[l].cap = "on" =>
        out[l].shown = Lines(SubSeq(out[l].all, 1, out[l].read))

(* An output whose last line is ended if it was not. *)
Terminated(s) == IF s # <<>> /\ s[Len(s)] # "NL" THEN Append(s, "NL") ELSE s

\* A capture that has ended showed all of the output, the unended last line
\* too: the end of the stream is not seen while a process that may still write,
\* or an init that may still fork one, holds the write end (logger.go 173 to
\* 207, workload.go 105).
ShownToTheEnd ==
    \A l \in Launch : out[l].cap = "ended" => out[l].shown = Lines(Terminated(out[l].all))

(* The capture of a workload that is over goes on, although the containers *)
(* forked before it closed the supervisor's write end, which hold that end *)
(* too, are gone.                                                          *)
Lingers(l) ==
    /\ sup = "up" /\ out[l].cap = "on"
    /\ at[l] \in Over /\ \A k \in overlap[l] : Gone(k)

\* No capture lingers for ever: it ends, having shown everything, by
\* ShownToTheEnd, or the supervisor leaves (logger.go 160 to 207, workload.go
\* 105).
CaptureCompletes ==
    (\E l \in Launch : Lingers(l)) ~> \A l \in Launch : ~Lingers(l)

(* Its entry was replaced, or its init is gone (killed, if it lives). *)
Stray(l) == l \in replaced \/ init[l] = "exited"

\* exit reaches every workload but those whose entry another start replaced and
\* those whose init was killed without them, whatever was started, killed and
\* handled before, if no start is under way (commands.go 189 to 209,
\* orchestrator.go 176 to 188).
ExitMissesStrays ==
    sup = "gone" /\ quiet => \A l \in Launch : at[l] \in Over \/ Stray(l)

\* After exit every init and every workload ends, provided that no start was
\* under way and that the workloads exit may miss are over, whose entry was
\* replaced by a joiner of the same name or whose init was killed without them:
\* nobody is left to write to a KeepAlive, so each held init depends on the last
\* copy of its end being closed by the later containers that inherited it
\* (commands.go 189 to 209, orchestrator.go 176 to 188, workload.go 166).
ExitEndsAll ==
    sup = "gone" /\ quiet /\ (\A l \in Launch : Stray(l) => at[l] \in Over) ~>
        \A l \in Launch : Gone(l)
=============================================================================

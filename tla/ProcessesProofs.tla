-------------------------- MODULE ProcessesProofs --------------------------
(***************************************************************************)
(* The capability sets of every workload, its set-up in the shared         *)
(* directory and whom exit reaches, for any number of containers, any      *)
(* capabilities and any allowed ones.  What one call of SetupCapabilities  *)
(* does is proved in CapabilitiesProofs; here, that no interleaving of     *)
(* starts, kills and exits separates it from the exec.                     *)
(***************************************************************************)
EXTENDS Processes, CapabilitiesProofs

Done == SetupCapabilities(FullCaps, Allow)
Stages == Over \cup Before \cup Running

(* The sets of a workload at each stage: any but one that has been through *)
(* SetupCapabilities, once, has the sets it was forked with.               *)
CapsAt(q) == IF q = "exec" THEN Done
             ELSE IF q \in Running THEN execve(Done) ELSE FullCaps

CapsInv ==
    /\ at \in [Launch -> Stages] /\ caps = [l \in Launch |-> caps[l]]
    /\ \A l \in Launch : caps[l] = CapsAt(at[l])

LEMMA Distinct == /\ Over \cap Running = {} /\ Before \cap Running = {}
                  /\ Preparing \subseteq Before /\ Before \subseteq Stages
                  /\ Over \subseteq Stages /\ Running \subseteq Stages
                  /\ "exec" \notin Running \cup Over
  BY DEF Over, Before, Running, Preparing, Stages

(* A step that leaves the workloads alone. *)
LEMMA CapsFrame == CapsInv /\ UNCHANGED <<at, caps>> => CapsInv'
  BY DEF CapsInv

(* A step of the set-up, or the fork. *)
LEMMA CapsGoto ==
    ASSUME CapsInv, NEW l \in Launch, NEW q \in Stages,
           at[l] \notin Running \cup {"exec"}, q \notin Running \cup {"exec"},
           at' = Set(at, l, q), UNCHANGED caps
    PROVE  CapsInv'
  BY DEF CapsInv, CapsAt, Set

(* The workload is over. *)
LEMMA CapsEnds ==
    ASSUME CapsInv, NEW l \in Launch, NEW q \in Over, Ends(l, q)
    PROVE  CapsInv'
  BY Distinct DEF CapsInv, CapsAt, Set, Ends

LEMMA CapsKilled ==
    ASSUME CapsInv, NEW S \in SUBSET Launch, Killed(S)
    PROVE  CapsInv'
  <1>1. "dead" \in Stages /\ "dead" \notin Running \cup {"exec"}
    BY DEF Stages, Over, Running
  <1> DEFINE K == {l \in S : at[l] \notin Over}
  <1>2. /\ at' = [l \in Launch |-> IF l \in K THEN "dead" ELSE at[l]]
        /\ caps' = [l \in Launch |-> IF l \in K THEN FullCaps ELSE caps[l]]
    BY DEF Killed
  <1> QED
    BY <1>1, <1>2 DEF CapsInv, CapsAt

LEMMA CapsApply ==
    ASSUME CapsInv, NEW l \in Launch, ApplyCapabilities(l)
    PROVE  CapsInv'
  <1>1. caps[l] = FullCaps
    BY DEF ApplyCapabilities, Goto, CapsInv, CapsAt, Running
  <1>2. at' = Set(at, l, "exec") /\ caps' = Set(caps, l, Done)
    BY <1>1 DEF ApplyCapabilities, Goto, Done
  <1>3. "exec" \in Stages
    BY DEF Stages, Before
  <1> QED
    BY <1>2, <1>3 DEF CapsInv, CapsAt, Set

LEMMA CapsExec ==
    ASSUME CapsInv, NEW l \in Launch, Exec(l)
    PROVE  CapsInv'
  <1>1. caps[l] = Done
    BY DEF Exec, CapsInv, CapsAt
  <1>2. CASE Ends(l, "failed")
    BY <1>2, CapsEnds DEF Over
  <1>3. CASE /\ Lives(l, IF Pivoted(l) THEN "running" ELSE "hosted")
             /\ caps' = Set(caps, l, execve(caps[l]))
    <2>1. PICK q \in Running : at' = Set(at, l, q)
      BY <1>3 DEF Lives, Running
    <2>2. q \in Stages /\ q # "exec"
      BY Distinct
    <2>3. caps' = Set(caps, l, execve(Done))
      BY <1>1, <1>3
    <2> QED
      BY <2>1, <2>2, <2>3 DEF CapsInv, CapsAt, Set
  <1> QED
    BY <1>2, <1>3 DEF Exec

LEMMA CapsSetup ==
    ASSUME CapsInv, NEW l \in Launch, SetupStep(l)
    PROVE  CapsInv'
  <1>1. ASSUME NEW p \in Before \ {"exec"}, NEW q \in Before \ {"exec"},
               Goto(l, p, q), UNCHANGED caps
        PROVE  CapsInv'
    BY <1>1, CapsGoto, Distinct DEF Goto
  <1>2. "failed" \in Over
    BY DEF Over
  <1>3. CASE StatBusybox(l)
    <2>1. PICK q \in Before \ {"exec"} : Goto(l, "stat", q)
      BY <1>3 DEF StatBusybox, Before, Preparing
    <2> QED
      BY <1>1, <1>3, <2>1 DEF StatBusybox, setup, Before, Preparing
  <1>4. CASE OpenBusybox(l)
    <2>1. PICK q \in Before \ {"exec"} : Goto(l, "open", q)
      BY <1>4 DEF OpenBusybox, Before, Preparing
    <2> QED
      BY <1>1, <1>4, <2>1 DEF OpenBusybox, Before, Preparing
  <1>5. CASE WriteBusybox(l)
    BY <1>1, <1>5 DEF WriteBusybox, OnDisk, Before, Preparing
  <1>a. CASE CopyFails(l)
    BY <1>1, <1>a DEF CopyFails, setup, Before, Preparing
  <1>6. CASE RemoveLink(l)
    BY <1>1, <1>6 DEF RemoveLink, OnDisk, Before, Preparing
  <1>7. CASE MakeLink(l)
    BY <1>1, <1>7 DEF MakeLink, OnDisk, Before, Preparing
  <1>8. CASE MakeOld(l)
    BY <1>1, <1>8 DEF MakeOld, OnDisk, Before, Preparing
  <1>9. CASE PivotRoot(l)
    <2>1. CASE Ends(l, "failed")
      BY <1>2, <2>1, CapsEnds
    <2>2. CASE Lives(l, "umount") /\ UNCHANGED caps
      BY <1>1, <1>9, <2>2 DEF PivotRoot, Lives, Goto, Before, Preparing
    <2> QED
      BY <1>9, <2>1, <2>2 DEF PivotRoot
  <1>10. CASE UnmountOld(l)
    <2>1. CASE Ends(l, "failed")
      BY <1>2, <2>1, CapsEnds
    <2>2. CASE Lives(l, "rmold") /\ UNCHANGED caps
      BY <1>1, <1>10, <2>2 DEF UnmountOld, Lives, Goto, Before, Preparing
    <2> QED
      BY <1>10, <2>1, <2>2 DEF UnmountOld
  <1>11. CASE RemoveOldRoot(l)
    BY <1>1, <1>11 DEF RemoveOldRoot, Before, Preparing
  <1> QED
    BY <1>3, <1>4, <1>5, <1>a, <1>6, <1>7, <1>8, <1>9, <1>10, <1>11, CapsApply, CapsExec
    DEF SetupStep

(* Before its start forked a launch has no processes, before its init      *)
(* forked it has no workload.                                              *)
StageOK(p, i, t, a) ==
    /\ p \in {"none", "fork"} => i = "none" /\ t = "none"
    /\ p = "shake" => i = "boot" /\ t = "none"
    /\ i \in {"none", "boot", "go"} => a = "none"

StageInv ==
    /\ pc = [l \in Launch |-> pc[l]] /\ init = [l \in Launch |-> init[l]]
    /\ table = [l \in Launch |-> table[l]] /\ at = [l \in Launch |-> at[l]]
    /\ \A l \in Launch : StageOK(pc[l], init[l], table[l], at[l])

LEMMA StageFrame == StageInv /\ UNCHANGED <<pc, init, table, at>> => StageInv'
  BY DEF StageInv

(* The supervisor's steps of a start. *)
LEMMA StageStart ==
    ASSUME StageInv, NEW l \in Launch,
           \/ StartStep(l)
           \/ \E k \in {"root", "batch", "joiner"}, r \in 0..MaxLaunch : Create(l, k, r)
    PROVE  StageInv' /\ UNCHANGED <<at, caps>>
  <1>1. CASE \E k \in {"root", "batch", "joiner"}, r \in 0..MaxLaunch : Create(l, k, r)
    BY <1>1 DEF Create, StageInv, StageOK, Set, process, setup
  <1>2. CASE Fork(l)
    BY <1>2 DEF Fork, StageInv, StageOK, Set, setup
  <1>3. CASE Shake(l)
    BY <1>3 DEF Shake, Insert, StageInv, StageOK, Set, setup
  <1>4. CASE Finalize(l)
    BY <1>4 DEF Finalize, Insert, StageInv, StageOK, Set, process, setup
  <1>5. CASE Settle(l)
    BY <1>5 DEF Settle, StageInv, StageOK, Set, setup
  <1>6. CASE Reinsert(l)
    BY <1>6 DEF Reinsert, Insert, StageInv, StageOK, Set, process, setup
  <1> QED
    BY <1>1, <1>2, <1>3, <1>4, <1>5, <1>6 DEF StartStep

LEMMA StageInitStep ==
    ASSUME StageInv, CapsInv, NEW l \in Launch, InitStep(l)
    PROVE  StageInv' /\ CapsInv'
  <1>1. CASE ForkWorkload(l)
    <2>1. at[l] = "none"
      BY <1>1 DEF ForkWorkload, StageInv, StageOK
    <2>2. PICK q \in Before \ {"exec"} : at' = Set(at, l, q)
      BY <1>1 DEF ForkWorkload, Before, Preparing
    <2>3. CapsInv'
      <3>1. at[l] \notin Running \cup {"exec"} /\ q \in Stages /\ q \notin Running \cup {"exec"}
        BY <2>1, Distinct DEF Over
      <3> QED
        BY <1>1, <2>2, <3>1, CapsGoto DEF ForkWorkload, setup
    <2>4. StageInv'
      BY <1>1, <2>2 DEF ForkWorkload, StageInv, StageOK, Set, supervisor
    <2> QED
      BY <2>3, <2>4
  <1>2. CASE WaitWorkload(l)
    BY <1>2, CapsFrame DEF WaitWorkload, StageInv, StageOK, Set, supervisor, setup
  <1>3. CASE Released(l)
    BY <1>3, CapsFrame DEF Released, StageInv, StageOK, Set, supervisor, setup
  <1> QED
    BY <1>1, <1>2, <1>3 DEF InitStep

(* Only a workload that exists takes steps. *)
LEMMA StageWorkload ==
    ASSUME StageInv, NEW l \in Launch, SetupStep(l) \/ WorkloadExits(l)
    PROVE  StageInv'
  <1> USE DEF StageInv, Set
  <1>1. /\ UNCHANGED <<pc, init, table>> /\ at[l] # "none"
        /\ at' = [k \in Launch |-> at'[k]] /\ \A k \in Launch \ {l} : at'[k] = at[k]
    <2>1. CASE StatBusybox(l)
      BY <2>1 DEF StatBusybox, Goto, Beside, supervisor
    <2>2. CASE OpenBusybox(l)
      BY <2>2 DEF OpenBusybox, Goto, Beside, supervisor
    <2>3. CASE WriteBusybox(l) \/ RemoveLink(l) \/ MakeLink(l) \/ MakeOld(l)
      BY <2>3 DEF WriteBusybox, RemoveLink, MakeLink, MakeOld, OnDisk, Goto, Beside, supervisor
    <2>a. CASE CopyFails(l)
      BY <2>a DEF CopyFails, Goto, supervisor
    <2>4. CASE PivotRoot(l)
      BY <2>4 DEF PivotRoot, Ends, Lives, Beside, supervisor
    <2>5. CASE UnmountOld(l)
      BY <2>5 DEF UnmountOld, Ends, Lives, Beside, supervisor
    <2>6. CASE RemoveOldRoot(l)
      BY <2>6 DEF RemoveOldRoot, Goto, Beside, supervisor
    <2>9. CASE ApplyCapabilities(l)
      BY <2>9 DEF ApplyCapabilities, Goto, Beside, supervisor
    <2>7. CASE Exec(l)
      BY <2>7 DEF Exec, Ends, Lives, Beside, supervisor
    <2>8. CASE WorkloadExits(l)
      BY <2>8 DEF WorkloadExits, Ends, Running, Beside, supervisor
    <2> QED
      BY <2>1, <2>2, <2>3, <2>a, <2>4, <2>5, <2>6, <2>7, <2>8, <2>9 DEF SetupStep
  <1> QED
    BY <1>1 DEF StageInv, StageOK, Set

LEMMA StageKill ==
    ASSUME StageInv, NEW S \in SUBSET Launch, Killed(S), NEW I \in SUBSET Launch,
           \A l \in I : table[l] = "created", UNCHANGED pc,
           init' = [l \in Launch |-> IF l \in I THEN "exited" ELSE init[l]],
           UNCHANGED table \/ table' = [l \in Launch |-> "none"]
    PROVE  StageInv'
  <1>1. at' = [l \in Launch |-> IF l \in {k \in S : at[k] \notin Over} THEN "dead" ELSE at[l]]
    BY DEF Killed
  <1>2. "none" \in Over
    BY DEF Over
  <1> QED
    BY <1>1, <1>2 DEF StageInv, StageOK

LEMMA KillsKeep ==
    ASSUME StageInv, CapsInv, NEW l \in Launch,
           KillWorkload(l) \/ KillInit(l) \/ Reap(l) \/ Exit
    PROVE  StageInv' /\ CapsInv'
  <1>1. CASE KillWorkload(l)
    <2>1. Killed({l}) /\ UNCHANGED <<pc, init, table>>
      BY <1>1 DEF KillWorkload, supervisor
    <2>2. init' = [k \in Launch |-> IF k \in {} THEN "exited" ELSE init[k]]
      BY <2>1 DEF StageInv
    <2>3. StageInv'
      <3>1. {l} \in SUBSET Launch /\ {} \in SUBSET Launch /\ \A k \in {} : table[k] = "created"
        OBVIOUS
      <3> QED
        BY <2>1, <2>2, <3>1, StageKill
    <2> QED
      BY <2>1, <2>3, CapsKilled
  <1>2. CASE KillInit(l)
    BY <1>2, CapsFrame DEF KillInit, StageInv, StageOK, Set, supervisor, setup
  <1>3. CASE Reap(l)
    BY <1>3, CapsFrame DEF Reap, StageInv, StageOK, Set, setup
  <1>4. CASE Exit
    <2> DEFINE S == {k \in Launch : table[k] = "running"}
               I == {k \in Launch : table[k] = "created" /\ init[k] # "none"}
    <2>1. /\ Killed(S) /\ UNCHANGED pc /\ table' = [k \in Launch |-> "none"]
          /\ init' = [k \in Launch |-> IF k \in I THEN "exited" ELSE init[k]]
      BY <1>4 DEF Exit, ExitTargets
    <2>2. S \in SUBSET Launch /\ I \in SUBSET Launch /\ \A k \in I : table[k] = "created"
      OBVIOUS
    <2> HIDE DEF S, I
    <2> QED
      BY <2>1, <2>2, StageKill, CapsKilled
  <1> QED
    BY <1>1, <1>2, <1>3, <1>4

LEMMA OutputKeeps ==
    ASSUME NEW l \in Launch,
           CaptureStep(l) \/ \E c \in Char : WorkloadWrites(l, c)
    PROVE  UNCHANGED <<pc, init, table, at, caps>>
  BY DEF CaptureStep, CaptureStarts, CaptureReads, CaptureEnds, WorkloadWrites,
         supervisor, process, setup

LEMMA InvInit == Init => CapsInv /\ StageInv
  BY DEF Init, CapsInv, CapsAt, StageInv, StageOK, Stages, Over, Before, Preparing, Running

LEMMA InvStep == CapsInv /\ StageInv /\ [Next]_vars => CapsInv' /\ StageInv'
  <1> SUFFICES ASSUME CapsInv, StageInv, [Next]_vars PROVE CapsInv' /\ StageInv'
    OBVIOUS
  <1>1. CASE UNCHANGED vars
    BY <1>1, CapsFrame, StageFrame DEF vars, supervisor, process, setup
  <1>2. CASE Exit
    <2>1. CASE Launch = {}
      BY <1>2, <2>1 DEF Exit, Killed, CapsInv, StageInv
    <2>2. CASE Launch # {}
      BY <1>2, <2>2, KillsKeep
    <2> QED
      BY <2>1, <2>2
  <1>3. ASSUME NEW l \in Launch,
               \/ StartStep(l)
               \/ \E k \in {"root", "batch", "joiner"}, r \in 0..MaxLaunch : Create(l, k, r)
        PROVE  CapsInv' /\ StageInv'
    BY <1>3, StageStart, CapsFrame
  <1>4. ASSUME NEW l \in Launch, SetupStep(l) \/ WorkloadExits(l)
        PROVE  CapsInv' /\ StageInv'
    <2>1. StageInv'
      BY <1>4, StageWorkload
    <2>2. CapsInv'
      BY <1>4, CapsSetup, CapsEnds DEF WorkloadExits, Over
    <2> QED
      BY <2>1, <2>2
  <1>5. ASSUME NEW l \in Launch, CaptureStep(l) \/ \E c \in Char : WorkloadWrites(l, c)
        PROVE  CapsInv' /\ StageInv'
    BY <1>5, OutputKeeps, CapsFrame, StageFrame
  <1>6. ASSUME NEW l \in Launch, KillWorkload(l) \/ KillInit(l) \/ Reap(l)
        PROVE  CapsInv' /\ StageInv'
    BY <1>6, KillsKeep
  <1> QED
    BY <1>1, <1>2, <1>3, <1>4, <1>5, <1>6, StageInitStep DEF Next

\* Whatever is started, killed or ended meanwhile, every workload calls exec
\* with exactly the allowed capabilities permitted, effective, inheritable and
\* ambient (caps.go 572 to 588, workload.go 88 to 101).
THEOREM CapabilitiesCorrect == Spec => []AllowedAtExec
  <1>1. CapsInv => AllowedAtExec
    <2>1. /\ Done.perm = Allow /\ Done.eff = Allow
          /\ Done.inh = Allow /\ Done.amb = Allow
      BY SetupExact, ProcessesAssumption DEF Done
    <2> QED
      BY <2>1 DEF CapsInv, CapsAt, AllowedAtExec
  <1> QED
    BY <1>1, InvInit, InvStep, PTL DEF Spec

-----------------------------------------------------------------------------
(* The directory that all pods share.  A workload that no other root was   *)
(* set up beside is alone in it (Solo), so that what it left there at one  *)
(* step of PrepareRoot and PivotRoot is there at the next one (OwnInv);    *)
(* what others left before it is whole, or a kill, a copy whose error was   *)
(* dropped or an earlier supervisor left it half done (BusyboxInv, LinkInv). *)

KindInv ==
    /\ kind \in [Launch -> {"none", "root", "batch", "joiner"}]
    /\ of \in [Launch -> 0..MaxLaunch]
    /\ \A l \in Launch : /\ kind[l] = "none" => pc[l] = "none"
                         /\ IsRoot(l) => of[l] = 0
                         /\ kind[l] = "joiner" => of[l] \in Launch
                         /\ at[l] \in Preparing => IsRoot(l)

Solo ==
    \A l \in Launch : at[l] \in Before /\ l \notin disturbed =>
        \A k \in Launch \ {l, of[l]} : at[k] \notin Preparing

MountInv ==
    /\ mnt \in [Launch -> {"none", "on", "off"}]
    /\ \A l \in Launch : mnt[l] # "none" =>
          at[l] \notin {"none", "stat", "open", "write", "unlink", "link", "mkdir", "pivot"}

(* busybox is there once somebody came past it, unless its copy failed,    *)
(* and an empty one is being written or was left behind.                   *)
BusyboxInv ==
    /\ fs \in FS
    /\ fs.bb = "none" => "busybox" \in wreck \/ \A l \in Launch :
          mnt[l] = "none" /\ at[l] \notin {"write", "unlink", "link", "mkdir", "pivot", "running"}
    /\ fs.bb = "torn" => (\E l \in Launch : at[l] = "write") \/ "busybox" \in wreck

(* The same for the link. *)
LinkInv ==
    ~fs.sh => \/ (\E l \in Launch : at[l] = "link") \/ "link" \in wreck
              \/ \A l \in Launch : mnt[l] = "none" /\ at[l] \notin {"mkdir", "pivot"}

OwnInv ==
    \A l \in Launch : IsRoot(l) /\ l \notin disturbed =>
        /\ at[l] \in {"mkdir", "pivot", "umount", "rmold", "caps", "exec"} => fs.sh
        /\ at[l] = "pivot" => fs.old
        /\ at[l] = "umount" => mnt[l] = "on"

FilesInv == MountInv /\ BusyboxInv /\ LinkInv /\ OwnInv
WhoInv == KindInv /\ Solo /\ FailsOnlyIfDisturbed

(* A step of workload l. *)
Moves(l, p, q) ==
    /\ at[l] = p /\ at'[l] = q /\ \A k \in Launch \ {l} : at'[k] = at[k]
    /\ UNCHANGED <<pc, kind, of, disturbed, wreck>>

LEMMA ZeroNoLaunch == 0 \notin Launch /\ Launch \subseteq 0..MaxLaunch
  BY ProcessesAssumption DEF Launch

LEMMA Alone ==
    ASSUME KindInv, Solo, NEW l \in Launch, at[l] \in Preparing,
           NEW m \in Launch, m # l, IsRoot(m), m \notin disturbed
    PROVE  at[m] \notin Before
  BY ZeroNoLaunch DEF KindInv, Solo

LEMMA WhoFrame == WhoInv /\ UNCHANGED <<pc, kind, of, at, disturbed, wreck>> => WhoInv'
  BY DEF WhoInv, KindInv, Solo, FailsOnlyIfDisturbed, IsRoot

LEMMA FilesFrame == FilesInv /\ UNCHANGED <<kind, at, fs, mnt, disturbed, wreck>> => FilesInv'
  BY DEF FilesInv, MountInv, BusyboxInv, LinkInv, OwnInv, IsRoot

(* Nobody starts to prepare the directory, and a failure is accounted for. *)
LEMMA WhoMoves ==
    ASSUME WhoInv, NEW l \in Launch, NEW p, NEW q, Moves(l, p, q),
           q \in Preparing => p \in Preparing, q \in Before => p \in Before,
           q = "failed" /\ l \notin disturbed =>
               IF IsRoot(l) THEN "busybox" \in wreck ELSE wreck # {}
    PROVE  WhoInv'
  <1>0. KindInv /\ Solo /\ FailsOnlyIfDisturbed
    BY DEF WhoInv
  <1>1. KindInv'
    BY <1>0 DEF KindInv, Moves, IsRoot
  <1>2. Solo'
    BY <1>0 DEF Solo, Moves
  <1>3. FailsOnlyIfDisturbed'
    BY <1>0 DEF FailsOnlyIfDisturbed, Moves, IsRoot
  <1> QED
    BY <1>1, <1>2, <1>3 DEF WhoInv

(* What the other undisturbed roots need stays, for there is none.         *)
LEMMA OwnMoves ==
    ASSUME WhoInv, FilesInv, NEW l \in Launch, NEW p \in Preparing, NEW q, Moves(l, p, q),
           IsRoot(l) /\ l \notin disturbed =>
              /\ q \in {"mkdir", "pivot", "umount", "rmold", "caps", "exec"} => fs'.sh
              /\ q = "pivot" => fs'.old
              /\ q = "umount" => mnt'[l] = "on"
    PROVE  OwnInv'
  <1> SUFFICES ASSUME NEW m \in Launch, IsRoot(m)', m \notin disturbed'
               PROVE  /\ at'[m] \in {"mkdir", "pivot", "umount", "rmold", "caps", "exec"} => fs'.sh
                      /\ at'[m] = "pivot" => fs'.old
                      /\ at'[m] = "umount" => mnt'[m] = "on"
    BY DEF OwnInv
  <1>0. IsRoot(m) /\ m \notin disturbed
    BY DEF IsRoot, Moves
  <1>1. CASE m = l
    BY <1>0, <1>1 DEF Moves
  <1>2. CASE m # l
    <2>1. at[m] \notin Before
      BY <1>0, <1>2, Alone DEF WhoInv, Moves
    <2> QED
      BY <1>2, <2>1 DEF Moves, Before, Preparing
  <1> QED
    BY <1>1, <1>2

LEMMA SetMoves ==
    ASSUME CapsInv, NEW l \in Launch, NEW q, at' = Set(at, l, q),
           UNCHANGED <<pc, kind, of, disturbed, wreck>>
    PROVE  Moves(l, at[l], q)
  BY DEF CapsInv, Moves, Set

(* The steps of PrepareRoot. *)
LEMMA PrepareFiles ==
    ASSUME CapsInv, WhoInv, FilesInv, NEW l \in Launch,
           \/ StatBusybox(l) \/ OpenBusybox(l) \/ WriteBusybox(l) \/ CopyFails(l)
           \/ RemoveLink(l) \/ MakeLink(l) \/ MakeOld(l)
    PROVE  WhoInv' /\ FilesInv'
  <1>0. MountInv /\ BusyboxInv /\ LinkInv /\ OwnInv
    BY DEF FilesInv
  <1>1. CASE StatBusybox(l)
    <2>1. PICK q \in {"open", "unlink"} : at' = Set(at, l, q) /\ (q = "unlink" => fs.bb # "none")
      BY <1>1 DEF StatBusybox, Goto, NoBusybox
    <2>2. Moves(l, "stat", q) /\ UNCHANGED <<fs, mnt>>
      BY <1>1, <2>1, SetMoves DEF StatBusybox, Goto, Beside, supervisor, history, setup
    <2>3. MountInv'
      BY <1>0, <2>2 DEF MountInv, Moves
    <2>4. BusyboxInv'
      BY <1>0, <2>1, <2>2 DEF BusyboxInv, Moves
    <2>5. LinkInv'
      BY <1>0, <2>2 DEF LinkInv, Moves
    <2>6. OwnInv'
      BY <2>2, OwnMoves DEF Preparing
    <2>7. WhoInv'
      BY <2>2, WhoMoves DEF Preparing, Before
    <2> QED
      BY <2>3, <2>4, <2>5, <2>6, <2>7 DEF FilesInv
  <1>2. CASE OpenBusybox(l)
    <2>1. PICK q \in {"unlink", "write"} :
            /\ at' = Set(at, l, q)
            /\ q = "unlink" => fs' = fs /\ \E k \in Launch : at[k] = "running"
            /\ q = "write" => fs' = Truncate(fs)
      BY <1>2 DEF OpenBusybox, Goto
    <2>2. Moves(l, "open", q) /\ UNCHANGED mnt
      BY <1>2, <2>1, SetMoves DEF OpenBusybox, Goto, Beside, supervisor, history
    <2>3. fs' \in FS /\ fs'.sh = fs.sh /\ (q = "write" => fs'.bb = "torn")
      BY <1>0, <2>1 DEF BusyboxInv, FS, Truncate
    <2>4. MountInv'
      BY <1>0, <2>2 DEF MountInv, Moves
    <2>5. BusyboxInv'
      BY <1>0, <2>1, <2>2, <2>3 DEF BusyboxInv, Moves
    <2>6. LinkInv'
      BY <1>0, <2>2, <2>3 DEF LinkInv, Moves
    <2>7. OwnInv'
      BY <2>2, OwnMoves DEF Preparing
    <2>8. WhoInv'
      BY <2>2, WhoMoves DEF Preparing, Before
    <2> QED
      BY <2>4, <2>5, <2>6, <2>7, <2>8 DEF FilesInv
  <1>3. CASE WriteBusybox(l)
    <2>1. Moves(l, "write", "unlink") /\ UNCHANGED mnt /\ fs' = Complete(fs)
      BY <1>3, SetMoves DEF WriteBusybox, OnDisk, Goto, Beside, supervisor, history
    <2>2. fs' \in FS /\ fs'.sh = fs.sh /\ fs'.bb = "whole"
      BY <1>0, <2>1 DEF BusyboxInv, FS, Complete
    <2>3. MountInv'
      BY <1>0, <2>1 DEF MountInv, Moves
    <2>4. BusyboxInv'
      BY <2>2 DEF BusyboxInv
    <2>5. LinkInv'
      BY <1>0, <2>1, <2>2 DEF LinkInv, Moves
    <2>6. OwnInv'
      BY <2>1, OwnMoves DEF Preparing
    <2>7. WhoInv'
      BY <2>1, WhoMoves DEF Preparing, Before
    <2> QED
      BY <2>3, <2>4, <2>5, <2>6, <2>7 DEF FilesInv
  <1>a. CASE CopyFails(l)
    <2>0. KindInv /\ Solo /\ FailsOnlyIfDisturbed
      BY DEF WhoInv
    <2>1. /\ at[l] \in {"open", "write"} /\ at'[l] = "unlink"
          /\ \A k \in Launch \ {l} : at'[k] = at[k]
          /\ UNCHANGED <<pc, kind, of, disturbed, fs, mnt>> /\ wreck' = wreck \cup {"busybox"}
      BY <1>a DEF CopyFails, Goto, Set, CapsInv, supervisor, setup
    <2>2. MountInv'
      BY <1>0, <2>1 DEF MountInv
    <2>3. BusyboxInv'
      BY <1>0, <2>1 DEF BusyboxInv
    <2>4. LinkInv'
      BY <1>0, <2>1 DEF LinkInv
    <2>5. OwnInv'
      BY <1>0, <2>1 DEF OwnInv, IsRoot
    <2>6. KindInv'
      BY <2>0, <2>1 DEF KindInv, IsRoot, Preparing
    <2>7. Solo'
      BY <2>0, <2>1 DEF Solo, Before, Preparing
    <2>8. FailsOnlyIfDisturbed'
      BY <2>0, <2>1 DEF FailsOnlyIfDisturbed, IsRoot
    <2> QED
      BY <2>2, <2>3, <2>4, <2>5, <2>6, <2>7, <2>8 DEF FilesInv, WhoInv
  <1>4. CASE RemoveLink(l)
    <2>1. Moves(l, "unlink", "link") /\ UNCHANGED mnt /\ fs' = Unlink(fs)
      BY <1>4, SetMoves DEF RemoveLink, OnDisk, Goto, Beside, supervisor, history
    <2>2. fs' \in FS /\ fs'.bb = fs.bb
      BY <1>0, <2>1 DEF BusyboxInv, FS, Unlink
    <2>3. MountInv'
      BY <1>0, <2>1 DEF MountInv, Moves
    <2>4. BusyboxInv'
      BY <1>0, <2>1, <2>2 DEF BusyboxInv, Moves
    <2>5. LinkInv'
      BY <2>1 DEF LinkInv, Moves
    <2>6. OwnInv'
      BY <2>1, OwnMoves DEF Preparing
    <2>7. WhoInv'
      BY <2>1, WhoMoves DEF Preparing, Before
    <2> QED
      BY <2>3, <2>4, <2>5, <2>6, <2>7 DEF FilesInv
  <1>5. CASE MakeLink(l)
    <2>1. Moves(l, "link", "mkdir") /\ UNCHANGED mnt /\ fs' = Symlink(fs)
      BY <1>5, SetMoves DEF MakeLink, OnDisk, Goto, Beside, supervisor, history
    <2>2. fs' \in FS /\ fs'.bb = fs.bb /\ fs'.sh
      BY <1>0, <2>1 DEF BusyboxInv, FS, Symlink
    <2>3. MountInv'
      BY <1>0, <2>1 DEF MountInv, Moves
    <2>4. BusyboxInv'
      BY <1>0, <2>1, <2>2 DEF BusyboxInv, Moves
    <2>5. LinkInv'
      BY <2>2 DEF LinkInv
    <2>6. OwnInv'
      BY <2>1, <2>2, OwnMoves DEF Preparing
    <2>7. WhoInv'
      BY <2>1, WhoMoves DEF Preparing, Before
    <2> QED
      BY <2>3, <2>4, <2>5, <2>6, <2>7 DEF FilesInv
  <1>6. CASE MakeOld(l)
    <2>1. Moves(l, "mkdir", "pivot") /\ UNCHANGED mnt /\ fs' = MkdirOld(fs)
      BY <1>6, SetMoves DEF MakeOld, OnDisk, Goto, Beside, supervisor, history
    <2>2. fs' \in FS /\ fs'.bb = fs.bb /\ fs'.sh = fs.sh /\ fs'.old
      BY <1>0, <2>1 DEF BusyboxInv, FS, MkdirOld
    <2>3. MountInv'
      BY <1>0, <2>1 DEF MountInv, Moves
    <2>4. BusyboxInv'
      BY <1>0, <2>1, <2>2 DEF BusyboxInv, Moves
    <2>5. LinkInv'
      BY <1>0, <2>1, <2>2 DEF LinkInv, Moves
    <2>6. OwnInv'
      BY <1>0, <2>1, <2>2, OwnMoves DEF Preparing, OwnInv, Moves
    <2>7. WhoInv'
      BY <2>1, WhoMoves DEF Preparing, Before
    <2> QED
      BY <2>3, <2>4, <2>5, <2>6, <2>7 DEF FilesInv
  <1> QED
    BY <1>1, <1>2, <1>3, <1>a, <1>4, <1>5, <1>6

(* The steps of PivotRoot. *)
LEMMA PivotFiles ==
    ASSUME CapsInv, WhoInv, FilesInv, NEW l \in Launch,
           PivotRoot(l) \/ UnmountOld(l) \/ RemoveOldRoot(l)
    PROVE  WhoInv' /\ FilesInv'
  <1>0. MountInv /\ BusyboxInv /\ LinkInv /\ OwnInv /\ KindInv
    BY DEF FilesInv, WhoInv
  <1>1. CASE PivotRoot(l)
    <2>0. UNCHANGED <<pc, kind, of, disturbed, wreck, fs>> /\ at[l] = "pivot" /\ IsRoot(l)
      BY <1>0, <1>1 DEF PivotRoot, Beside, supervisor, history, KindInv, Preparing
    <2>1. CASE fs.old
      <3>1. Moves(l, "pivot", "umount") /\ mnt' = Set(mnt, l, "on")
        BY <1>1, <2>0, <2>1, SetMoves DEF PivotRoot, Lives
      <3>2. MountInv'
        BY <1>0, <3>1 DEF MountInv, Moves, Set
      <3>3. BusyboxInv'
        BY <1>0, <2>0, <3>1 DEF BusyboxInv, Moves, MountInv, Set
      <3>4. LinkInv'
        BY <1>0, <2>0, <3>1 DEF LinkInv, Moves
      <3>5. mnt'[l] = "on"
        BY <1>0, <3>1 DEF MountInv, Set
      <3>6. OwnInv'
        BY <1>0, <2>0, <3>1, <3>5, OwnMoves DEF Preparing, OwnInv
      <3>7. WhoInv'
        BY <3>1, WhoMoves DEF Preparing, Before
      <3> QED
        BY <3>2, <3>3, <3>4, <3>6, <3>7 DEF FilesInv
    <2>2. CASE ~fs.old
      <3>1. Moves(l, "pivot", "failed") /\ UNCHANGED mnt
        BY <1>1, <2>0, <2>2, SetMoves DEF PivotRoot, Ends
      <3>2. l \in disturbed
        BY <1>0, <2>0, <2>2 DEF OwnInv
      <3>3. MountInv'
        BY <1>0, <3>1 DEF MountInv, Moves
      <3>4. BusyboxInv'
        BY <1>0, <2>0, <3>1 DEF BusyboxInv, Moves
      <3>5. LinkInv'
        BY <1>0, <2>0, <3>1 DEF LinkInv, Moves
      <3>6. OwnInv'
        BY <3>1, OwnMoves DEF Preparing
      <3>7. WhoInv'
        BY <3>1, <3>2, WhoMoves DEF Preparing, Before
      <3> QED
        BY <3>3, <3>4, <3>5, <3>6, <3>7 DEF FilesInv
    <2> QED
      BY <2>1, <2>2
  <1>2. CASE UnmountOld(l)
    <2>0. UNCHANGED <<pc, kind, of, disturbed, wreck, fs>> /\ at[l] = "umount" /\ IsRoot(l)
      BY <1>0, <1>2 DEF UnmountOld, Beside, supervisor, history, KindInv, Preparing
    <2>1. CASE mnt[l] = "on"
      <3>1. Moves(l, "umount", "rmold") /\ mnt' = Set(mnt, l, "off")
        BY <1>2, <2>0, <2>1, SetMoves DEF UnmountOld, Lives
      <3>2. MountInv'
        BY <1>0, <3>1 DEF MountInv, Moves, Set
      <3>3. \A k \in Launch : mnt'[k] = "none" <=> mnt[k] = "none"
        BY <1>0, <2>1, <3>1 DEF MountInv, Set
      <3>4. BusyboxInv'
        BY <1>0, <2>0, <3>1, <3>3 DEF BusyboxInv, Moves
      <3>5. LinkInv'
        BY <1>0, <2>0, <3>1, <3>3 DEF LinkInv, Moves
      <3>6. OwnInv'
        BY <1>0, <2>0, <3>1, OwnMoves DEF Preparing, OwnInv
      <3>7. WhoInv'
        BY <3>1, WhoMoves DEF Preparing, Before
      <3> QED
        BY <3>2, <3>4, <3>5, <3>6, <3>7 DEF FilesInv
    <2>2. CASE mnt[l] # "on"
      <3>1. Moves(l, "umount", "failed") /\ UNCHANGED mnt
        BY <1>2, <2>0, <2>2, SetMoves DEF UnmountOld, Ends
      <3>2. l \in disturbed
        BY <1>0, <2>0, <2>2 DEF OwnInv
      <3>3. MountInv'
        BY <1>0, <3>1 DEF MountInv, Moves
      <3>4. BusyboxInv'
        BY <1>0, <2>0, <3>1 DEF BusyboxInv, Moves
      <3>5. LinkInv'
        BY <1>0, <2>0, <3>1 DEF LinkInv, Moves
      <3>6. OwnInv'
        BY <3>1, OwnMoves DEF Preparing
      <3>7. WhoInv'
        BY <3>1, <3>2, WhoMoves DEF Preparing, Before
      <3> QED
        BY <3>3, <3>4, <3>5, <3>6, <3>7 DEF FilesInv
    <2> QED
      BY <2>1, <2>2
  <1>3. CASE RemoveOldRoot(l)
    <2>1. Moves(l, "rmold", "caps") /\ fs' = RemoveOld(fs)
      BY <1>3, SetMoves DEF RemoveOldRoot, Goto, Beside, supervisor, history
    <2>2. fs' \in FS /\ fs'.bb = fs.bb /\ fs'.sh = fs.sh
      BY <1>0, <2>1 DEF BusyboxInv, FS, RemoveOld
    <2>3. /\ mnt' \in [Launch -> {"none", "on", "off"}]
          /\ \A k \in Launch : mnt'[k] = "none" <=> mnt[k] = "none"
      BY <1>0, <1>3 DEF RemoveOldRoot, MountInv
    <2>4. MountInv'
      BY <1>0, <2>1, <2>3 DEF MountInv, Moves
    <2>5. BusyboxInv'
      BY <1>0, <2>1, <2>2, <2>3 DEF BusyboxInv, Moves
    <2>6. LinkInv'
      BY <1>0, <2>1, <2>2, <2>3 DEF LinkInv, Moves
    <2>7. OwnInv'
      BY <1>0, <2>1, <2>2, OwnMoves DEF Preparing, OwnInv, Moves
    <2>8. WhoInv'
      BY <2>1, WhoMoves DEF Preparing, Before
    <2> QED
      BY <2>4, <2>5, <2>6, <2>7, <2>8 DEF FilesInv
  <1> QED
    BY <1>1, <1>2, <1>3

(* Whoever is not disturbed finds the shell whole, unless it was left half *)
(* done.                                                                   *)
LEMMA ExecAccounted ==
    ASSUME WhoInv, FilesInv, StageInv, NEW l \in Launch, at[l] = "exec", l \notin disturbed,
           Pivoted(l), ~(Executable(fs) /\ \A k \in Launch : at[k] # "write")
    PROVE  IF IsRoot(l) THEN "busybox" \in wreck ELSE wreck # {}
  <1>0. MountInv /\ BusyboxInv /\ LinkInv /\ OwnInv /\ KindInv /\ Solo
    BY DEF FilesInv, WhoInv
  <1>1. \A k \in Launch \ {l, of[l]} : at[k] \notin {"write", "link"}
    BY <1>0 DEF Solo, Before, Preparing
  <1>2. CASE IsRoot(l)
    <2>1. \A k \in Launch : at[k] # "write"
      BY <1>0, <1>1, <1>2, ZeroNoLaunch DEF KindInv
    <2>2. fs.bb # "whole"
      BY <1>0, <1>2, <2>1 DEF OwnInv, Executable
    <2>3. fs.bb = "none" => "busybox" \in wreck
      BY <1>0, <1>2 DEF BusyboxInv, Pivoted
    <2> QED
      BY <1>0, <1>2, <2>1, <2>2, <2>3 DEF BusyboxInv, FS
  <1>3. CASE ~IsRoot(l)
    <2> SUFFICES ASSUME wreck = {} PROVE FALSE
      BY <1>3
    <2>1. pc[l] # "none"
      BY DEF StageInv, StageOK
    <2>2. of[l] \in Launch
      BY <1>0, <1>3, <2>1 DEF KindInv, IsRoot
    <2>3. mnt[of[l]] # "none"
      BY <1>3 DEF Pivoted
    <2>4. \A k \in Launch : at[k] \notin {"write", "link"}
      BY <1>0, <1>1, <2>2, <2>3 DEF MountInv
    <2>5. fs.bb = "whole"
      BY <1>0, <2>2, <2>3, <2>4 DEF BusyboxInv, FS
    <2>6. fs.sh
      BY <1>0, <2>2, <2>3, <2>4 DEF LinkInv
    <2> QED
      BY <2>4, <2>5, <2>6 DEF Executable
  <1> QED
    BY <1>2, <1>3

(* The workload's other steps. *)
LEMMA ExecFiles ==
    ASSUME CapsInv, WhoInv, FilesInv, StageInv, NEW l \in Launch,
           ApplyCapabilities(l) \/ Exec(l) \/ WorkloadExits(l)
    PROVE  WhoInv' /\ FilesInv'
  <1>0. MountInv /\ BusyboxInv /\ LinkInv /\ OwnInv /\ KindInv
    BY DEF FilesInv, WhoInv
  <1>1. UNCHANGED <<pc, kind, of, disturbed, wreck, fs, mnt>>
    BY DEF ApplyCapabilities, Exec, WorkloadExits, Beside, supervisor, history
  <1>2. PICK p \in {"caps", "exec"} \cup Running, q \in {"exec", "failed", "dead"} \cup Running :
          /\ at[l] = p /\ at' = Set(at, l, q)
          /\ q = "exec" => p = "caps"
          /\ q = "running" => fs.bb = "whole"
          /\ q = "failed" => /\ at[l] = "exec" /\ Pivoted(l)
                             /\ ~(Executable(fs) /\ \A k \in Launch : at[k] # "write")
    <2>1. CASE ApplyCapabilities(l)
      BY <2>1 DEF ApplyCapabilities, Goto, Running
    <2>2. CASE Exec(l)
      BY <2>2 DEF Exec, Ends, Lives, Running, Executable
    <2>3. CASE WorkloadExits(l)
      BY <2>3 DEF WorkloadExits, Ends, Running
    <2> QED
      BY <2>1, <2>2, <2>3
  <1>3. Moves(l, p, q)
    BY <1>1, <1>2, SetMoves
  <1>4. WhoInv'
    BY <1>2, <1>3, ExecAccounted, WhoMoves DEF Before, Preparing, Running
  <1>5. MountInv'
    BY <1>0, <1>1, <1>2, <1>3 DEF MountInv, Moves, Running
  <1>6. BusyboxInv'
    BY <1>0, <1>1, <1>2, <1>3 DEF BusyboxInv, Moves, Running
  <1>7. LinkInv'
    BY <1>0, <1>1, <1>2, <1>3 DEF LinkInv, Moves, Running
  <1>8. OwnInv'
    BY <1>0, <1>1, <1>2, <1>3 DEF OwnInv, Moves, IsRoot, Running
  <1> QED
    BY <1>4, <1>5, <1>6, <1>7, <1>8 DEF FilesInv

(* A workload appears: the history says whom it disturbs. *)
LEMMA ForkFiles ==
    ASSUME CapsInv, WhoInv, FilesInv, StageInv, NEW l \in Launch, ForkWorkload(l)
    PROVE  WhoInv' /\ FilesInv'
  <1>0. MountInv /\ BusyboxInv /\ LinkInv /\ OwnInv /\ KindInv /\ Solo /\ FailsOnlyIfDisturbed
    BY DEF FilesInv, WhoInv
  <1>1. at[l] = "none" /\ UNCHANGED <<pc, kind, of, wreck, fs, mnt>>
    BY DEF ForkWorkload, StageInv, StageOK, supervisor, setup
  <1>2. PICK q \in {"stat", "caps"} : at' = Set(at, l, q) /\ (q = "stat" <=> IsRoot(l))
    BY DEF ForkWorkload
  <1>3. at'[l] = q /\ \A k \in Launch \ {l} : at'[k] = at[k]
    BY <1>2 DEF CapsInv, Set
  <1>4. /\ disturbed \subseteq disturbed'
        /\ (\E k \in Launch \ {of[l]} : at[k] \in Preparing) => l \in disturbed'
        /\ IsRoot(l) => \A m \in Launch : at[m] \in Before => m \in disturbed'
    BY DEF ForkWorkload
  <1>5. KindInv'
    BY <1>0, <1>1, <1>2, <1>3 DEF KindInv, IsRoot, Preparing
  <1>6. Solo'
    <2> SUFFICES ASSUME NEW m \in Launch, at'[m] \in Before, m \notin disturbed',
                        NEW k \in Launch \ {m, of[m]}
                 PROVE  at'[k] \notin Preparing
      BY <1>1 DEF Solo
    <2>1. CASE m = l
      BY <2>1, <1>3, <1>4
    <2>2. CASE m # l
      <3>1. at[m] \in Before /\ m \notin disturbed /\ ~IsRoot(l)
        BY <2>2, <1>3, <1>4
      <3>2. q \notin Preparing
        BY <1>2, <3>1 DEF Preparing
      <3>3. at[k] \notin Preparing
        BY <3>1, <1>0 DEF Solo
      <3> QED
        BY <1>3, <3>2, <3>3
    <2> QED
      BY <2>1, <2>2
  <1>7. FailsOnlyIfDisturbed'
    BY <1>0, <1>1, <1>3, <1>4 DEF FailsOnlyIfDisturbed, IsRoot
  <1>8. MountInv'
    BY <1>0, <1>1, <1>3 DEF MountInv
  <1>9. BusyboxInv'
    BY <1>0, <1>1, <1>3 DEF BusyboxInv
  <1>10. LinkInv'
    BY <1>0, <1>1, <1>3 DEF LinkInv
  <1>11. OwnInv'
    <2>1. q = "caps" => ~IsRoot(l)
      BY <1>2
    <2> QED
      BY <1>0, <1>1, <1>3, <1>4, <2>1 DEF OwnInv, IsRoot
  <1> QED
    BY <1>5, <1>6, <1>7, <1>8, <1>9, <1>10, <1>11 DEF FilesInv, WhoInv

(* What a kill leaves half done is recorded. *)
LEMMA KillFiles ==
    ASSUME CapsInv, WhoInv, FilesInv, NEW S \in SUBSET Launch, Killed(S),
           UNCHANGED <<pc, kind, of, fs, mnt, disturbed>>
    PROVE  WhoInv' /\ FilesInv'
  <1>0. MountInv /\ BusyboxInv /\ LinkInv /\ OwnInv /\ KindInv /\ Solo /\ FailsOnlyIfDisturbed
    BY DEF FilesInv, WhoInv
  <1> DEFINE K == {l \in S : at[l] \notin Over}
  <1>1. \A l \in Launch : at'[l] = IF l \in K THEN "dead" ELSE at[l]
    BY DEF Killed
  <1>2. wreck' = wreck \cup {w \in {"busybox", "link"} :
                    \E l \in K : at[l] = IF w = "busybox" THEN "write" ELSE "link"}
    BY DEF Killed, Debris
  <1> HIDE DEF K
  <1>3. /\ wreck \subseteq wreck'
        /\ \A l \in K : (at[l] = "write" => "busybox" \in wreck')
        /\ \A l \in K : (at[l] = "link" => "link" \in wreck')
    BY <1>2
  <1>4. "dead" \notin Before /\ "dead" \notin Preparing
    BY DEF Before, Preparing
  <1>5. KindInv'
    BY <1>0, <1>1, <1>4 DEF KindInv, IsRoot
  <1>6. Solo'
    BY <1>0, <1>1, <1>4 DEF Solo
  <1>7. FailsOnlyIfDisturbed'
    BY <1>0, <1>1, <1>3 DEF FailsOnlyIfDisturbed, IsRoot
  <1>8. MountInv'
    BY <1>0, <1>1 DEF MountInv
  <1>9. BusyboxInv'
    BY <1>0, <1>1, <1>3 DEF BusyboxInv
  <1>10. LinkInv'
    BY <1>0, <1>1, <1>3 DEF LinkInv
  <1>11. OwnInv'
    BY <1>0, <1>1 DEF OwnInv, IsRoot
  <1> QED
    BY <1>5, <1>6, <1>7, <1>8, <1>9, <1>10, <1>11 DEF FilesInv, WhoInv

LEMMA CreateFiles ==
    ASSUME WhoInv, FilesInv, StageInv, NEW l \in Launch, NEW k \in {"root", "batch", "joiner"},
           NEW r \in 0..MaxLaunch, Create(l, k, r)
    PROVE  WhoInv' /\ FilesInv'
  <1>0. MountInv /\ BusyboxInv /\ LinkInv /\ OwnInv /\ KindInv /\ Solo /\ FailsOnlyIfDisturbed
    BY DEF FilesInv, WhoInv
  <1>1. /\ at[l] = "none" /\ UNCHANGED <<at, fs, mnt, disturbed, wreck>>
        /\ IF k = "joiner" THEN r \in Launch ELSE r = 0
    BY DEF Create, StageInv, StageOK, process, setup, history
  <1>2. /\ pc'[l] = "fork" /\ kind' = Set(kind, l, k) /\ of' = Set(of, l, r)
        /\ \A m \in Launch \ {l} : pc'[m] = pc[m]
    BY DEF Create, Set, StageInv
  <1>3. /\ kind'[l] = k /\ of'[l] = r
        /\ \A m \in Launch \ {l} : kind'[m] = kind[m] /\ of'[m] = of[m]
        /\ kind' \in [Launch -> {"none", "root", "batch", "joiner"}]
        /\ of' \in [Launch -> 0..MaxLaunch]
    BY <1>0, <1>2 DEF KindInv, Set
  <1>4. at[l] \notin Before \cup {"failed"} /\ at[l] \notin Preparing
    BY <1>1 DEF Before, Preparing
  <1>5. KindInv'
    BY <1>0, <1>1, <1>2, <1>3, <1>4 DEF KindInv, IsRoot
  <1>6. Solo'
    BY <1>0, <1>1, <1>3, <1>4 DEF Solo
  <1>7. FailsOnlyIfDisturbed'
    BY <1>0, <1>1, <1>3 DEF FailsOnlyIfDisturbed, IsRoot
  <1>8. MountInv' /\ BusyboxInv' /\ LinkInv'
    BY <1>0, <1>1 DEF MountInv, BusyboxInv, LinkInv
  <1>9. OwnInv'
    BY <1>0, <1>1, <1>3 DEF OwnInv, IsRoot
  <1> QED
    BY <1>5, <1>6, <1>7, <1>8, <1>9 DEF FilesInv, WhoInv

(* Everything else leaves the directory and its users alone. *)
LEMMA OtherFiles ==
    ASSUME StageInv, WhoInv, FilesInv, NEW l \in Launch,
           \/ StartStep(l) \/ WaitWorkload(l) \/ Released(l) \/ KillInit(l) \/ Reap(l)
           \/ CaptureStep(l) \/ \E c \in Char : WorkloadWrites(l, c)
    PROVE  WhoInv' /\ FilesInv'
  <1>0. KindInv /\ Solo /\ FailsOnlyIfDisturbed
    BY DEF WhoInv
  <1>1. UNCHANGED <<kind, of, at, fs, mnt, disturbed, wreck>>
    BY DEF StartStep, Fork, Shake, Finalize, Settle, Reinsert, WaitWorkload, Released, KillInit,
           Reap, CaptureStep, CaptureStarts, CaptureReads, CaptureEnds, WorkloadWrites,
           supervisor, process, setup, history
  <1>2. \A m \in Launch : kind[m] = "none" => pc'[m] = "none"
    <2>1. pc' = pc \/ \E p : pc[l] # "none" /\ pc' = Set(pc, l, p)
      BY DEF StartStep, Fork, Shake, Finalize, Settle, Reinsert, WaitWorkload, Released, KillInit,
             Reap, CaptureStep, CaptureStarts, CaptureReads, CaptureEnds, WorkloadWrites, supervisor
    <2>2. \A m \in Launch : pc[m] = "none" => pc'[m] = "none"
      BY <2>1 DEF Set, StageInv
    <2> QED
      BY <1>0, <2>2 DEF KindInv
  <1>3. KindInv'
    BY <1>0, <1>1, <1>2 DEF KindInv, IsRoot
  <1>4. Solo' /\ FailsOnlyIfDisturbed'
    BY <1>0, <1>1 DEF Solo, FailsOnlyIfDisturbed, IsRoot
  <1> QED
    BY <1>1, <1>3, <1>4, FilesFrame DEF WhoInv

LEMMA FilesInit == Init => WhoInv /\ FilesInv
  <1> SUFFICES ASSUME Init PROVE WhoInv /\ FilesInv
    OBVIOUS
  <1>1. \A l \in Launch : /\ at[l] = "none" /\ kind[l] = "none" /\ pc[l] = "none"
                          /\ mnt[l] = "none"
    BY DEF Init
  <1>2. "none" \notin Before /\ "none" \notin Preparing
    BY DEF Before, Preparing
  <1>3. KindInv
    BY <1>1, <1>2, ProcessesAssumption DEF Init, KindInv, IsRoot
  <1>4. Solo /\ FailsOnlyIfDisturbed
    BY <1>1, <1>2 DEF Solo, FailsOnlyIfDisturbed
  <1>5. MountInv /\ OwnInv
    BY <1>1 DEF Init, MountInv, OwnInv
  <1>6. BusyboxInv /\ LinkInv
    BY <1>1 DEF Init, BusyboxInv, LinkInv, FoundFS, FS
  <1> QED
    BY <1>3, <1>4, <1>5, <1>6 DEF WhoInv, FilesInv

LEMMA FilesStep ==
    ASSUME CapsInv, StageInv, WhoInv, FilesInv, [Next]_vars
    PROVE  WhoInv' /\ FilesInv'
  <1>1. CASE UNCHANGED vars
    BY <1>1, WhoFrame, FilesFrame DEF vars, supervisor, process, setup, history
  <1>2. CASE Exit
    <2> DEFINE S == {l \in Launch : table[l] = "running"}
    <2>1. Killed(S) /\ UNCHANGED <<pc, kind, of, fs, mnt, disturbed>>
      BY <1>2 DEF Exit, ExitTargets
    <2>2. S \in SUBSET Launch
      OBVIOUS
    <2> HIDE DEF S
    <2> QED
      BY <2>1, <2>2, KillFiles
  <1>3. ASSUME NEW l \in Launch, KillWorkload(l) PROVE WhoInv' /\ FilesInv'
    <2>1. Killed({l}) /\ UNCHANGED <<pc, kind, of, fs, mnt, disturbed>> /\ {l} \in SUBSET Launch
      BY <1>3 DEF KillWorkload, supervisor
    <2> QED
      BY <2>1, KillFiles
  <1> QED
    BY <1>1, <1>2, <1>3, CreateFiles, ForkFiles, PrepareFiles, PivotFiles, ExecFiles, OtherFiles
    DEF Next, SetupStep, InitStep

\* Whatever is started, killed and ended in whatever order, the set-up of a
\* workload in the shared directory fails only if another root was set up
\* beside it, or a busybox without contents was there (left by a copy whose
\* error was dropped, by a kill or by an earlier supervisor) or, for a joiner, a
\* kill left no link behind (fs.go 222 to 300, workload.go 62 to 73).
THEOREM SetupFailsOnlyIfDisturbed == Spec => []FailsOnlyIfDisturbed
  <1> DEFINE I == CapsInv /\ StageInv /\ WhoInv /\ FilesInv
  <1>1. Init => I
    BY InvInit, FilesInit
  <1>2. I /\ [Next]_vars => I'
    BY InvStep, FilesStep
  <1>3. I => FailsOnlyIfDisturbed
    BY DEF WhoInv
  <1> QED
    BY <1>1, <1>2, <1>3, PTL DEF Spec


-----------------------------------------------------------------------------
(* Whom exit reaches. *)

Listed == {"settle", "store", "done"}

(* A workload whose start has got so far is in the table unless it is a    *)
(* stray, and once the supervisor has left only strays live: no init is    *)
(* left that could fork one more.                                          *)
ListedAt(l) ==
    /\ at[l] \notin Over => init[l] \in {"wait", "exited"}
    /\ pc[l] \in Listed => at[l] # "none"
    /\ sup = "up" /\ pc[l] \in Listed /\ at[l] \notin Over => table[l] = "running" \/ Stray(l)
    /\ sup = "gone" /\ quiet => pc[l] \in {"none", "done"} /\ (at[l] \in Over \/ Stray(l))

ListInv == sup \in {"up", "gone"} /\ \A l \in Launch : ListedAt(l)

LEMMA ListFrame ==
    ListInv /\ UNCHANGED <<sup, pc, table, init, at, replaced, quiet>> => ListInv'
  BY DEF ListInv, ListedAt, Stray

LEMMA ListStart ==
    ASSUME ListInv, StageInv, NEW l \in Launch, StartStep(l)
    PROVE  ListInv'
  <1> USE DEF ListInv, StageInv, Set, Listed
  <1>1. sup = "up" /\ UNCHANGED <<sup, at, quiet>>
    BY DEF StartStep, Fork, Shake, Finalize, Settle, Reinsert, process, history
  <1>2. CASE Fork(l)
    <2>1. /\ \A k \in Launch : pc'[k] = IF k = l THEN "shake" ELSE pc[k]
          /\ \A k \in Launch : init'[k] = IF k = l THEN "boot" ELSE init[k]
          /\ at[l] = "none" /\ UNCHANGED <<table, replaced>>
      BY <1>2 DEF Fork, StageOK
    <2> QED
      BY <1>1, <2>1 DEF ListedAt, Stray, Over
  <1>3. CASE Shake(l)
    <2>1. /\ \A k \in Launch : pc'[k] = IF k = l THEN "recv" ELSE pc[k]
          /\ \A k \in Launch : k # l => init'[k] = init[k]
          /\ at[l] = "none"
      BY <1>3 DEF Shake, StageOK
    <2>2. \A k \in Launch : k # l => table'[k] = table[k] \/ k \in replaced'
      BY <1>3 DEF Shake, Insert
    <2>3. replaced \subseteq replaced'
      BY <1>3 DEF Shake, Insert
    <2> QED
      BY <1>1, <2>1, <2>2, <2>3 DEF ListedAt, Stray, Over
  <1>4. CASE Finalize(l) \/ Reinsert(l)
    <2>1. /\ \A k \in Launch : k # l => pc'[k] = pc[k]
          /\ at[l] # "none" /\ UNCHANGED init
      BY <1>4 DEF Finalize, Reinsert, ListedAt, process
    <2>2. /\ table'[l] = "running" /\ replaced \subseteq replaced'
          /\ \A k \in Launch : k # l => table'[k] = table[k] \/ k \in replaced'
      BY <1>4 DEF Finalize, Reinsert, Insert
    <2> QED
      BY <1>1, <2>1, <2>2 DEF ListedAt, Stray
  <1>5. CASE Settle(l)
    <2>1. /\ \A k \in Launch : pc'[k] # pc[k] => pc[k] \in Listed
          /\ UNCHANGED <<table, init, replaced>>
      BY <1>5 DEF Settle, history
    <2> QED
      BY <1>1, <2>1 DEF ListedAt, Stray
  <1> QED
    BY <1>2, <1>3, <1>4, <1>5 DEF StartStep

LEMMA ListInitStep ==
    ASSUME ListInv, StageInv, NEW l \in Launch, InitStep(l)
    PROVE  ListInv'
  <1> USE DEF ListInv, StageInv, Set, Listed
  <1>1. UNCHANGED <<sup, pc, table, replaced, quiet>>
    BY DEF InitStep, ForkWorkload, WaitWorkload, Released, supervisor, history
  <1>2. CASE ForkWorkload(l)
    <2>1. /\ init[l] = "go" /\ at[l] = "none" /\ pc[l] \notin {"none"} \cup Listed
          /\ init'[l] = "wait" /\ at'[l] # "none"
          /\ \A k \in Launch : k # l => init'[k] = init[k] /\ at'[k] = at[k]
      BY <1>2 DEF ForkWorkload, StageOK, ListedAt
    <2> QED
      BY <1>1, <2>1 DEF ListedAt, Stray
  <1>3. CASE WaitWorkload(l) \/ Released(l)
    <2>1. /\ at[l] \in Over /\ UNCHANGED at
          /\ \A k \in Launch : k # l => init'[k] = init[k]
      BY <1>3 DEF WaitWorkload, Released, ListedAt
    <2> QED
      BY <1>1, <2>1 DEF ListedAt, Stray
  <1> QED
    BY <1>2, <1>3 DEF InitStep

LEMMA ListWorkload ==
    ASSUME ListInv, StageInv, NEW l \in Launch, SetupStep(l) \/ WorkloadExits(l)
    PROVE  ListInv'
  <1> USE DEF StageInv, Set, Over
  <1>1. UNCHANGED <<sup, pc, table, init, replaced, quiet>>
    BY DEF SetupStep, WorkloadExits, StatBusybox, OpenBusybox, WriteBusybox, CopyFails,
           RemoveLink, MakeLink, MakeOld, OnDisk, PivotRoot, UnmountOld, RemoveOldRoot,
           ApplyCapabilities, Exec, Beside, supervisor, history
  <1>2. /\ at[l] \notin Over /\ at'[l] # "none"
        /\ \A k \in Launch : k # l => at'[k] = at[k]
    <2>1. CASE StatBusybox(l)
      BY <2>1 DEF StatBusybox, Goto
    <2>2. CASE OpenBusybox(l)
      BY <2>2 DEF OpenBusybox, Goto
    <2>3. CASE WriteBusybox(l) \/ CopyFails(l) \/ RemoveLink(l) \/ MakeLink(l) \/ MakeOld(l)
      BY <2>3 DEF WriteBusybox, CopyFails, RemoveLink, MakeLink, MakeOld, OnDisk, Goto
    <2>4. CASE PivotRoot(l)
      BY <2>4 DEF PivotRoot, Ends, Lives
    <2>5. CASE UnmountOld(l)
      BY <2>5 DEF UnmountOld, Ends, Lives
    <2>6. CASE RemoveOldRoot(l) \/ ApplyCapabilities(l)
      BY <2>6 DEF RemoveOldRoot, ApplyCapabilities, Goto
    <2>7. CASE Exec(l)
      BY <2>7 DEF Exec, Ends, Lives
    <2>8. CASE WorkloadExits(l)
      BY <2>8 DEF WorkloadExits, Ends, Running
    <2> QED
      BY <2>1, <2>2, <2>3, <2>4, <2>5, <2>6, <2>7, <2>8 DEF SetupStep
  <1> QED
    BY <1>1, <1>2 DEF ListInv, ListedAt, Stray

LEMMA ListKill ==
    ASSUME ListInv, StageInv, NEW l \in Launch, KillWorkload(l) \/ KillInit(l) \/ Reap(l)
    PROVE  ListInv'
  <1>1. UNCHANGED <<sup, pc, replaced, quiet>>
    BY DEF KillWorkload, KillInit, Reap, supervisor, history
  <1>2. \A k \in Launch : at'[k] = at[k] \/ (at[k] # "none" /\ at'[k] = "dead")
    BY DEF KillWorkload, Killed, KillInit, Reap, StageInv, Over
  <1>3. \A k \in Launch : init'[k] = init[k] \/ init'[k] = "exited"
    BY DEF KillWorkload, KillInit, Reap, StageInv, Set
  <1>4. \A k \in Launch : table'[k] = table[k] \/ init'[k] = "exited"
    BY DEF KillWorkload, KillInit, Reap, StageInv, Set, supervisor
  <1>5. "dead" \in Over
    BY DEF Over
  <1> QED
    BY <1>1, <1>2, <1>3, <1>4, <1>5 DEF ListInv, ListedAt, Stray

LEMMA ListExit ==
    ASSUME ListInv, StageInv, Exit
    PROVE  ListInv'
  <1>1. /\ sup = "up" /\ sup' = "gone" /\ UNCHANGED <<pc, replaced>>
        /\ quiet' = \A l \in Launch : pc[l] \in {"none", "done"}
    BY DEF Exit
  <1>2. \A k \in Launch : at'[k] = at[k] \/ (at[k] # "none" /\ at'[k] = "dead")
    BY DEF Exit, Killed, StageInv, Over
  <1>3. \A k \in Launch : table[k] = "running" => at'[k] \in Over
    BY DEF Exit, ExitTargets, Killed, Over
  <1>4. \A k \in Launch : init'[k] = init[k] \/ init'[k] = "exited"
    BY DEF Exit
  <1>5. "dead" \in Over
    BY DEF Over
  <1>6. ASSUME NEW k \in Launch PROVE ListedAt(k)'
    <2>1. pc[k] = "none" => at[k] \in Over
      BY DEF StageInv, StageOK, Over
    <2>2. ListedAt(k)
      BY DEF ListInv
    <2> QED
      BY <1>1, <1>2, <1>3, <1>4, <1>5, <2>1, <2>2 DEF ListedAt, Stray, Listed
  <1> QED
    BY <1>1, <1>6 DEF ListInv

LEMMA ListStep == ListInv /\ StageInv /\ [Next]_vars => ListInv'
  <1> SUFFICES ASSUME ListInv, StageInv, [Next]_vars PROVE ListInv'
    OBVIOUS
  <1>1. CASE UNCHANGED vars
    BY <1>1, ListFrame DEF vars, supervisor, process, history
  <1>2. ASSUME NEW l \in Launch, NEW k, NEW r, Create(l, k, r) PROVE ListInv'
    <2>1. /\ sup = "up" /\ UNCHANGED <<sup, table, init, at, replaced, quiet>>
          /\ \A m \in Launch : pc'[m] = IF m = l THEN "fork" ELSE pc[m]
      BY <1>2 DEF Create, StageInv, Set, process, history
    <2> QED
      BY <2>1 DEF ListInv, ListedAt, Stray, Listed
  <1>3. ASSUME NEW l \in Launch, CaptureStep(l) \/ \E c \in Char : WorkloadWrites(l, c)
        PROVE  ListInv'
    BY <1>3, ListFrame DEF CaptureStep, CaptureStarts, CaptureReads, CaptureEnds,
                           WorkloadWrites, supervisor, process, history
  <1> QED
    BY <1>1, <1>2, <1>3, ListStart, ListInitStep, ListWorkload, ListKill, ListExit DEF Next

\* However many containers were started under whatever names, killed and handled,
\* exit with no start under way leaves no workload alive but those whose entry
\* another start replaced and those whose init was killed without them
\* (commands.go 189 to 209, orchestrator.go 176 to 188).
THEOREM ExitReachesListed == Spec => []ExitMissesStrays
  <1>1. Init => ListInv
    BY DEF Init, ListInv, ListedAt, Listed, Over
  <1>2. ListInv => ExitMissesStrays
    BY DEF ListInv, ListedAt, ExitMissesStrays
  <1> QED
    BY <1>1, <1>2, InvInit, InvStep, ListStep, PTL DEF Spec
============================================================================

--------------------------- MODULE ConsoleProofs ---------------------------
(***************************************************************************)
(* Proofs about Console, for every set of names, every number of starts    *)
(* and commands and every capacity of the log channel.                     *)
(*                                                                         *)
(* EntersChecked compares what attach and :exec read at two times.  Its    *)
(* invariant has three layers: who is started and under which name         *)
(* (StartInv), what became of the table entry of a container that was      *)
(* registered (TableInv: it is still there, or it was replaced, or its     *)
(* exit was handled), and what the running command still knows about the   *)
(* table it looked at (CliInv).                                            *)
(***************************************************************************)
EXTENDS Console, TLAPS

StartPC == {"none", "announce", "created", "running", "register", "reinsert", "done"}
CliAt == {"idle", "start", "snapshot", "check", "enter", "attach", "select", "newline",
          "forward"}
HandlerAt == {"idle", "warn", "net", "report"}

CliType == [at : CliAt, id : ID \cup {None}, todo : SUBSET (ID \X Launch),
            seen : SUBSET Launch, obj : SUBSET Object,
            target : 0..MaxLaunch, checked : 0..MaxLaunch]

Reader == [at : {"none", "spawned", "reading"}, of : 0..MaxLaunch]

(* The types, by group of variables; TypeOK is part of them. *)
TablesOK ==
    /\ DOMAIN table \subseteq ID /\ \A n \in DOMAIN table : table[n] \in Object
    /\ marked \subseteq Object /\ mu \in {"free", "handler"} /\ crossed \subseteq Launch
MuxOK ==
    /\ DOMAIN targets \subseteq ID /\ targets \in [DOMAIN targets -> Launch]
    /\ active \in DOMAIN targets \cup {None} /\ mux \in {"free", "cli"}
    /\ reader \in [Launch -> Reader]
UserOK == cli \in CliType /\ next \in Nat \ {0} /\ cmds \in Nat
StartOK ==
    /\ pc \in [Launch -> StartPC] /\ kind \in [Launch -> {"none", "root", "joiner"}]
    /\ name \in [Launch -> ID \cup {None}]
ExitsOK ==
    /\ work \in [Launch -> {"none", "alive", "dead"}]
    /\ killed \subseteq Launch /\ handled \subseteq Launch
    /\ handler \in [at : HandlerAt, id : ID \cup {None}]
LogsOK == logs \in 0..LogCap

Types == TablesOK /\ MuxOK /\ UserOK /\ StartOK /\ ExitsOK /\ LogsOK

Forked == {"created", "running", "register", "reinsert", "done"}

(* A launch that was never started has no name; a workload and a reader    *)
(* exist only once StartContainer came that far.                           *)
Started ==
    \A l \in Launch :
        /\ l >= next => pc[l] = "none"
        /\ pc[l] # "none" => name[l] \in ID /\ (kind[l] = "root" <=> name[l] \in Roots)
        /\ work[l] # "none" => pc[l] \in Forked
        /\ reader[l].at # "none" => l \in Registered
        /\ pc[l] = "reinsert" => kind[l] = "root" /\ targets[name[l]] = l

(* The CLI starts one root at a time. *)
RootStarts(l) == kind[l] = "root" /\ pc[l] \notin {"none", "done"}
OneRoot ==
    \A l \in Launch : RootStarts(l) =>
        cli.at = "start" /\ \A m \in Launch : RootStarts(m) => m = l

(* Both maps list a launch under its own name. *)
Named ==
    /\ \A n \in DOMAIN table : name[table[n].l] = n /\ pc[table[n].l] # "none"
    /\ \A n \in DOMAIN targets : name[targets[n]] = n /\ targets[n] \in Registered
    /\ \A l \in Registered : name[l] \in DOMAIN targets

StartInv == Started /\ OneRoot /\ Named

Lists(n, l) == n \in DOMAIN table /\ table[n].l = l

(* The entry the handler is about to delete is marked and handled; nobody  *)
(* changes it while the handler holds the lock.                            *)
HandlerHas ==
    handler.at = "warn" => /\ mu = "handler" /\ handler.id \in DOMAIN table
                           /\ table[handler.id] \in marked
                           /\ table[handler.id].l \in handled

Kept ==
    \A l \in Launch : pc[l] \in {"register", "reinsert", "done"} =>
        Lists(name[l], l) \/ l \in crossed \cup handled

(* A registered container is listed under a name whose target is another   *)
(* one only if one of the two took the other's name or came late.          *)
Superseded ==
    \A n \in DOMAIN targets, l \in Registered :
        Lists(n, l) /\ l # targets[n] => {l, targets[n]} \cap crossed # {}

TableInv == HandlerHas /\ Kept /\ Superseded

Seen == cli.at \in {"check", "enter", "attach", "select"} => cli.seen \subseteq Registered

(* The same for the targets that :exec has copied. *)
Snapshot ==
    cli.at \in {"check", "enter"} =>
        \A p \in cli.todo, l \in cli.seen :
            Lists(p[1], l) /\ l # p[2] => {l, p[2]} \cap crossed # {}

(* The object attach has looked up is the table's, or was marked before it *)
(* was deleted, or was replaced.                                           *)
LookedUp ==
    cli.at = "attach" =>
        \E o \in Object :
            /\ cli.obj = {o} /\ name[o.l] = cli.id
            /\ o.l \in cli.seen =>
                 \/ o \in marked \/ o.l \in crossed
                 \/ cli.id \in DOMAIN table /\ table[cli.id] = o

(* The container attach has looked at is listed under the name it is about *)
(* to select, or was replaced, or its exit has been handled since.         *)
Selecting ==
    cli.at = "select" /\ cli.checked \in cli.seen =>
        cli.checked \in crossed \cup handled \/ Lists(cli.id, cli.checked)

CliInv == Seen /\ Snapshot /\ LookedUp /\ Selecting /\ EntersChecked

Inv == Types /\ StartInv /\ TableInv /\ CliInv /\ CurrentHasReader

(* What the user and the CLI do that starts nothing. *)
UserStep ==
    \/ ExecLock \/ Detach \/ CliStep \/ ExecOne
    \/ \E n \in ID : AttachLookup(n) \/ ForwardLookup(n) \/ KillFallback(n)

-----------------------------------------------------------------------------
(* Facts about the operators. *)

LEMMA LaunchFacts == 0 \notin Launch /\ Launch \subseteq 0..MaxLaunch /\ Launch \subseteq Nat
  BY ConsoleAssumption DEF Launch

LEMMA PutFacts ==
    ASSUME NEW m, NEW i, NEW v
    PROVE  /\ DOMAIN Put(m, i, v) = DOMAIN m \cup {i} /\ Put(m, i, v)[i] = v
           /\ \A j \in DOMAIN m \ {i} : Put(m, i, v)[j] = m[j]
           /\ Put(m, i, v) = [j \in DOMAIN Put(m, i, v) |-> Put(m, i, v)[j]]
  BY DEF Put

LEMMA IdleType == Idle \in CliType /\ Idle.at = "idle"
  BY ConsoleAssumption DEF Idle, CliType, CliAt

LEMMA ObjectType ==
    ASSUME NEW l \in Launch, NEW g \in {"init", "created", "running"}
    PROVE  [l |-> l, stage |-> g] \in Object
  BY DEF Object

LEMMA InsertFacts ==
    ASSUME NEW n, NEW c, Insert(n, c)
    PROVE  /\ mu = "free"
           /\ DOMAIN table' = DOMAIN table \cup {n} /\ table'[n] = c
           /\ \A j \in DOMAIN table \ {n} : table'[j] = table[j]
           /\ crossed \subseteq crossed'
           /\ (n \in DOMAIN table /\ table[n].l # c.l) => table[n].l \in crossed'
  <1>1. mu = "free" /\ table' = Put(table, n, c)
    BY DEF Insert
  <1>2. crossed' = crossed \cup
          (IF n \in DOMAIN table /\ table[n].l # c.l THEN {table[n].l} ELSE {})
    BY DEF Insert
  <1>3. crossed \subseteq crossed'
    BY <1>2
  <1>4. (n \in DOMAIN table /\ table[n].l # c.l) => table[n].l \in crossed'
    BY <1>2
  <1>5. /\ DOMAIN table' = DOMAIN table \cup {n} /\ table'[n] = c
        /\ \A j \in DOMAIN table \ {n} : table'[j] = table[j]
    BY <1>1 DEF Put
  <1> QED
    BY <1>1, <1>3, <1>4, <1>5

LEMMA InsertType ==
    ASSUME TablesOK, NEW n \in ID, NEW c \in Object, Insert(n, c), UNCHANGED <<marked, mu>>
    PROVE  TablesOK'
  <1>1. crossed' \subseteq Launch
    <2>1. CASE n \in DOMAIN table /\ table[n].l # c.l
      <3>1. table[n].l \in Launch
        BY <2>1 DEF TablesOK, Object
      <3>2. crossed' = crossed \cup {table[n].l}
        BY <2>1 DEF Insert
      <3> QED
        BY <3>1, <3>2 DEF TablesOK
    <2>2. CASE ~(n \in DOMAIN table /\ table[n].l # c.l)
      <3>1. crossed' = crossed
        BY <2>2 DEF Insert
      <3> QED
        BY <3>1 DEF TablesOK
    <2> QED
      BY <2>1, <2>2
  <1>2. /\ DOMAIN table' = DOMAIN table \cup {n} /\ table'[n] = c
        /\ \A j \in DOMAIN table \ {n} : table'[j] = table[j]
    BY InsertFacts
  <1>3. DOMAIN table' \subseteq ID /\ \A j \in DOMAIN table' : table'[j] \in Object
    BY <1>2 DEF TablesOK
  <1> QED
    BY <1>1, <1>3 DEF TablesOK

LEMMA SendType == ASSUME LogsOK, Send PROVE LogsOK'
  BY ConsoleAssumption DEF Send, HasRoom, LogsOK

LEMMA TablesFrame == TablesOK /\ UNCHANGED tables => TablesOK'
  BY DEF TablesOK, tables
LEMMA MuxFrame == MuxOK /\ UNCHANGED muxer => MuxOK'
  BY DEF MuxOK, muxer
LEMMA UserFrame == UserOK /\ UNCHANGED user => UserOK'
  BY DEF UserOK, user
LEMMA StartFrame == StartOK /\ UNCHANGED start => StartOK'
  BY DEF StartOK, start
LEMMA ExitsFrame == ExitsOK /\ UNCHANGED <<work, exits>> => ExitsOK'
  BY DEF ExitsOK, exits
LEMMA LogsFrame == LogsOK /\ UNCHANGED logs => LogsOK'
  BY DEF LogsOK

LEMMA InitTypes == Init => Types
  <1> SUFFICES ASSUME Init PROVE Types
    OBVIOUS
  <1>1. DOMAIN table = {} /\ DOMAIN targets = {} /\ targets \in [DOMAIN targets -> Launch]
    BY DEF Init
  <1>2. TablesOK
    BY <1>1 DEF Init, TablesOK
  <1>3. MuxOK
    BY <1>1, ConsoleAssumption DEF Init, MuxOK, Reader
  <1>4. UserOK
    BY IdleType DEF Init, UserOK
  <1>5. StartOK /\ LogsOK
    BY ConsoleAssumption DEF Init, StartOK, LogsOK, StartPC
  <1>6. ExitsOK
    BY DEF Init, ExitsOK, HandlerIdle, HandlerAt
  <1> QED
    BY <1>2, <1>3, <1>4, <1>5, <1>6 DEF Types

-----------------------------------------------------------------------------
(* Every step preserves the types. *)

LEMMA BeginType ==
    ASSUME StartOK, next \in Nat \ {0}, NEW k \in {"root", "joiner"}, NEW n \in ID, Begin(k, n)
    PROVE  StartOK' /\ next' \in Nat \ {0}
  BY DEF StartOK, Begin, StartPC

LEMMA GotoType ==
    ASSUME StartOK, NEW l \in Launch, NEW p \in StartPC, Goto(l, p), UNCHANGED <<kind, name>>
    PROVE  StartOK'
  BY DEF StartOK, Goto

(* Starts. *)
LEMMA StartTypes ==
    ASSUME Types, StartInv
    PROVE  /\ \A n \in ID : NewRoot(n) \/ NewJoiner(n) \/ RunJoiner(n) => Types'
           /\ \A l \in Launch : StartStep(l) => Types'
  <1>0. TablesOK /\ MuxOK /\ UserOK /\ StartOK /\ ExitsOK /\ LogsOK
    BY DEF Types
  <1>1. ASSUME NEW n \in ID, NewRoot(n) PROVE Types'
    <2>1. StartOK' /\ next' \in Nat \ {0}
      BY <1>0, <1>1, BeginType DEF NewRoot, UserOK
    <2>2. cli' \in CliType
      BY <1>0, <1>1 DEF NewRoot, UserOK, CliType, CliAt
    <2> QED
      BY <1>0, <1>1, <2>1, <2>2, TablesFrame, MuxFrame, ExitsFrame, LogsFrame
      DEF NewRoot, Types, UserOK
  <1>2. ASSUME NEW n \in ID, NewJoiner(n) PROVE Types'
    <2>1. StartOK' /\ next' \in Nat \ {0}
      BY <1>0, <1>2, BeginType DEF NewJoiner, UserOK
    <2>2. [l |-> next, stage |-> "init"] \in Object
      BY <1>2 DEF NewJoiner, Begin, Object
    <2>3. TablesOK'
      BY <1>0, <1>2, <2>2, InsertType DEF NewJoiner
    <2> QED
      BY <1>0, <1>2, <2>1, <2>3, MuxFrame, ExitsFrame, LogsFrame DEF NewJoiner, Types, UserOK
  <1>3. ASSUME NEW n \in ID, RunJoiner(n) PROVE Types'
    <2>1. StartOK' /\ next' \in Nat \ {0}
      BY <1>0, <1>3, BeginType DEF RunJoiner, UserOK
    <2> QED
      BY <1>0, <1>3, <2>1, TablesFrame, MuxFrame, ExitsFrame, LogsFrame
      DEF RunJoiner, Types, UserOK
  <1>4. ASSUME NEW l \in Launch, Announce(l) PROVE Types'
    <2>1. StartOK'
      BY <1>0, <1>4, GotoType DEF Announce, StartPC
    <2>2. LogsOK'
      BY <1>0, <1>4, SendType DEF Announce
    <2> QED
      BY <1>0, <1>4, <2>1, <2>2, TablesFrame, MuxFrame, UserFrame, ExitsFrame DEF Announce, Types
  <1>5. ASSUME NEW l \in Launch, InsertCreated(l) PROVE Types'
    <2>1. StartOK'
      BY <1>0, <1>5, GotoType DEF InsertCreated, StartPC
    <2>2. name[l] \in ID /\ [l |-> l, stage |-> "created"] \in Object
      BY <1>5, ObjectType DEF InsertCreated, StartInv, Started
    <2>3. TablesOK'
      BY <1>0, <1>5, <2>2, InsertType DEF InsertCreated
    <2> QED
      BY <1>0, <1>5, <2>1, <2>3, MuxFrame, UserFrame, ExitsFrame, LogsFrame
      DEF InsertCreated, Types
  <1>6. ASSUME NEW l \in Launch, InsertRunning(l) PROVE Types'
    <2>1. StartOK'
      BY <1>0, <1>6, GotoType DEF InsertRunning, StartPC
    <2>2. name[l] \in ID /\ [l |-> l, stage |-> "running"] \in Object
      BY <1>6, ObjectType DEF InsertRunning, StartInv, Started
    <2>3. TablesOK'
      BY <1>0, <1>6, <2>2, InsertType DEF InsertRunning
    <2> QED
      BY <1>0, <1>6, <2>1, <2>3, MuxFrame, UserFrame, ExitsFrame, LogsFrame
      DEF InsertRunning, Types
  <1>7. ASSUME NEW l \in Launch, Register(l) PROVE Types'
    <2>1. StartOK'
      <3>1. (IF kind[l] = "root" THEN "reinsert" ELSE "done") \in StartPC
        BY DEF StartPC
      <3> QED
        BY <1>0, <1>7, <3>1, GotoType DEF Register
    <2>2. name[l] \in ID
      BY <1>7 DEF Register, StartInv, Started
    <2>3. TablesOK'
      BY <1>0, <1>7 DEF Register, TablesOK
    <2>4. /\ DOMAIN targets' = DOMAIN targets \cup {name[l]}
          /\ targets' \in [DOMAIN targets' -> Launch]
      BY <1>0, <1>7 DEF Register, WithTarget, Put, MuxOK
    <2>5. reader' \in [Launch -> Reader]
      BY <1>0, <1>7 DEF Register, NewReader, MuxOK, Reader
    <2>6. MuxOK'
      BY <1>0, <1>7, <2>2, <2>4, <2>5 DEF Register, MuxOK
    <2> QED
      BY <1>0, <1>7, <2>1, <2>3, <2>6, UserFrame, ExitsFrame, LogsFrame DEF Register, Types
  <1>8. ASSUME NEW l \in Launch, Reinsert(l) PROVE Types'
    <2>1. StartOK'
      BY <1>0, <1>8, GotoType DEF Reinsert, StartPC
    <2>2. name[l] \in ID /\ [l |-> l, stage |-> "running"] \in Object
      BY <1>8, ObjectType DEF Reinsert, StartInv, Started
    <2>3. TablesOK'
      BY <1>0, <1>8, <2>2, InsertType DEF Reinsert
    <2>4. UserOK'
      BY <1>0, <1>8, IdleType DEF Reinsert, UserOK
    <2> QED
      BY <1>0, <1>8, <2>1, <2>3, <2>4, MuxFrame, ExitsFrame, LogsFrame DEF Reinsert, Types
  <1> QED
    BY <1>1, <1>2, <1>3, <1>4, <1>5, <1>6, <1>7, <1>8 DEF StartStep

(* Workloads, the handler, the readers and the logger. *)
LEMMA HandlerTypes ==
    ASSUME Types, StartInv,
           \/ HandlerStep \/ ExitEvent \/ LoggerPrints
           \/ \E l \in Launch : ReaderLooksUp(l) \/ WorkloadExits(l) \/ ForkWorkload(l)
    PROVE  Types'
  <1>0. TablesOK /\ MuxOK /\ UserOK /\ StartOK /\ ExitsOK /\ LogsOK
    BY DEF Types
  <1>1. ASSUME NEW l \in Launch, WorkloadExits(l) \/ ForkWorkload(l) PROVE Types'
    <2>1. ExitsOK'
      BY <1>0, <1>1 DEF WorkloadExits, ForkWorkload, ExitsOK, exits
    <2> QED
      BY <1>0, <1>1, <2>1, TablesFrame, MuxFrame, UserFrame, StartFrame, LogsFrame
      DEF WorkloadExits, ForkWorkload, Types
  <1>2. ASSUME NEW l \in Launch, OnUnknownExit(l) PROVE Types'
    <2>1. ExitsOK'
      BY <1>0, <1>2 DEF OnUnknownExit, ExitsOK
    <2> QED
      BY <1>0, <1>2, <2>1, TablesFrame, MuxFrame, UserFrame, StartFrame, LogsFrame
      DEF OnUnknownExit, Types
  <1>3. ASSUME NEW l \in Launch, OnContainerExit(l) PROVE Types'
    <2>1. PICK n \in Listed(l) : /\ marked' = marked \cup {table[n]}
                                 /\ handler' = [at |-> "warn", id |-> n]
      BY <1>3 DEF OnContainerExit
    <2>2. n \in DOMAIN table
      BY DEF Listed
    <2>3. ExitsOK'
      BY <1>0, <1>3, <2>1, <2>2 DEF OnContainerExit, ExitsOK, TablesOK, HandlerAt
    <2>4. TablesOK'
      BY <1>0, <1>3, <2>1, <2>2 DEF OnContainerExit, TablesOK
    <2> QED
      BY <1>0, <1>3, <2>3, <2>4, MuxFrame, UserFrame, StartFrame, LogsFrame
      DEF OnContainerExit, Types
  <1>4. ASSUME HandlerWarns PROVE Types'
    <2>1. DOMAIN table' \subseteq DOMAIN table /\ \A n \in DOMAIN table' : table'[n] = table[n]
      BY <1>4 DEF HandlerWarns, Del
    <2>2. TablesOK'
      BY <1>0, <1>4, <2>1 DEF HandlerWarns, TablesOK
    <2>3. ExitsOK'
      BY <1>0, <1>4 DEF HandlerWarns, ExitsOK, HandlerAt, HandlerIdle
    <2> QED
      BY <1>0, <1>4, <2>2, <2>3, MuxFrame, UserFrame, StartFrame, SendType
      DEF HandlerWarns, Types
  <1>5. ASSUME HandlerNet PROVE Types'
    <2>1. ExitsOK'
      BY <1>0, <1>5 DEF HandlerNet, ExitsOK, HandlerAt
    <2> QED
      BY <1>0, <1>5, <2>1, TablesFrame, MuxFrame, UserFrame, StartFrame, SendType
      DEF HandlerNet, Types
  <1>6. ASSUME HandlerReports PROVE Types'
    <2>1. ExitsOK'
      BY <1>0, <1>6 DEF HandlerReports, ExitsOK, HandlerAt, HandlerIdle
    <2>2. TablesOK'
      BY <1>0, <1>6 DEF HandlerReports, TablesOK
    <2> QED
      BY <1>0, <1>6, <2>1, <2>2, MuxFrame, UserFrame, StartFrame, SendType
      DEF HandlerReports, Types
  <1>7. ASSUME NEW l \in Launch, ReaderLooksUp(l) PROVE Types'
    <2>1. name[l] \in DOMAIN targets
      BY <1>7 DEF ReaderLooksUp, StartInv, Started, Named
    <2>2. [at |-> "reading", of |-> targets[name[l]]] \in Reader
      BY <1>0, <2>1, LaunchFacts DEF MuxOK, Reader
    <2>3. MuxOK'
      BY <1>0, <1>7, <2>2 DEF ReaderLooksUp, MuxOK
    <2> QED
      BY <1>0, <1>7, <2>3, TablesFrame, UserFrame, StartFrame, ExitsFrame, LogsFrame
      DEF ReaderLooksUp, Types
  <1>8. ASSUME LoggerPrints PROVE Types'
    <2>1. LogsOK'
      BY <1>0, <1>8, ConsoleAssumption DEF LoggerPrints, LogsOK
    <2> QED
      BY <1>0, <1>8, <2>1, TablesFrame, MuxFrame, UserFrame, StartFrame, ExitsFrame
      DEF LoggerPrints, Types
  <1> QED
    BY <1>1, <1>2, <1>3, <1>4, <1>5, <1>6, <1>7, <1>8 DEF HandlerStep, ExitEvent

LEMMA ExecNextType ==
    ASSUME cli \in CliType, NEW p
    PROVE  ExecNext(p) \in CliType /\ ExecNext(p).at \in {"idle", "check"}
  <1>1. CASE cli.todo = {p}
    BY <1>1, IdleType DEF ExecNext
  <1>2. CASE cli.todo # {p}
    <2> DEFINE D == [cli EXCEPT !.at = "check", !.todo = @ \ {p}, !.target = 0, !.checked = 0]
    <2>0. cli.todo \ {p} \in SUBSET (ID \X Launch) /\ 0 \in 0..MaxLaunch
      BY ConsoleAssumption DEF CliType
    <2>1. D \in CliType
      BY <2>0 DEF CliType, CliAt
    <2>2. D.at = "check"
      BY DEF CliType
    <2>3. ExecNext(p) = D
      BY <1>2 DEF ExecNext
    <2> HIDE DEF D
    <2> QED
      BY <2>1, <2>2, <2>3
  <1> QED
    BY <1>1, <1>2

(* The commands. *)
LEMMA CommandTypes ==
    ASSUME Types, StartInv,
           \/ CliStep \/ ExecOne \/ ExecLock \/ Detach
           \/ \E n \in ID : AttachLookup(n) \/ ForwardLookup(n) \/ KillFallback(n)
    PROVE  Types'
  <1>0. /\ TablesOK /\ MuxOK /\ UserOK /\ StartOK /\ ExitsOK /\ LogsOK
        /\ cli \in CliType /\ next \in Nat \ {0} /\ cmds \in Nat
    BY DEF Types, UserOK
  <1>1. ASSUME ExecLock PROVE Types'
    <2>1. UserOK' /\ MuxOK'
      BY <1>0, <1>1 DEF ExecLock, Typing, UserOK, MuxOK, CliType, CliAt
    <2> QED
      BY <1>0, <1>1, <2>1, TablesFrame, StartFrame, ExitsFrame, LogsFrame DEF ExecLock, Types
  <1>2. ASSUME NEW S \in SUBSET ID, ExecSnapshot(S) PROVE Types'
    <2>1. MuxOK'
      BY <1>0, <1>2 DEF ExecSnapshot, MuxOK, Unlocked
    <2>2. cli' \in CliType
      <3>1. CASE S = {}
        BY <3>1, <1>2, IdleType DEF ExecSnapshot
      <3>2. CASE S # {}
        <4>1. S \subseteq DOMAIN targets
          BY <1>2 DEF ExecSnapshot, Selections
        <4>2. {<<n, targets[n]>> : n \in S} \in SUBSET (ID \X Launch)
          BY <1>0, <4>1 DEF MuxOK
        <4>3. Registered \in SUBSET Launch
          BY DEF Registered
        <4> QED
          BY <1>0, <1>2, <3>2, <4>2, <4>3 DEF ExecSnapshot, CliType, CliAt
      <3> QED
        BY <3>1, <3>2
    <2> QED
      BY <1>0, <1>2, <2>1, <2>2, TablesFrame, StartFrame, ExitsFrame, LogsFrame
      DEF ExecSnapshot, Types, UserOK
  <1>3. ASSUME ExecUnknown PROVE Types'
    <2>1. UserOK' /\ MuxOK'
      BY <1>0, <1>3, IdleType DEF ExecUnknown, UserOK, MuxOK
    <2> QED
      BY <1>0, <1>3, <2>1, TablesFrame, StartFrame, ExitsFrame, LogsFrame DEF ExecUnknown, Types
  <1>4. ASSUME NEW p \in cli.todo, ExecCheck(p) PROVE Types'
    <2>0. p \in ID \X Launch
      BY <1>0 DEF CliType
    <2>1. TablesOK'
      BY <1>0, <1>4 DEF ExecCheck, TablesOK
    <2>2. cli' \in CliType
      <3>1. CASE cli' = ExecNext(p)
        BY <1>0, <3>1, ExecNextType
      <3>2. CASE cli' # ExecNext(p)
        <4>1. /\ p[1] \in DOMAIN table
              /\ cli' = [cli EXCEPT !.at = "enter", !.id = p[1], !.target = p[2],
                                    !.checked = table[p[1]].l]
          BY <1>4, <3>2 DEF ExecCheck
        <4>2. table[p[1]].l \in 0..MaxLaunch /\ p[1] \in ID /\ p[2] \in 0..MaxLaunch
          BY <1>0, <2>0, <4>1, LaunchFacts DEF TablesOK, Object
        <4> QED
          BY <1>0, <4>1, <4>2 DEF CliType, CliAt
      <3> QED
        BY <3>1, <3>2
    <2> QED
      BY <1>0, <1>4, <2>1, <2>2, MuxFrame, StartFrame, ExitsFrame, LogsFrame
      DEF ExecCheck, Types, UserOK
  <1>5. ASSUME ExecOne PROVE Types'
    <2>1. cli' \in CliType
      BY <1>0, <1>5, ExecNextType, ConsoleAssumption DEF ExecOne, CliType
    <2> QED
      BY <1>0, <1>5, <2>1, TablesFrame, MuxFrame, StartFrame, ExitsFrame, LogsFrame
      DEF ExecOne, Types, UserOK
  <1>6. ASSUME NEW n \in ID, AttachLookup(n) PROVE Types'
    <2>1. {table[n]} \in SUBSET Object /\ Registered \in SUBSET Launch
      BY <1>0, <1>6 DEF AttachLookup, TablesOK, Registered
    <2>2. cli' = [cli EXCEPT !.at = "attach", !.id = n, !.obj = {table[n]},
                             !.seen = Registered]
      BY <1>6 DEF AttachLookup
    <2>3. cli' \in CliType
      <3> DEFINE o == {table[n]}
                 r == Registered
      <3>1. o \in SUBSET Object /\ r \in SUBSET Launch /\ "attach" \in CliAt
        BY <2>1 DEF CliAt
      <3>2. cli' = [cli EXCEPT !.at = "attach", !.id = n, !.obj = o, !.seen = r]
        BY <2>2
      <3> HIDE DEF o, r
      <3> QED
        BY <1>0, <3>1, <3>2 DEF CliType
    <2>4. next' = next /\ cmds' = cmds + 1
      BY <1>6, Zenon DEF AttachLookup, Typing
    <2>5. UserOK'
      BY <1>0, <2>3, <2>4 DEF UserOK
    <2> QED
      BY <1>0, <1>6, <2>5, TablesFrame, MuxFrame, StartFrame, ExitsFrame, LogsFrame
      DEF AttachLookup, Types
  <1>7. ASSUME AttachRefused \/ WriteNewline PROVE Types'
    <2>1. UserOK'
      BY <1>0, <1>7, IdleType DEF AttachRefused, WriteNewline, UserOK
    <2> QED
      BY <1>0, <1>7, <2>1, TablesFrame, MuxFrame, StartFrame, ExitsFrame, LogsFrame
      DEF AttachRefused, WriteNewline, Types
  <1>8. ASSUME AttachSelect PROVE Types'
    <2>1. cli.id \in DOMAIN targets
      BY <1>8 DEF AttachSelect
    <2>2. targets[cli.id] \in 0..MaxLaunch
      BY <1>0, <2>1, LaunchFacts DEF MuxOK
    <2>3. UserOK'
      BY <1>0, <1>8, <2>2 DEF AttachSelect, UserOK, CliType, CliAt
    <2>4. MuxOK'
      BY <1>0, <1>8, <2>1 DEF AttachSelect, MuxOK
    <2> QED
      BY <1>0, <1>8, <2>3, <2>4, TablesFrame, StartFrame, ExitsFrame, LogsFrame
      DEF AttachSelect, Types
  <1>a. ASSUME AttachCheck PROVE Types'
    <2>1. CASE cli.obj \subseteq marked
      <3>1. UserOK'
        BY <1>0, <1>a, <2>1, IdleType DEF AttachCheck, UserOK
      <3> QED
        BY <1>0, <1>a, <3>1, TablesFrame, MuxFrame, StartFrame, ExitsFrame, LogsFrame
        DEF AttachCheck, Types
    <2>2. CASE ~(cli.obj \subseteq marked)
      <3>1. cli.obj \subseteq Object /\ \E o \in cli.obj : TRUE
        BY <1>0, <2>2 DEF CliType
      <3>2. (CHOOSE o \in cli.obj : TRUE) \in Object
        BY <3>1
      <3> DEFINE c == (CHOOSE o \in cli.obj : TRUE).l
      <3>3. c \in 0..MaxLaunch
        BY <3>2, LaunchFacts DEF Object
      <3>4. cli' = [cli EXCEPT !.at = "select", !.checked = c]
        BY <1>a, <2>2 DEF AttachCheck
      <3> HIDE DEF c
      <3>5. cli' \in CliType
        BY <1>0, <3>3, <3>4 DEF CliType, CliAt
      <3>6. UserOK'
        BY <1>0, <1>a, <3>5 DEF AttachCheck, UserOK
      <3> QED
        BY <1>0, <1>a, <3>6, TablesFrame, MuxFrame, StartFrame, ExitsFrame, LogsFrame
        DEF AttachCheck, Types
    <2> QED
      BY <2>1, <2>2
  <1>b. ASSUME NEW n \in ID, ForwardLookup(n) PROVE Types'
    <2>1. UserOK'
      BY <1>0, <1>b DEF ForwardLookup, Typing, UserOK, CliType, CliAt
    <2> QED
      BY <1>0, <1>b, <2>1, TablesFrame, MuxFrame, StartFrame, ExitsFrame, LogsFrame
      DEF ForwardLookup, Types
  <1>c. ASSUME ForwardEnds PROVE Types'
    <2>1. UserOK'
      BY <1>0, <1>c, IdleType DEF ForwardEnds, UserOK
    <2>2. LogsOK'
      BY <1>0, <1>c, SendType, LogsFrame DEF ForwardEnds
    <2> QED
      BY <1>0, <1>c, <2>1, <2>2, TablesFrame, MuxFrame, StartFrame, ExitsFrame
      DEF ForwardEnds, Types
  <1>d. ASSUME NEW n \in ID, KillFallback(n) PROVE Types'
    <2>1. table[n].l \in Launch
      BY <1>0, <1>d DEF KillFallback, TablesOK, Object
    <2>2. killed' = killed \cup {table[n].l} /\ UNCHANGED <<work, handled, handler>>
      BY <1>d DEF KillFallback
    <2>3. ExitsOK'
      BY <1>0, <2>1, <2>2 DEF ExitsOK
    <2>4. UserOK'
      BY <1>0, <1>d DEF KillFallback, Typing, UserOK
    <2> QED
      BY <1>0, <1>d, <2>3, <2>4, TablesFrame, MuxFrame, StartFrame, LogsFrame
      DEF KillFallback, Types
  <1>9. ASSUME Detach PROVE Types'
    <2>1. MuxOK'
      BY <1>0, <1>9 DEF Detach, MuxOK
    <2> QED
      BY <1>0, <1>9, <2>1, TablesFrame, UserFrame, StartFrame, ExitsFrame, LogsFrame
      DEF Detach, Types
  <1> QED
    BY <1>1, <1>2, <1>3, <1>4, <1>5, <1>6, <1>7, <1>8, <1>9, <1>a, <1>b, <1>c, <1>d
    DEF CliStep, ExecStep, AttachStep

LEMMA TypesStep == Types /\ StartInv /\ [Next]_vars => Types'
  <1>1. ASSUME Types, UNCHANGED vars PROVE Types'
    BY <1>1, TablesFrame, MuxFrame, UserFrame, StartFrame, ExitsFrame, LogsFrame DEF Types, vars
  <1> QED
    BY <1>1, StartTypes, HandlerTypes, CommandTypes DEF Next, Command

-----------------------------------------------------------------------------
(* StartInv: who is started, and under which name. *)

LEMMA BeginFacts ==
    ASSUME Types, Started, NEW k, NEW n, Begin(k, n)
    PROVE  \E c \in Launch :
             /\ c = next /\ next' = c + 1
             /\ pc'[c] = "announce" /\ kind'[c] = k /\ name'[c] = n
             /\ pc[c] = "none" /\ work[c] = "none" /\ reader[c].at = "none"
             /\ \A l \in Launch : l # c => pc'[l] = pc[l] /\ kind'[l] = kind[l] /\ name'[l] = name[l]
             /\ Registered' = Registered
  <1>1. PICK c \in Launch : c = next
    BY DEF Begin
  <1>2. next' = c + 1 /\ pc'[c] = "announce" /\ kind'[c] = k /\ name'[c] = n
    BY <1>1 DEF Begin, Types, StartOK
  <1>3. \A l \in Launch : l # c => pc'[l] = pc[l] /\ kind'[l] = kind[l] /\ name'[l] = name[l]
    BY <1>1 DEF Begin, Types, StartOK
  <1>4. pc[c] = "none"
    BY <1>1, LaunchFacts DEF Started
  <1>5. work[c] = "none" /\ c \notin Registered
    BY <1>4 DEF Started, Registered, Forked
  <1>6. reader[c].at = "none"
    BY <1>5 DEF Started
  <1>7. Registered' = Registered
    BY <1>2, <1>3, <1>4 DEF Registered
  <1> QED
    BY <1>1, <1>2, <1>3, <1>4, <1>5, <1>6, <1>7

LEMMA GotoFacts ==
    ASSUME Types, NEW l \in Launch, NEW p, Goto(l, p)
    PROVE  pc'[l] = p /\ \A m \in Launch : m # l => pc'[m] = pc[m]
  BY DEF Goto, Types, StartOK

(* The commands that start a container. *)
LEMMA BeginStart ==
    ASSUME Types, StartInv, NEW n \in ID, NewRoot(n) \/ NewJoiner(n) \/ RunJoiner(n)
    PROVE  StartInv'
  <1>0. Started /\ OneRoot /\ Named
    BY DEF StartInv
  <1>1. PICK k \in {"root", "joiner"} : Begin(k, n) /\ (k = "root" <=> n \in Roots)
                                        /\ (k = "root" => cli'.at = "start")
                                        /\ (k = "joiner" => cli' = cli)
    <2>1. CASE NewRoot(n)
      BY <2>1 DEF NewRoot, Types, UserOK, CliType
    <2>2. CASE NewJoiner(n) \/ RunJoiner(n)
      BY <2>2 DEF NewJoiner, RunJoiner
    <2> QED
      BY <2>1, <2>2
  <1>2. UNCHANGED <<work, reader, targets>> /\ cli.at = "idle"
    BY DEF NewRoot, NewJoiner, RunJoiner, muxer, AtPrompt
  <1>3. PICK c \in Launch :
             /\ c = next /\ next' = c + 1
             /\ pc'[c] = "announce" /\ kind'[c] = k /\ name'[c] = n
             /\ pc[c] = "none" /\ work[c] = "none" /\ reader[c].at = "none"
             /\ \A l \in Launch : l # c => pc'[l] = pc[l] /\ kind'[l] = kind[l] /\ name'[l] = name[l]
             /\ Registered' = Registered
    BY <1>0, <1>1, BeginFacts
  <1>4. Started'
    <2> SUFFICES ASSUME NEW l \in Launch
                 PROVE  /\ l >= next' => pc'[l] = "none"
                        /\ pc'[l] # "none" => name'[l] \in ID /\ (kind'[l] = "root" <=> name'[l] \in Roots)
                        /\ work'[l] # "none" => pc'[l] \in Forked
                        /\ reader'[l].at # "none" => l \in Registered'
                        /\ pc'[l] = "reinsert" => kind'[l] = "root" /\ targets'[name'[l]] = l
      BY DEF Started
    <2>1. CASE l = c
      BY <2>1, <1>1, <1>2, <1>3, LaunchFacts
    <2>2. CASE l # c
      BY <2>2, <1>0, <1>2, <1>3, LaunchFacts DEF Started
    <2> QED
      BY <2>1, <2>2
  <1>5. \A l \in Launch : ~RootStarts(l)
    BY <1>0, <1>2 DEF OneRoot
  <1>6. OneRoot'
    BY <1>1, <1>3, <1>5 DEF OneRoot, RootStarts
  <1>7. Named'
    <2>1. \A m \in DOMAIN targets : targets[m] \in Launch /\ targets[m] # c
      BY <1>0, <1>3 DEF Named, Registered
    <2>2. \A l \in Registered : l \in Launch /\ l # c
      BY <1>3 DEF Registered
    <2>3. \A m \in DOMAIN table : table[m].l \in Launch /\ table[m].l # c
      BY <1>0, <1>3 DEF Named, Types, TablesOK, Object
    <2>4. \A m \in DOMAIN table' : name'[table'[m].l] = m /\ pc'[table'[m].l] # "none"
      <3>1. CASE table' = table
        BY <3>1, <1>0, <1>3, <2>3 DEF Named
      <3>2. CASE Insert(n, [l |-> c, stage |-> "init"])
        <4>1. DOMAIN table' = DOMAIN table \cup {n} /\ table'[n] = [l |-> c, stage |-> "init"]
              /\ \A j \in DOMAIN table \ {n} : table'[j] = table[j]
          BY <3>2, InsertFacts
        <4> QED
          BY <4>1, <1>0, <1>3, <2>3 DEF Named
      <3> QED
        BY <3>1, <3>2, <1>3 DEF NewRoot, NewJoiner, RunJoiner, tables
    <2>5. \A m \in DOMAIN targets' : name'[targets'[m]] = m /\ targets'[m] \in Registered'
      BY <1>0, <1>2, <1>3, <2>1 DEF Named
    <2>6. \A l \in Registered' : name'[l] \in DOMAIN targets'
      BY <1>0, <1>2, <1>3, <2>2 DEF Named
    <2> QED
      BY <2>4, <2>5, <2>6 DEF Named
  <1> QED
    BY <1>4, <1>6, <1>7 DEF StartInv

(* Steps that leave the starts alone. *)
LEMMA StartInvFrame ==
    ASSUME StartInv, UNCHANGED <<next, start, work, reader, targets>>,
           cli.at = "start" => cli'.at = "start",
           DOMAIN table' \subseteq DOMAIN table, \A n \in DOMAIN table' : table'[n] = table[n]
    PROVE  StartInv'
  <1>0. Started /\ OneRoot /\ Named
    BY DEF StartInv
  <1>1. Registered' = Registered
    BY DEF Registered, start
  <1>2. Started'
    BY <1>0, <1>1 DEF Started, start
  <1>3. OneRoot'
    BY <1>0 DEF OneRoot, RootStarts, start
  <1>4. Named'
    BY <1>0, <1>1 DEF Named, start
  <1> QED
    BY <1>2, <1>3, <1>4 DEF StartInv

(* An entry put into the table under the launch's own name. *)
LEMMA NamedInsert ==
    ASSUME Types, Named, NEW l \in Launch, NEW g, Insert(name[l], [l |-> l, stage |-> g]),
           pc'[l] # "none", \A m \in Launch : m # l => pc'[m] = pc[m], UNCHANGED name
    PROVE  \A n \in DOMAIN table' : name'[table'[n].l] = n /\ pc'[table'[n].l] # "none"
  <1>1. DOMAIN table' = DOMAIN table \cup {name[l]}
    BY InsertFacts
  <1>2. table'[name[l]] = [l |-> l, stage |-> g]
    BY InsertFacts
  <1>3. \A j \in DOMAIN table \ {name[l]} : table'[j] = table[j]
    BY InsertFacts
  <1>4. \A m \in DOMAIN table : table[m].l \in Launch
    BY DEF Types, TablesOK, Object
  <1> QED
    BY <1>1, <1>2, <1>3, <1>4 DEF Named

(* The steps of a start before it registers. *)
LEMMA EarlyStart ==
    ASSUME Types, StartInv, NEW l \in Launch,
           Announce(l) \/ InsertCreated(l) \/ InsertRunning(l)
    PROVE  StartInv'
  <1>0. Started /\ OneRoot /\ Named
    BY DEF StartInv
  <1>1. /\ pc[l] \in {"announce", "created", "running"}
        /\ UNCHANGED <<next, kind, name, work, reader, targets, cli>>
    BY DEF Announce, InsertCreated, InsertRunning, user, muxer
  <1>2. PICK p \in {"created", "running", "register"} : Goto(l, p)
    BY DEF Announce, InsertCreated, InsertRunning
  <1>3. pc'[l] = p /\ \A m \in Launch : m # l => pc'[m] = pc[m]
    BY <1>2, GotoFacts
  <1>5. Registered' = Registered
    BY <1>1, <1>3 DEF Registered
  <1>8. Started'
    BY <1>0, <1>1, <1>3, <1>5 DEF Started, Forked
  <1>9. OneRoot'
    BY <1>0, <1>1, <1>3 DEF OneRoot, RootStarts
  <1>10. \A n \in DOMAIN table' : name'[table'[n].l] = n /\ pc'[table'[n].l] # "none"
    <2>1. CASE table' = table
      <3>1. \A n \in DOMAIN table : table[n].l \in Launch
        BY DEF Types, TablesOK, Object
      <3> QED
        BY <2>1, <3>1, <1>0, <1>1, <1>3 DEF Named
    <2>2. CASE \E g \in {"created", "running"} : Insert(name[l], [l |-> l, stage |-> g])
      BY <2>2, <1>0, <1>1, <1>3, NamedInsert
    <2> QED
      BY <2>1, <2>2 DEF Announce, InsertCreated, InsertRunning, tables
  <1>11. Named'
    BY <1>0, <1>1, <1>5, <1>10 DEF Named
  <1> QED
    BY <1>8, <1>9, <1>11 DEF StartInv

LEMMA RegisterFacts ==
    ASSUME Types, NEW l \in Launch, Register(l)
    PROVE  /\ DOMAIN targets' = DOMAIN targets \cup {name[l]} /\ targets'[name[l]] = l
           /\ \A n \in DOMAIN targets \ {name[l]} : targets'[n] = targets[n]
           /\ Registered' = Registered \cup {l} /\ l \notin Registered
           /\ pc'[l] = (IF kind[l] = "root" THEN "reinsert" ELSE "done")
           /\ \A m \in Launch : m # l => pc'[m] = pc[m]
           /\ crossed \subseteq crossed'
           /\ l \in handled => l \in crossed'
           /\ reader'[l].at = "spawned"
           /\ \A m \in Launch : m # l => reader'[m] = reader[m]
  <1>1. /\ DOMAIN targets' = DOMAIN targets \cup {name[l]} /\ targets'[name[l]] = l
        /\ \A n \in DOMAIN targets \ {name[l]} : targets'[n] = targets[n]
    BY DEF Register, WithTarget, Put
  <1>2. /\ pc'[l] = (IF kind[l] = "root" THEN "reinsert" ELSE "done")
        /\ \A m \in Launch : m # l => pc'[m] = pc[m]
    BY GotoFacts DEF Register
  <1>3. Registered' = Registered \cup {l} /\ l \notin Registered
    <2>1. l \notin Registered
      BY DEF Register, Registered
    <2>2. pc'[l] \in {"reinsert", "done"}
      BY <1>2
    <2>3. Registered' = Registered \cup {l}
      BY <1>2, <2>2 DEF Registered
    <2> QED
      BY <2>1, <2>3
  <1>4. crossed \subseteq crossed' /\ (l \in handled => l \in crossed')
    BY DEF Register
  <1>5. reader'[l].at = "spawned" /\ \A m \in Launch : m # l => reader'[m] = reader[m]
    BY DEF Register, NewReader, Types, MuxOK, Reader
  <1> QED
    BY <1>1, <1>2, <1>3, <1>4, <1>5

LEMMA RegisterStart ==
    ASSUME Types, StartInv, NEW l \in Launch, Register(l)
    PROVE  StartInv'
  <1>0. Started /\ OneRoot /\ Named
    BY DEF StartInv
  <1>1. pc[l] = "register" /\ UNCHANGED <<next, kind, name, table, cli, work>>
    BY DEF Register, user
  <1>a. /\ DOMAIN targets' = DOMAIN targets \cup {name[l]} /\ targets'[name[l]] = l
        /\ \A n \in DOMAIN targets \ {name[l]} : targets'[n] = targets[n]
    BY RegisterFacts
  <1>b. /\ pc'[l] = (IF kind[l] = "root" THEN "reinsert" ELSE "done")
        /\ \A m \in Launch : m # l => pc'[m] = pc[m]
        /\ Registered' = Registered \cup {l}
    BY RegisterFacts
  <1>c. reader'[l].at = "spawned" /\ \A m \in Launch : m # l => reader'[m] = reader[m]
    BY RegisterFacts
  <1>2. name[l] \in ID /\ (kind[l] = "root" <=> name[l] \in Roots)
    BY <1>0, <1>1 DEF Started
  <1>3. ASSUME NEW m \in Launch, m # l, pc[m] = "reinsert"
        PROVE  targets'[name[m]] = m
    <2>1. kind[m] = "root" /\ targets[name[m]] = m /\ name[m] \in DOMAIN targets
          /\ name[m] \in Roots
      BY <1>0, <1>3 DEF Started, Named, Registered
    <2>2. kind[l] # "root"
      BY <1>0, <1>1, <1>3, <2>1 DEF OneRoot, RootStarts
    <2>3. name[m] # name[l]
      BY <1>2, <2>1, <2>2
    <2> QED
      BY <2>1, <2>3, <1>a, <1>b, <1>c
  <1>4. Started'
    <2> SUFFICES ASSUME NEW m \in Launch
                 PROVE  /\ m >= next' => pc'[m] = "none"
                        /\ pc'[m] # "none" => name'[m] \in ID /\ (kind'[m] = "root" <=> name'[m] \in Roots)
                        /\ work'[m] # "none" => pc'[m] \in Forked
                        /\ reader'[m].at # "none" => m \in Registered'
                        /\ pc'[m] = "reinsert" => kind'[m] = "root" /\ targets'[name'[m]] = m
      BY DEF Started
    <2>1. CASE m = l
      <3>1. ~(l >= next)
        BY <1>0, <1>1 DEF Started
      <3>2. pc'[l] \in {"reinsert", "done"} /\ (pc'[l] = "reinsert" => kind[l] = "root")
            /\ targets'[name[l]] = l /\ l \in Registered'
        BY <1>a, <1>b, <1>c
      <3> QED
        BY <2>1, <1>1, <1>2, <3>1, <3>2 DEF Forked
    <2>2. CASE m # l
      <3>1. pc'[m] = pc[m] /\ reader'[m] = reader[m] /\ Registered' = Registered \cup {l}
        BY <2>2, <1>a, <1>b, <1>c
      <3> QED
        BY <2>2, <3>1, <1>0, <1>1, <1>3 DEF Started
    <2> QED
      BY <2>1, <2>2
  <1>5. OneRoot'
    <2>1. \A m \in Launch : RootStarts(m)' => RootStarts(m)
      BY <1>1, <1>a, <1>b, <1>c DEF RootStarts
    <2> QED
      BY <2>1, <1>0, <1>1 DEF OneRoot
  <1>6. Named'
    <2>1. \A n \in DOMAIN table' : name'[table'[n].l] = n /\ pc'[table'[n].l] # "none"
      <3>1. \A n \in DOMAIN table : table[n].l \in Launch
        BY DEF Types, TablesOK, Object
      <3>2. \A m \in Launch : pc[m] # "none" => pc'[m] # "none"
        BY <1>a, <1>b, <1>c
      <3> QED
        BY <3>1, <3>2, <1>0, <1>1 DEF Named
    <2>2. \A n \in DOMAIN targets' : name'[targets'[n]] = n /\ targets'[n] \in Registered'
      BY <1>0, <1>1, <1>a, <1>b, <1>c DEF Named
    <2>3. \A m \in Registered' : name'[m] \in DOMAIN targets'
      BY <1>0, <1>1, <1>a, <1>b, <1>c DEF Named
    <2> QED
      BY <2>1, <2>2, <2>3 DEF Named
  <1> QED
    BY <1>4, <1>5, <1>6 DEF StartInv

LEMMA ReinsertStart ==
    ASSUME Types, StartInv, NEW l \in Launch, Reinsert(l)
    PROVE  StartInv'
  <1>0. Started /\ OneRoot /\ Named
    BY DEF StartInv
  <1>1. pc[l] = "reinsert" /\ UNCHANGED <<next, kind, name, targets, reader, work>>
    BY DEF Reinsert, muxer
  <1>2. pc'[l] = "done" /\ \A m \in Launch : m # l => pc'[m] = pc[m]
    BY GotoFacts DEF Reinsert
  <1>3. Registered' = Registered
    BY <1>1, <1>2 DEF Registered
  <1>4. Started'
    BY <1>0, <1>1, <1>2, <1>3 DEF Started, Forked
  <1>5. OneRoot'
    <2>1. kind[l] = "root"
      BY <1>0, <1>1 DEF Started
    <2>2. \A m \in Launch : RootStarts(m) => m = l
      BY <1>0, <1>1, <2>1 DEF OneRoot, RootStarts
    <2> QED
      BY <1>1, <1>2, <2>2 DEF OneRoot, RootStarts
  <1>6. Named'
    <2>1. \A n \in DOMAIN table' : name'[table'[n].l] = n /\ pc'[table'[n].l] # "none"
      BY <1>0, <1>1, <1>2, NamedInsert DEF Reinsert
    <2> QED
      BY <2>1, <1>0, <1>1, <1>3 DEF Named
  <1> QED
    BY <1>4, <1>5, <1>6 DEF StartInv

LEMMA StartInvStep == Types /\ StartInv /\ [Next]_vars => StartInv'
  <1> SUFFICES ASSUME Types, StartInv, [Next]_vars PROVE StartInv'
    OBVIOUS
  <1>0. Started /\ OneRoot /\ Named /\ cli \in CliType
    BY DEF StartInv, Types, UserOK
  <1>1. ASSUME NEW n \in ID, NewRoot(n) \/ NewJoiner(n) \/ RunJoiner(n) PROVE StartInv'
    BY <1>1, BeginStart
  <1>2. ASSUME NEW l \in Launch, StartStep(l) PROVE StartInv'
    BY <1>2, EarlyStart, RegisterStart, ReinsertStart DEF StartStep
  <1>3. ASSUME NEW l \in Launch, WorkloadExits(l) \/ ForkWorkload(l) PROVE StartInv'
    <2>1. UNCHANGED <<next, start, reader, targets, table, cli>>
      BY <1>3 DEF WorkloadExits, ForkWorkload, tables, muxer, user
    <2>2. \A m \in Launch : work'[m] # "none" => work[m] # "none" \/ pc[m] \in Forked
      BY <1>3 DEF WorkloadExits, ForkWorkload, Types, ExitsOK, Forked
    <2>3. Registered' = Registered
      BY <2>1 DEF Registered, start
    <2>4. Started'
      BY <1>0, <2>1, <2>2, <2>3 DEF Started, start
    <2>5. OneRoot'
      BY <1>0, <2>1 DEF OneRoot, RootStarts, start
    <2>6. Named'
      BY <1>0, <2>1, <2>3 DEF Named, start
    <2> QED
      BY <2>4, <2>5, <2>6 DEF StartInv
  <1>4. ASSUME NEW l \in Launch, ReaderLooksUp(l) PROVE StartInv'
    <2>1. UNCHANGED <<next, start, work, targets, table, cli>>
      BY <1>4 DEF ReaderLooksUp, tables, user
    <2>2. \A m \in Launch : reader'[m].at # "none" => reader[m].at # "none"
      BY <1>4 DEF ReaderLooksUp, Types, MuxOK
    <2>3. Registered' = Registered
      BY <2>1 DEF Registered, start
    <2>4. Started'
      BY <1>0, <2>1, <2>2, <2>3 DEF Started, start
    <2>5. OneRoot'
      BY <1>0, <2>1 DEF OneRoot, RootStarts, start
    <2>6. Named'
      BY <1>0, <2>1, <2>3 DEF Named, start
    <2> QED
      BY <2>4, <2>5, <2>6 DEF StartInv
  <1>5. ASSUME HandlerWarns PROVE StartInv'
    <2>1. DOMAIN table' \subseteq DOMAIN table /\ \A n \in DOMAIN table' : table'[n] = table[n]
      BY <1>5 DEF HandlerWarns, Del
    <2> QED
      BY <1>5, <2>1, StartInvFrame DEF HandlerWarns, muxer, user
  <1>6. ASSUME \/ HandlerNet \/ HandlerReports \/ LoggerPrints
               \/ \E l \in Launch : OnUnknownExit(l) \/ OnContainerExit(l)
        PROVE  StartInv'
    BY <1>6, StartInvFrame
    DEF HandlerNet, HandlerReports, LoggerPrints, OnUnknownExit, OnContainerExit,
        tables, muxer, user
  <1>7. ASSUME UserStep PROVE StartInv'
    <2>1. UNCHANGED <<next, start, work, reader, targets, table>> /\ cli.at # "start"
      BY <1>7
      DEF UserStep, ExecLock, Detach, CliStep, ExecStep, AttachStep, AttachLookup, Typing,
          AtPrompt, ExecSnapshot, ExecUnknown, ExecOne, ExecCheck, AttachCheck, AttachRefused,
          AttachSelect, WriteNewline, ForwardLookup, ForwardEnds, KillFallback,
          tables, muxer, user
    <2> QED
      BY <2>1, StartInvFrame
  <1>8. CASE UNCHANGED vars
    BY <1>8, StartInvFrame DEF vars, tables, muxer, user
  <1> QED
    BY <1>1, <1>2, <1>3, <1>4, <1>5, <1>6, <1>7, <1>8
    DEF Next, Command, HandlerStep, ExitEvent, UserStep

-----------------------------------------------------------------------------
(* TableInv: what became of the entry of a container. *)

Inserted == {"register", "reinsert", "done"}

LEMMA TableFrame ==
    ASSUME Types, TableInv, UNCHANGED <<table, targets>>, Registered' = Registered,
           crossed \subseteq crossed', marked \subseteq marked', handled \subseteq handled',
           \A l \in Launch : pc'[l] \in Inserted => pc[l] \in Inserted /\ name'[l] = name[l],
           handler'.at = "warn" => handler' = handler /\ mu' = mu
    PROVE  TableInv'
  <1>0. HandlerHas /\ Kept /\ Superseded
    BY DEF TableInv
  <1>1. HandlerHas'
    BY <1>0 DEF HandlerHas
  <1>2. Kept'
    BY <1>0 DEF Kept, Lists, Inserted
  <1>3. Superseded'
    BY <1>0 DEF Superseded, Lists
  <1> QED
    BY <1>1, <1>2, <1>3 DEF TableInv

(* Whoever is replaced is crossed; a start that inserts is not registered, *)
(* or is its name's target.                                                *)
LEMMA TableInsert ==
    ASSUME Types, TableInv, NEW n \in ID, NEW c \in Object, Insert(n, c),
           UNCHANGED <<mu, targets, handled, handler>>, Registered' = Registered,
           \A l \in Launch : pc'[l] \in Inserted /\ l # c.l =>
                                pc[l] \in Inserted /\ name'[l] = name[l],
           name'[c.l] = n, c.l \in Registered => targets[n] = c.l
    PROVE  TableInv'
  <1>0. HandlerHas /\ Kept /\ Superseded
    BY DEF TableInv
  <1>1. /\ mu = "free"
        /\ DOMAIN table' = DOMAIN table \cup {n} /\ table'[n] = c
        /\ \A j \in DOMAIN table \ {n} : table'[j] = table[j]
        /\ crossed \subseteq crossed'
    BY InsertFacts
  <1>2. n \in DOMAIN table /\ table[n].l # c.l => table[n].l \in crossed'
    BY InsertFacts
  <1>3. HandlerHas'
    BY <1>0, <1>1 DEF HandlerHas
  <1>4. Kept'
    <2> SUFFICES ASSUME NEW l \in Launch, pc'[l] \in Inserted
                 PROVE  Lists(name[l], l)' \/ l \in crossed' \cup handled'
      BY DEF Kept, Inserted
    <2>1. CASE l = c.l
      BY <2>1, <1>1 DEF Lists
    <2>2. CASE l # c.l
      <3>1. name'[l] = name[l]
        BY <2>2
      <3>2. Lists(name[l], l) \/ l \in crossed \cup handled
        BY <2>2, <1>0 DEF Kept, Inserted
      <3>3. CASE l \in crossed \cup handled
        BY <3>3, <1>1
      <3>4. CASE Lists(name[l], l) /\ name[l] = n
        BY <3>4, <2>2, <1>2 DEF Lists
      <3>5. CASE Lists(name[l], l) /\ name[l] # n
        BY <3>5, <3>1, <1>1 DEF Lists
      <3> QED
        BY <3>2, <3>3, <3>4, <3>5
    <2> QED
      BY <2>1, <2>2
  <1>5. Superseded'
    <2> SUFFICES ASSUME NEW m \in DOMAIN targets, NEW l \in Registered,
                        m \in DOMAIN table', table'[m].l = l, l # targets[m]
                 PROVE  {l, targets[m]} \cap crossed' # {}
      BY DEF Superseded, Lists
    <2>1. m # n
      BY <1>1
    <2>2. {l, targets[m]} \cap crossed # {}
      BY <2>1, <1>0, <1>1 DEF Superseded, Lists
    <2> QED
      BY <2>2, <1>1
  <1> QED
    BY <1>3, <1>4, <1>5 DEF TableInv

LEMMA RegisterTable ==
    ASSUME Types, StartInv, TableInv, NEW l \in Launch, Register(l)
    PROVE  TableInv'
  <1>0. HandlerHas /\ Kept /\ Superseded /\ Named
    BY DEF TableInv, StartInv
  <1>1. pc[l] = "register" /\ UNCHANGED <<table, marked, mu, name, handled, handler>>
    BY DEF Register, exits
  <1>2. /\ DOMAIN targets' = DOMAIN targets \cup {name[l]} /\ targets'[name[l]] = l
        /\ \A n \in DOMAIN targets \ {name[l]} : targets'[n] = targets[n]
    BY RegisterFacts
  <1>3. /\ \A m \in Launch : m # l => pc'[m] = pc[m]
        /\ Registered' = Registered \cup {l}
    BY RegisterFacts
  <1>4. crossed \subseteq crossed' /\ (l \in handled => l \in crossed')
    BY RegisterFacts
  <1>5. HandlerHas'
    BY <1>0, <1>1 DEF HandlerHas
  <1>6. Kept'
    BY <1>0, <1>1, <1>3, <1>4 DEF Kept, Lists
  <1>7. Superseded'
    <2> SUFFICES ASSUME NEW m \in DOMAIN targets', NEW k \in Registered',
                        m \in DOMAIN table, table[m].l = k, k # targets'[m]
                 PROVE  {k, targets'[m]} \cap crossed' # {}
      BY <1>1 DEF Superseded, Lists
    <2>1. CASE m = name[l]
      <3>1. l \in crossed \cup handled
        BY <2>1, <1>0, <1>1, <1>2 DEF Kept, Lists
      <3>2. l \in crossed'
        BY <3>1, <1>4
      <3> QED
        BY <3>2, <2>1, <1>2
    <2>2. CASE m # name[l]
      <3>1. k # l
        BY <2>2, <1>0 DEF Named
      <3>2. k \in Registered /\ m \in DOMAIN targets /\ targets'[m] = targets[m]
        BY <2>2, <3>1, <1>2, <1>3
      <3>3. {k, targets[m]} \cap crossed # {}
        BY <3>2, <1>0 DEF Superseded, Lists
      <3> QED
        BY <3>2, <3>3, <1>4
    <2> QED
      BY <2>1, <2>2
  <1> QED
    BY <1>5, <1>6, <1>7 DEF TableInv

LEMMA BeginTable ==
    ASSUME Types, StartInv, TableInv, NEW n \in ID, NewRoot(n) \/ NewJoiner(n) \/ RunJoiner(n)
    PROVE  TableInv'
  <1>1. PICK k : Begin(k, n)
    BY DEF NewRoot, NewJoiner, RunJoiner
  <1>2. UNCHANGED <<mu, targets, marked, handled, handler>>
    BY DEF NewRoot, NewJoiner, RunJoiner, tables, muxer, exits
  <1>3. PICK c \in Launch :
             /\ c = next /\ name'[c] = n /\ pc[c] = "none" /\ pc'[c] = "announce"
             /\ \A l \in Launch : l # c => pc'[l] = pc[l] /\ name'[l] = name[l]
             /\ Registered' = Registered
    BY <1>1, BeginFacts DEF StartInv
  <1>4. CASE UNCHANGED <<table, crossed>>
    BY <1>4, <1>2, <1>3, TableFrame DEF Inserted
  <1>5. CASE Insert(n, [l |-> c, stage |-> "init"])
    <2> DEFINE o == [l |-> c, stage |-> "init"]
    <2>1. o \in Object /\ o.l = c
      BY ObjectType
    <2>2. c \notin Registered
      BY <1>3 DEF Registered
    <2>3. Insert(n, o)
      BY <1>5
    <2> HIDE DEF o
    <2> QED
      BY <1>2, <1>3, <2>1, <2>2, <2>3, TableInsert
  <1> QED
    BY <1>3, <1>4, <1>5 DEF NewRoot, NewJoiner, RunJoiner, tables

LEMMA EarlyTable ==
    ASSUME Types, StartInv, TableInv, NEW l \in Launch,
           Announce(l) \/ InsertCreated(l) \/ InsertRunning(l) \/ Reinsert(l)
    PROVE  TableInv'
  <1>1. UNCHANGED <<mu, targets, marked, handled, handler, name>>
    BY DEF Announce, InsertCreated, InsertRunning, Reinsert, tables, muxer, exits
  <1>2. PICK p \in {"created", "running", "register", "done"} :
          /\ Goto(l, p)
          /\ p = "done" <=> pc[l] = "reinsert"
          /\ pc[l] \in {"announce", "created", "running", "reinsert"}
          /\ pc[l] = "announce" => p = "created"
    BY DEF Announce, InsertCreated, InsertRunning, Reinsert
  <1>3. pc'[l] = p /\ \A m \in Launch : m # l => pc'[m] = pc[m]
    BY <1>2, GotoFacts
  <1>4. Registered' = Registered
    BY <1>2, <1>3 DEF Registered
  <1>5. CASE pc[l] = "announce"
    <2>1. UNCHANGED <<table, crossed>>
      BY <1>5 DEF Announce, InsertCreated, InsertRunning, Reinsert, tables
    <2> QED
      BY <1>1, <1>2, <1>3, <1>4, <1>5, <2>1, TableFrame DEF Inserted
  <1>6. CASE pc[l] # "announce"
    <2>1. PICK g \in {"created", "running"} : Insert(name[l], [l |-> l, stage |-> g])
      BY <1>6 DEF Announce, InsertCreated, InsertRunning, Reinsert
    <2> DEFINE o == [l |-> l, stage |-> g]
    <2>2. o \in Object /\ o.l = l
      BY ObjectType
    <2>3. l \in Registered => targets[name[l]] = l
      BY <1>2 DEF Registered, StartInv, Started
    <2>4. Insert(name[l], o) /\ name[l] \in ID
      BY <1>2, <2>1 DEF StartInv, Started
    <2> HIDE DEF o
    <2> QED
      BY <1>1, <1>3, <1>4, <2>2, <2>3, <2>4, TableInsert
  <1> QED
    BY <1>5, <1>6

LEMMA TableInvStep == Types /\ StartInv /\ TableInv /\ [Next]_vars => TableInv'
  <1> SUFFICES ASSUME Types, StartInv, TableInv, [Next]_vars PROVE TableInv'
    OBVIOUS
  <1>0. HandlerHas /\ Kept /\ Superseded
    BY DEF TableInv
  <1>1. ASSUME NEW n \in ID, NewRoot(n) \/ NewJoiner(n) \/ RunJoiner(n) PROVE TableInv'
    BY <1>1, BeginTable
  <1>2. ASSUME NEW l \in Launch, StartStep(l) PROVE TableInv'
    BY <1>2, EarlyTable, RegisterTable DEF StartStep
  <1>3. ASSUME NEW l \in Launch, OnContainerExit(l) PROVE TableInv'
    <2>1. PICK n \in Listed(l) : /\ marked' = marked \cup {table[n]}
                                 /\ handler' = [at |-> "warn", id |-> n]
      BY <1>3 DEF OnContainerExit
    <2>2. n \in DOMAIN table /\ table[n].l = l
      BY DEF Listed
    <2>3. /\ mu' = "handler" /\ handled' = handled \cup {l}
          /\ UNCHANGED <<table, crossed, targets, pc, name>>
      BY <1>3 DEF OnContainerExit, muxer, start
    <2>4. HandlerHas'
      BY <2>1, <2>2, <2>3 DEF HandlerHas
    <2>5. Kept'
      BY <1>0, <2>3 DEF Kept, Lists
    <2>6. Superseded'
      BY <1>0, <2>3 DEF Superseded, Lists, Registered
    <2> QED
      BY <2>4, <2>5, <2>6 DEF TableInv
  <1>4. ASSUME HandlerWarns PROVE TableInv'
    <2>1. /\ DOMAIN table' = DOMAIN table \ {handler.id}
          /\ \A n \in DOMAIN table' : table'[n] = table[n]
      BY <1>4 DEF HandlerWarns, Del
    <2>2. UNCHANGED <<crossed, targets, pc, name, handled>>
      BY <1>4 DEF HandlerWarns, muxer, start
    <2>3. handler'.at # "warn"
      BY <1>4 DEF HandlerWarns, HandlerIdle, Types, ExitsOK
    <2>4. table[handler.id].l \in handled
      BY <1>0, <1>4 DEF HandlerWarns, HandlerHas
    <2>5. HandlerHas'
      BY <2>3 DEF HandlerHas
    <2>6. Kept'
      BY <1>0, <2>1, <2>2, <2>4 DEF Kept, Lists
    <2>7. Superseded'
      BY <1>0, <2>1, <2>2 DEF Superseded, Lists, Registered
    <2> QED
      BY <2>5, <2>6, <2>7 DEF TableInv
  <1>5. ASSUME HandlerNet \/ HandlerReports PROVE TableInv'
    <2>1. handler'.at # "warn"
      BY <1>5 DEF HandlerNet, HandlerReports, HandlerIdle, Types, ExitsOK
    <2>2. UNCHANGED <<table, marked, crossed, targets, pc, name, handled>>
      BY <1>5 DEF HandlerNet, HandlerReports, tables, muxer, start
    <2> QED
      BY <2>1, <2>2, TableFrame DEF Registered
  <1>6. ASSUME \/ LoggerPrints \/ UserStep
               \/ \E l \in Launch : \/ WorkloadExits(l) \/ ForkWorkload(l) \/ ReaderLooksUp(l)
                                    \/ OnUnknownExit(l)
               \/ UNCHANGED vars
        PROVE  TableInv'
    <2>1. UNCHANGED <<table, crossed, targets, pc, name, handler, mu>>
      BY <1>6
      DEF LoggerPrints, UserStep, ExecLock, Detach, CliStep, ExecStep, AttachStep,
          AttachLookup, ExecSnapshot, ExecUnknown, ExecOne, ExecCheck, AttachCheck,
          AttachRefused, AttachSelect, WriteNewline, ForwardLookup, ForwardEnds, KillFallback,
          WorkloadExits, ForkWorkload, ReaderLooksUp, OnUnknownExit, vars, tables, muxer, user, start, exits
    <2>2. marked \subseteq marked'
      BY <1>6
      DEF LoggerPrints, UserStep, ExecLock, Detach, CliStep, ExecStep, AttachStep,
          AttachLookup, ExecSnapshot, ExecUnknown, ExecOne, ExecCheck, AttachCheck,
          AttachRefused, AttachSelect, WriteNewline, ForwardLookup, ForwardEnds, KillFallback,
          WorkloadExits, ForkWorkload, ReaderLooksUp, OnUnknownExit, vars, tables
    <2>3. handled \subseteq handled'
      BY <1>6
      DEF LoggerPrints, UserStep, ExecLock, Detach, CliStep, ExecStep, AttachStep,
          AttachLookup, ExecSnapshot, ExecUnknown, ExecOne, ExecCheck, AttachCheck,
          AttachRefused, AttachSelect, WriteNewline, ForwardLookup, ForwardEnds, KillFallback,
          WorkloadExits, ForkWorkload, ReaderLooksUp, OnUnknownExit, vars, exits
    <2>4. Registered' = Registered
      BY <2>1 DEF Registered
    <2> QED
      BY <2>1, <2>2, <2>3, <2>4, TableFrame
  <1> QED
    BY <1>1, <1>2, <1>3, <1>4, <1>5, <1>6 DEF Next, Command, HandlerStep, ExitEvent, UserStep

-----------------------------------------------------------------------------
(* Readers. *)

LEMMA DeadStaysDead ==
    ASSUME Types, StartInv, [Next]_vars
    PROVE  \A l \in Launch : work[l] = "dead" => work'[l] = "dead"
  <1>1. ASSUME NEW l \in Launch, ForkWorkload(l)
        PROVE  work[l] # "dead" /\ work' = [work EXCEPT ![l] = "alive"]
    BY <1>1 DEF ForkWorkload
  <1>2. \/ UNCHANGED work
        \/ \E l \in Launch : ForkWorkload(l)
        \/ \E l \in Launch : work' = [work EXCEPT ![l] = "dead"]
    BY DEF Next, Command, NewRoot, NewJoiner, RunJoiner, StartStep, Announce, InsertRunning,
           InsertCreated, Register, Reinsert, WorkloadExits, HandlerStep, ExitEvent,
           OnUnknownExit, OnContainerExit, HandlerWarns, HandlerNet, HandlerReports,
           LoggerPrints, ExecLock, Detach, CliStep, ExecStep, AttachStep, AttachLookup,
           ExecSnapshot, ExecUnknown, ExecOne, ExecCheck, AttachCheck, AttachRefused,
           AttachSelect, WriteNewline, ForwardLookup, ForwardEnds, KillFallback,
           ReaderLooksUp, vars
  <1> QED
    BY <1>1, <1>2 DEF Types, ExitsOK

HasReader(n) ==
    \E l \in Launch : /\ name[l] = n
                      /\ \/ reader[l].at = "spawned"
                         \/ reader[l] = [at |-> "reading", of |-> targets[n]]

LEMMA ReaderStep ==
    ASSUME Types, StartInv, CurrentHasReader, [Next]_vars
    PROVE  CurrentHasReader'
  <1>0. \A n \in DOMAIN targets : work[targets[n]] = "dead" \/ HasReader(n)
    BY DEF CurrentHasReader, HasReader
  <1>1. \A l \in Launch : work[l] = "dead" => work'[l] = "dead"
    BY DeadStaysDead
  <1>2. \A n \in DOMAIN targets : targets[n] \in Launch
    BY DEF Types, MuxOK
  <1> SUFFICES ASSUME NEW n \in DOMAIN targets'
               PROVE  work'[targets'[n]] = "dead" \/ HasReader(n)'
    BY DEF CurrentHasReader, HasReader
  <1>3. ASSUME UNCHANGED targets, HasReader(n) => HasReader(n)'
        PROVE  work'[targets'[n]] = "dead" \/ HasReader(n)'
    BY <1>0, <1>1, <1>2, <1>3
  <1>4. ASSUME NEW i \in ID, NewRoot(i) \/ NewJoiner(i) \/ RunJoiner(i)
        PROVE  UNCHANGED targets /\ (HasReader(n) => HasReader(n)')
    <2>1. UNCHANGED <<targets, reader>> /\ \E k : Begin(k, i)
      BY <1>4 DEF NewRoot, NewJoiner, RunJoiner, muxer
    <2>2. PICK c \in Launch : /\ reader[c].at = "none"
                              /\ \A l \in Launch : l # c => name'[l] = name[l]
      BY <2>1, BeginFacts DEF StartInv
    <2>3. ASSUME HasReader(n) PROVE HasReader(n)'
      <3>1. PICK l \in Launch : /\ name[l] = n
                                /\ \/ reader[l].at = "spawned"
                                   \/ reader[l] = [at |-> "reading", of |-> targets[n]]
        BY <2>3 DEF HasReader
      <3>2. l # c
        BY <3>1, <2>2
      <3> QED
        BY <2>1, <2>2, <3>1, <3>2 DEF HasReader
    <2> QED
      BY <2>1, <2>3
  <1>5. ASSUME NEW l \in Launch, Register(l)
        PROVE  work'[targets'[n]] = "dead" \/ HasReader(n)'
    <2>1. /\ DOMAIN targets' = DOMAIN targets \cup {name[l]}
          /\ \A m \in DOMAIN targets \ {name[l]} : targets'[m] = targets[m]
      BY <1>5, RegisterFacts
    <2>2. reader'[l].at = "spawned" /\ \A m \in Launch : m # l => reader'[m] = reader[m]
      BY <1>5, RegisterFacts
    <2>3. UNCHANGED <<name, work>>
      BY <1>5 DEF Register
    <2>4. CASE n = name[l]
      BY <2>2, <2>3, <2>4 DEF HasReader
    <2>5. CASE n # name[l]
      <3>1. n \in DOMAIN targets /\ targets'[n] = targets[n]
        BY <2>1, <2>5
      <3>2. HasReader(n) => HasReader(n)'
        BY <2>2, <2>3, <2>5, <3>1 DEF HasReader
      <3> QED
        BY <3>1, <3>2, <2>3, <1>0
    <2> QED
      BY <2>4, <2>5
  <1>6. ASSUME NEW l \in Launch, ReaderLooksUp(l)
        PROVE  UNCHANGED targets /\ (HasReader(n) => HasReader(n)')
    <2>1. /\ UNCHANGED <<targets, name>>
          /\ reader'[l] = [at |-> "reading", of |-> targets[name[l]]]
          /\ \A m \in Launch : m # l => reader'[m] = reader[m]
      BY <1>6 DEF ReaderLooksUp, start, Types, MuxOK
    <2> QED
      BY <2>1 DEF HasReader
  <1>7. ASSUME UNCHANGED <<targets, reader, name>>
        PROVE  UNCHANGED targets /\ (HasReader(n) => HasReader(n)')
    BY <1>7 DEF HasReader
  <1>8. \/ UNCHANGED <<targets, reader, name>>
        \/ \E i \in ID : NewRoot(i) \/ NewJoiner(i) \/ RunJoiner(i)
        \/ \E l \in Launch : Register(l) \/ ReaderLooksUp(l)
    BY DEF Next, Command, StartStep, Announce, InsertCreated, InsertRunning, Reinsert,
           WorkloadExits, ForkWorkload, HandlerStep, ExitEvent, OnUnknownExit, OnContainerExit,
           HandlerWarns, HandlerNet, HandlerReports, LoggerPrints, ExecLock, Detach, CliStep,
           ExecStep, AttachStep, AttachLookup, ExecSnapshot, ExecUnknown, ExecOne, ExecCheck,
           AttachCheck, AttachRefused, AttachSelect, WriteNewline, ForwardLookup, ForwardEnds,
           KillFallback, vars, muxer, start
  <1> QED
    BY <1>3, <1>4, <1>5, <1>6, <1>7, <1>8

-----------------------------------------------------------------------------
(* CliInv: what the command that runs still knows. *)

Looking == {"check", "enter", "attach", "select", "newline"}

LEMMA NotLooking == cli'.at \notin Looking => CliInv'
  BY DEF Looking, CliInv, Seen, Snapshot, LookedUp, Selecting, EntersChecked

(* While a command runs, an entry of a container it knows to be registered *)
(* does not appear, and goes only if it is replaced, or marked and handled *)
(* before.                                                                 *)
LEMMA Background ==
    ASSUME Types, CliInv, UNCHANGED <<cli, name>>, Registered \subseteq Registered',
           crossed \subseteq crossed', marked \subseteq marked', handled \subseteq handled',
           \A n \in ID, l \in cli.seen : Lists(n, l)' => Lists(n, l),
           \A n \in DOMAIN table : table[n].l \in cli.seen =>
                \/ n \in DOMAIN table' /\ table'[n] = table[n]
                \/ table[n].l \in crossed'
                \/ table[n] \in marked' /\ table[n].l \in handled'
    PROVE  CliInv'
  <1>0. Seen /\ Snapshot /\ LookedUp /\ Selecting /\ EntersChecked
    BY DEF CliInv
  <1>1. Seen'
    BY <1>0 DEF Seen
  <1>2. Snapshot'
    <2>1. \A p \in cli.todo : p[1] \in ID
      BY DEF Types, UserOK, CliType
    <2> SUFFICES ASSUME cli.at \in {"check", "enter"}, NEW p \in cli.todo, NEW l \in cli.seen,
                        Lists(p[1], l)', l # p[2]
                 PROVE  {l, p[2]} \cap crossed' # {}
      BY DEF Snapshot
    <2>2. Lists(p[1], l)
      BY <2>1
    <2>3. {l, p[2]} \cap crossed # {}
      BY <1>0, <2>2 DEF Snapshot
    <2> QED
      BY <2>3
  <1>3. LookedUp'
    <2> SUFFICES ASSUME cli.at = "attach" PROVE LookedUp'
      BY DEF LookedUp
    <2>1. PICK o \in Object :
            /\ cli.obj = {o} /\ name[o.l] = cli.id
            /\ o.l \in cli.seen =>
                 \/ o \in marked \/ o.l \in crossed
                 \/ cli.id \in DOMAIN table /\ table[cli.id] = o
      BY <1>0 DEF LookedUp
    <2>2. o.l \in cli.seen =>
                 \/ o \in marked' \/ o.l \in crossed'
                 \/ cli.id \in DOMAIN table' /\ table'[cli.id] = o
      BY <2>1
    <2> QED
      BY <2>1, <2>2 DEF LookedUp
  <1>4. EntersChecked'
    BY <1>0 DEF EntersChecked
  <1>5. Selecting'
    <2> SUFFICES ASSUME cli.at = "select", cli.checked \in cli.seen,
                        cli.checked \notin crossed' \cup handled'
                 PROVE  Lists(cli.id, cli.checked)'
      BY DEF Selecting
    <2>1. cli.id \in DOMAIN table /\ table[cli.id].l = cli.checked
      BY <1>0 DEF Selecting, Lists
    <2>2. cli.id \in DOMAIN table' /\ table'[cli.id] = table[cli.id]
      BY <2>1
    <2> QED
      BY <2>1, <2>2 DEF Lists
  <1> QED
    BY <1>1, <1>2, <1>3, <1>4, <1>5 DEF CliInv

(* A start that inserts before it registers. *)
LEMMA InsertBackground ==
    ASSUME Types, CliInv, NEW l \in Launch, InsertCreated(l) \/ InsertRunning(l)
    PROVE  CliInv'
  <1>1. UNCHANGED <<cli, name, marked, handled>> /\ pc[l] \in {"created", "running"}
    BY DEF InsertCreated, InsertRunning, user, exits
  <1>2. CASE cli.at \notin Looking
    BY <1>1, <1>2, NotLooking
  <1>3. CASE cli.at = "newline"
    <2>1. crossed \subseteq crossed'
      <3>1. \E c : Insert(name[l], c)
        BY DEF InsertCreated, InsertRunning
      <3> QED
        BY <3>1, InsertFacts
    <2> QED
      BY <1>1, <1>3, <2>1 DEF CliInv, Seen, Snapshot, LookedUp, Selecting, EntersChecked
  <1>4. CASE cli.at \in {"check", "enter", "attach", "select"}
    <2>1. l \notin cli.seen
      BY <1>1, <1>4 DEF CliInv, Seen, Registered
    <2>2. PICK g : Insert(name[l], [l |-> l, stage |-> g])
      BY DEF InsertCreated, InsertRunning
    <2> DEFINE c == [l |-> l, stage |-> g]
    <2>3. Insert(name[l], c) /\ c.l = l
      BY <2>2
    <2> HIDE DEF c
    <2>4. /\ DOMAIN table' = DOMAIN table \cup {name[l]} /\ table'[name[l]] = c
          /\ \A j \in DOMAIN table \ {name[l]} : table'[j] = table[j]
      BY <2>3, InsertFacts
    <2>5. crossed \subseteq crossed'
      BY <2>3, InsertFacts
    <2>6. name[l] \in DOMAIN table /\ table[name[l]].l # l => table[name[l]].l \in crossed'
      BY <2>3, InsertFacts
    <2>7. Registered \subseteq Registered'
      <3>1. \A m \in Launch : m # l => pc'[m] = pc[m]
        BY GotoFacts DEF InsertCreated, InsertRunning
      <3> QED
        BY <1>1, <3>1 DEF Registered
    <2>8. \A n \in ID, k \in cli.seen : Lists(n, k)' => Lists(n, k)
      BY <2>1, <2>3, <2>4 DEF Lists
    <2>9. \A n \in DOMAIN table : table[n].l \in cli.seen =>
                \/ n \in DOMAIN table' /\ table'[n] = table[n]
                \/ table[n].l \in crossed'
      BY <2>1, <2>4, <2>6
    <2> QED
      BY <1>1, <2>5, <2>7, <2>8, <2>9, Background
  <1> QED
    BY <1>2, <1>3, <1>4 DEF Looking

(* Steps of the others that insert nothing. *)
LEMMA OthersBackground ==
    ASSUME Types, StartInv, TableInv, CliInv,
           \/ HandlerStep \/ ExitEvent \/ LoggerPrints \/ Detach \/ UNCHANGED vars
           \/ \E l \in Launch : \/ Announce(l) \/ Register(l) \/ ForkWorkload(l)
                                \/ WorkloadExits(l) \/ ReaderLooksUp(l)
    PROVE  CliInv'
  <1>1. ASSUME NEW l \in Launch, Register(l) PROVE CliInv'
    <2>1. UNCHANGED <<cli, name, table, marked, handled>>
      BY <1>1 DEF Register, user, exits
    <2>2. Registered \subseteq Registered' /\ crossed \subseteq crossed'
      BY <1>1, RegisterFacts
    <2> QED
      BY <2>1, <2>2, Background DEF Lists
  <1>2. ASSUME NEW l \in Launch, Announce(l) PROVE CliInv'
    <2>1. UNCHANGED <<cli, name, table, marked, crossed, handled>>
      BY <1>2 DEF Announce, user, tables, exits
    <2>2. Registered \subseteq Registered'
      <3>1. pc[l] = "announce" /\ \A m \in Launch : m # l => pc'[m] = pc[m]
        BY <1>2, GotoFacts DEF Announce
      <3> QED
        BY <3>1 DEF Registered
    <2> QED
      BY <2>1, <2>2, Background DEF Lists
  <1>3. ASSUME HandlerWarns PROVE CliInv'
    <2>1. UNCHANGED <<cli, name, marked, crossed, pc, handled>>
      BY <1>3 DEF HandlerWarns, user, start
    <2>2. /\ DOMAIN table' = DOMAIN table \ {handler.id}
          /\ \A n \in DOMAIN table' : table'[n] = table[n]
      BY <1>3 DEF HandlerWarns, Del
    <2>3. table[handler.id] \in marked /\ table[handler.id].l \in handled
      BY <1>3 DEF HandlerWarns, TableInv, HandlerHas
    <2>4. Registered' = Registered
      BY <2>1 DEF Registered
    <2>5. \A n \in ID, k \in cli.seen : Lists(n, k)' => Lists(n, k)
      BY <2>2 DEF Lists
    <2>6. \A n \in DOMAIN table : table[n].l \in cli.seen =>
                \/ n \in DOMAIN table' /\ table'[n] = table[n]
                \/ table[n] \in marked' /\ table[n].l \in handled'
      BY <2>1, <2>2, <2>3
    <2> QED
      BY <2>1, <2>4, <2>5, <2>6, Background
  <1>4. ASSUME \/ HandlerNet \/ HandlerReports \/ LoggerPrints \/ Detach \/ UNCHANGED vars
               \/ \E l \in Launch : \/ WorkloadExits(l) \/ ForkWorkload(l) \/ ReaderLooksUp(l)
                                    \/ OnUnknownExit(l) \/ OnContainerExit(l)
        PROVE  CliInv'
    <2>1. /\ UNCHANGED <<cli, name, table, crossed, pc>>
          /\ marked \subseteq marked' /\ handled \subseteq handled'
      BY <1>4 DEF HandlerNet, HandlerReports, LoggerPrints, Detach, WorkloadExits, ForkWorkload,
                  ReaderLooksUp, OnUnknownExit, OnContainerExit, vars, tables, user, start, exits
    <2>2. Registered' = Registered
      BY <2>1 DEF Registered
    <2> QED
      BY <2>1, <2>2, Background DEF Lists
  <1> QED
    BY <1>1, <1>2, <1>3, <1>4 DEF HandlerStep, ExitEvent

(* The command's own steps. *)
LEMMA ExecNextKeeps ==
    ASSUME cli \in CliType, cli.at \in {"check", "enter"}, Seen, Snapshot, NEW p,
           cli'.at = ExecNext(p).at, cli'.todo = ExecNext(p).todo, cli'.seen = ExecNext(p).seen,
           UNCHANGED <<table, crossed, pc>>
    PROVE  CliInv'
  <1>1. CASE cli.todo = {p}
    BY <1>1, IdleType, NotLooking DEF ExecNext, Looking
  <1>2. CASE cli.todo # {p}
    <2>1. ExecNext(p).at = "check"
      BY <1>2 DEF ExecNext, CliType
    <2>2. ExecNext(p).todo = cli.todo \ {p}
      BY <1>2 DEF ExecNext, CliType
    <2>3. ExecNext(p).seen = cli.seen
      BY <1>2 DEF ExecNext, CliType
    <2>4. Seen'
      BY <2>3 DEF Seen, Registered
    <2>5. Snapshot'
      BY <2>2, <2>3 DEF Snapshot, Lists
    <2>6. LookedUp' /\ Selecting' /\ EntersChecked'
      BY <2>1 DEF LookedUp, Selecting, EntersChecked
    <2> QED
      BY <2>4, <2>5, <2>6 DEF CliInv
  <1> QED
    BY <1>1, <1>2

LEMMA ExecCli ==
    ASSUME Types, TableInv, CliInv, ExecStep \/ ExecOne
    PROVE  CliInv'
  <1>0. cli \in CliType /\ Superseded /\ Seen /\ Snapshot
    BY DEF Types, UserOK, TableInv, CliInv
  <1>1. ASSUME NEW S \in SUBSET ID, ExecSnapshot(S) PROVE CliInv'
    <2>1. CASE S = {}
      BY <1>1, <2>1, IdleType, NotLooking DEF ExecSnapshot, Looking
    <2>2. CASE S # {}
      <3>1. S \subseteq DOMAIN targets
        BY <1>1 DEF ExecSnapshot, Selections
      <3>2. /\ cli'.at = "check" /\ cli'.todo = {<<n, targets[n]>> : n \in S}
            /\ cli'.seen = Registered
        BY <1>0, <1>1, <2>2 DEF ExecSnapshot, CliType
      <3>3. UNCHANGED <<table, crossed, targets, pc>>
        BY <1>1 DEF ExecSnapshot, tables, start
      <3>4. Seen'
        BY <3>2, <3>3 DEF Seen, Registered
      <3>5. \A p \in cli'.todo : p[1] \in DOMAIN targets /\ p[2] = targets[p[1]]
        BY <3>1, <3>2
      <3>6. Snapshot'
        BY <1>0, <3>2, <3>3, <3>5 DEF Snapshot, Superseded, Lists
      <3>7. LookedUp' /\ Selecting' /\ EntersChecked'
        BY <3>2 DEF LookedUp, Selecting, EntersChecked
      <3> QED
        BY <3>4, <3>6, <3>7 DEF CliInv
    <2> QED
      BY <2>1, <2>2
  <1>2. ASSUME ExecUnknown PROVE CliInv'
    BY <1>2, IdleType, NotLooking DEF ExecUnknown, Looking
  <1>3. ASSUME ExecOne PROVE CliInv'
    <2>1. UNCHANGED <<table, crossed, pc>> /\ cli.at = "enter"
      BY <1>3 DEF ExecOne, tables, start
    <2> DEFINE p == <<cli.id, cli.target>>
    <2>2. ExecNext(p) \in CliType
      BY <1>0, ExecNextType
    <2>3. cli' = [ExecNext(p) EXCEPT !.id = None]
      BY <1>3 DEF ExecOne
    <2> HIDE DEF p
    <2>4. /\ cli'.at = ExecNext(p).at /\ cli'.todo = ExecNext(p).todo
          /\ cli'.seen = ExecNext(p).seen
      BY <2>2, <2>3 DEF CliType
    <2> QED
      BY <1>0, <2>1, <2>4, ExecNextKeeps
  <1>4. ASSUME NEW p \in cli.todo, ExecCheck(p) PROVE CliInv'
    <2>1. UNCHANGED <<table, crossed, pc>> /\ cli.at = "check"
      BY <1>4 DEF ExecCheck, start
    <2>2. CASE cli' = ExecNext(p)
      BY <1>0, <2>1, <2>2, ExecNextKeeps
    <2>3. CASE cli' # ExecNext(p)
      <3>1. /\ p[1] \in DOMAIN table
            /\ cli' = [cli EXCEPT !.at = "enter", !.id = p[1], !.target = p[2],
                                  !.checked = table[p[1]].l]
        BY <1>4, <2>3 DEF ExecCheck
      <3>2. /\ cli'.at = "enter" /\ cli'.target = p[2] /\ cli'.checked = table[p[1]].l
            /\ cli'.seen = cli.seen /\ cli'.todo = cli.todo
        BY <1>0, <3>1 DEF CliType
      <3>3. Seen'
        BY <1>0, <2>1, <3>2 DEF Seen, Registered
      <3>4. Snapshot'
        BY <1>0, <2>1, <3>2 DEF Snapshot, Lists
      <3>5. table[p[1]].l \in cli.seen /\ table[p[1]].l # p[2] =>
               {table[p[1]].l, p[2]} \cap crossed # {}
        BY <1>0, <2>1, <3>1 DEF Snapshot, Lists
      <3>6. EntersChecked'
        BY <2>1, <3>2, <3>5 DEF EntersChecked
      <3>7. LookedUp' /\ Selecting'
        BY <3>2 DEF LookedUp, Selecting
      <3> QED
        BY <3>3, <3>4, <3>6, <3>7 DEF CliInv
    <2> QED
      BY <2>2, <2>3
  <1> QED
    BY <1>1, <1>2, <1>3, <1>4 DEF ExecStep

LEMMA AttachCli ==
    ASSUME Types, StartInv, TableInv, CliInv,
           AttachStep \/ \E n \in ID : AttachLookup(n)
    PROVE  CliInv'
  <1>0. cli \in CliType /\ Superseded /\ Seen /\ LookedUp /\ Selecting /\ Named
    BY DEF Types, UserOK, TableInv, CliInv, StartInv
  <1>1. ASSUME NEW n \in ID, AttachLookup(n) PROVE CliInv'
    <2>1. UNCHANGED <<table, marked, crossed, pc, name>> /\ n \in DOMAIN table
      BY <1>1 DEF AttachLookup, tables, start
    <2>2. /\ cli'.at = "attach" /\ cli'.id = n /\ cli'.obj = {table[n]}
          /\ cli'.seen = Registered
      <3> DEFINE r == Registered
      <3>1. cli' = [cli EXCEPT !.at = "attach", !.id = n, !.obj = {table[n]}, !.seen = r]
        BY <1>1 DEF AttachLookup
      <3> HIDE DEF r
      <3>2. cli'.at = "attach" /\ cli'.id = n /\ cli'.obj = {table[n]} /\ cli'.seen = r
        BY <1>0, <3>1 DEF CliType
      <3> QED
        BY <3>2 DEF r
    <2>3. Seen'
      BY <2>1, <2>2 DEF Seen, Registered
    <2>4. table[n] \in Object /\ name[table[n].l] = n
      BY <1>0, <2>1 DEF Types, TablesOK, Named
    <2>5. LookedUp'
      BY <2>1, <2>2, <2>4 DEF LookedUp
    <2>6. Snapshot' /\ Selecting' /\ EntersChecked'
      BY <2>2 DEF Snapshot, Selecting, EntersChecked
    <2> QED
      BY <2>3, <2>5, <2>6 DEF CliInv
  <1>2. ASSUME AttachRefused \/ WriteNewline PROVE CliInv'
    BY <1>2, IdleType, NotLooking DEF AttachRefused, WriteNewline, Looking
  <1>3. ASSUME AttachCheck PROVE CliInv'
    <2>1. CASE cli.obj \subseteq marked
      BY <1>3, <2>1, IdleType, NotLooking DEF AttachCheck, Looking
    <2>2. CASE ~(cli.obj \subseteq marked)
      <3>1. UNCHANGED <<table, crossed, handled, pc>> /\ cli.at = "attach"
        BY <1>3 DEF AttachCheck, tables, start, exits
      <3>2. PICK o \in Object :
            /\ cli.obj = {o} /\ name[o.l] = cli.id
            /\ o.l \in cli.seen =>
                 \/ o \in marked \/ o.l \in crossed
                 \/ cli.id \in DOMAIN table /\ table[cli.id] = o
        BY <1>0, <3>1 DEF LookedUp
      <3>3. (CHOOSE x \in cli.obj : TRUE) = o
        BY <3>2
      <3>4. /\ cli'.at = "select" /\ cli'.id = cli.id /\ cli'.checked = o.l
            /\ cli'.seen = cli.seen
        BY <1>0, <1>3, <2>2, <3>3 DEF AttachCheck, CliType
      <3>5. o.l \in cli.seen => o.l \in crossed \/ Lists(cli.id, o.l)
        BY <2>2, <3>2 DEF Lists
      <3>6. Selecting'
        BY <3>1, <3>4, <3>5 DEF Selecting, Lists
      <3>7. Seen'
        BY <1>0, <3>1, <3>4 DEF Seen, Registered
      <3> QED
        BY <3>4, <3>6, <3>7 DEF CliInv, Snapshot, LookedUp, EntersChecked
    <2> QED
      BY <2>1, <2>2
  <1>4. ASSUME AttachSelect PROVE CliInv'
    <2>1. /\ UNCHANGED <<crossed, handled>> /\ cli.at = "select"
          /\ cli.id \in DOMAIN targets
      BY <1>4 DEF AttachSelect, tables, exits
    <2>2. /\ cli'.at = "newline" /\ cli'.target = targets[cli.id]
          /\ cli'.checked = cli.checked /\ cli'.seen = cli.seen
      BY <1>0, <1>4 DEF AttachSelect, CliType
    <2>3. ASSUME cli.checked \in cli.seen, cli.checked # targets[cli.id]
          PROVE  {cli.checked, targets[cli.id]} \cap crossed # {} \/ cli.checked \in handled
      <3>1. cli.checked \in Registered
        BY <1>0, <2>1, <2>3 DEF Seen
      <3>2. cli.checked \in crossed \cup handled \/ Lists(cli.id, cli.checked)
        BY <1>0, <2>1, <2>3 DEF Selecting
      <3> QED
        BY <1>0, <2>1, <2>3, <3>1, <3>2 DEF Superseded
    <2>4. EntersChecked'
      BY <2>1, <2>2, <2>3 DEF EntersChecked
    <2> QED
      BY <2>2, <2>4 DEF CliInv, Seen, Snapshot, LookedUp, Selecting
  <1> QED
    BY <1>1, <1>2, <1>3, <1>4 DEF AttachStep

LEMMA CliInvStep == Types /\ StartInv /\ TableInv /\ CliInv /\ [Next]_vars => CliInv'
  <1> SUFFICES ASSUME Types, StartInv, TableInv, CliInv, [Next]_vars PROVE CliInv'
    OBVIOUS
  <1>1. ASSUME NEW n \in ID, NewRoot(n) \/ NewJoiner(n) \/ RunJoiner(n) PROVE CliInv'
    <2>1. cli'.at \in {"idle", "start"}
      BY <1>1 DEF NewRoot, NewJoiner, RunJoiner, AtPrompt, Types, UserOK, CliType
    <2> QED
      BY <2>1, NotLooking DEF Looking
  <1>2. ASSUME \/ ExecLock \/ ForwardEnds
               \/ \E n \in ID : ForwardLookup(n) \/ KillFallback(n)
        PROVE  CliInv'
    <2>1. cli'.at \in {"snapshot", "idle", "forward"}
      BY <1>2, IdleType
      DEF ExecLock, ForwardEnds, ForwardLookup, KillFallback, Typing, AtPrompt, Types, UserOK,
          CliType
    <2> QED
      BY <2>1, NotLooking DEF Looking
  <1>3. ASSUME NEW l \in Launch, Reinsert(l) PROVE CliInv'
    BY <1>3, IdleType, NotLooking DEF Reinsert, Looking
  <1> QED
    BY <1>1, <1>2, <1>3, InsertBackground, OthersBackground, ExecCli, AttachCli
    DEF Next, Command, CliStep, StartStep

-----------------------------------------------------------------------------
(* The theorems. *)

LEMMA InitInv == Init => Inv
  <1> SUFFICES ASSUME Init PROVE Inv
    OBVIOUS
  <1>0. DOMAIN table = {} /\ DOMAIN targets = {} /\ cli.at = "idle" /\ marked = {}
    BY IdleType DEF Init
  <1>1. \A l \in Launch : /\ pc[l] = "none" /\ work[l] = "none" /\ reader[l].at = "none"
                          /\ kind[l] = "none"
    BY DEF Init
  <1>2. Registered = {}
    BY <1>1 DEF Registered
  <1>3. StartInv
    BY <1>0, <1>1, <1>2 DEF StartInv, Started, OneRoot, RootStarts, Named
  <1>4. handler.at = "idle"
    BY DEF Init, HandlerIdle
  <1>5. TableInv
    BY <1>0, <1>1, <1>4 DEF TableInv, HandlerHas, Kept, Superseded
  <1>6. CliInv
    BY <1>0 DEF CliInv, Seen, Snapshot, LookedUp, Selecting, EntersChecked
  <1>7. CurrentHasReader
    BY <1>0 DEF CurrentHasReader
  <1> QED
    BY <1>3, <1>5, <1>6, <1>7, InitTypes DEF Inv

\* Every step of the console, the starts, the exit handler and the logger keeps
\* the types, the naming of both maps, what became of each entry, and what the
\* running command knows.
THEOREM ConsoleInvariant == Spec => []Inv
  <1>1. Inv /\ [Next]_vars => Inv'
    BY TypesStep, StartInvStep, TableInvStep, CliInvStep, ReaderStep DEF Inv
  <1> QED
    BY <1>1, InitInv, PTL DEF Spec

\* Every variable keeps its type and the log channel never holds more than its
\* capacity, however the exit handler and the starts send to it.
THEOREM ConsoleTypeCorrect == Spec => []TypeOK
  <1>1. Inv => TypeOK
    BY DEF Inv, Types, TablesOK, MuxOK, ExitsOK, LogsOK, HandlerAt, TypeOK
  <1> QED
    BY <1>1, ConsoleInvariant, PTL

\* attach and :exec use the container whose entry they looked at, unless it was
\* not registered yet or one of the two took the other's name or came late, or
\* unless its exit was handled between attach's look at its State and the
\* selection under m.mu (commands.go 514 to 548, 588 to 614).
THEOREM CommandsEnterChecked == Spec => []EntersChecked
  <1>1. Inv => EntersChecked
    BY DEF Inv, CliInv
  <1> QED
    BY <1>1, ConsoleInvariant, PTL

\* The terminal of a registered container that lives is read, or a reader that
\* will find it by its name is on its way (multiplexer.go 55 to 89).
THEOREM TerminalsRead == Spec => []CurrentHasReader
  <1>1. Inv => CurrentHasReader
    BY DEF Inv
  <1> QED
    BY <1>1, ConsoleInvariant, PTL

=============================================================================

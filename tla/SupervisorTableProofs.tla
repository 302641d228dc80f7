----------------------- MODULE SupervisorTableProofs -----------------------
(***************************************************************************)
(* Proofs about what the supervisor's tables account for: the namespace    *)
(* descriptors of roots (LeakedOnlyIfShared) and their networks            *)
(* (NetworkAccountedFor, PodNetPending), for every bound; and which pod a  *)
(* joiner enters when letters are used again (JoinsOwnPod, at the end).    *)
(*                                                                         *)
(* They rest on who may write a root's place in the table.  A root is      *)
(* started by the CLI itself, so at most one is being started at a time,   *)
(* and from then on the place <<pod, 1>> holds that root, a joiner that    *)
(* took its name, or nothing: never another root.  An earlier root of the  *)
(* same letter can therefore lose its descriptors or its network only by   *)
(* being overwritten (clobbered) or through the exit handler, which saves  *)
(* or releases them.                                                       *)
(***************************************************************************)
EXTENDS SupervisorProofs

(* A root that StartCreator has not finished with. *)
Starts(l) == IsCreator(l) /\ pc[l] \notin {"none", "done", "failed"}

(* The launch's own entry is in the table. *)
Holds(l) == id[l] \in DOMAIN containers /\ containers[id[l]].l = l

(* A joiner has taken the descriptors of l. *)
Taken(l) == \E m \in Launch : grab[m] = l

Inserted == {"recv"} \cup Registered
Early == {"fork", "userns", "created"}
NetworkPC == {"insert", "ipc", "free", "reinsert", "done"}

RootNamed == \A l \in Launch : IsCreator(l) => id[l] = RootID(id[l][1])

OneCreator ==
    \A l \in Launch : Starts(l) =>
        cli.op = "start" /\ \A m \in Launch : Starts(m) => m = l

EntryOwner ==
    \A i \in DOMAIN containers : containers[i].l # 0 =>
        id[containers[i].l] = i /\ pc[containers[i].l] \in Inserted

(* A root that is being started finds no other root in its place: not at   *)
(* all when its letter is a free one, once it has put itself there when    *)
(* all letters were in use.                                                *)
SlotOwned ==
    \A l, m \in Launch :
        /\ Starts(l) /\ (IsPod(id[l]) \/ pc[l] \notin Early)
        /\ IsCreator(m) /\ Holds(m) /\ id[m] = id[l]
        => m = l

ControlInv == RootNamed /\ OneCreator /\ EntryOwner /\ SlotOwned

Ungrabbed ==
    \A l \in Launch : pc[l] \in {"none", "nilroot", "fork", "sendns"} => grab[l] = 0

(* Every reference beyond the first was counted for a joiner. *)
Shared ==
    \A i \in DOMAIN handles :
        handles[i].owner # 0 /\ handles[i].ref # 1 => Taken(handles[i].owner)

OpenListed ==
    \A l \in Launch : nsFd[l] = "open" /\ l \notin clobbered /\ ~Taken(l) =>
        /\ id[l] \in DOMAIN handles /\ handles[id[l]].owner = l
        /\ Starts(l) \/ Holds(l)

ShareInv == Ungrabbed /\ Shared /\ OpenListed

(* Only roots come to NetworkConfig, and they keep what it set up. *)
Networked ==
    \A l \in Launch :
        /\ pc[l] = "net" => IsCreator(l)
        /\ net[l] # "none" => IsCreator(l) /\ pc[l] \in NetworkPC

PodNetOwner ==
    \A p \in Pod : podNet[p] # 0 => p # 0 /\ id[podNet[p]] = RootID(p)

(* The network kept for a pod is that of the root the pod has, if any. *)
PodNetCurrent ==
    \A p \in Pod : podNet[p] # 0 =>
        \A m \in Launch :
            IsCreator(m) /\ id[m] = RootID(p) /\ (Starts(m) \/ Holds(m)) =>
                m = podNet[p]

NetInv ==
    /\ Networked /\ PodNetOwner /\ PodNetCurrent
    /\ PodNetPending /\ NetworkAccountedFor

Inv == TypeOK /\ RefInv /\ ControlInv /\ ShareInv /\ NetInv

-----------------------------------------------------------------------------
(* Facts about the operators. *)

LEMMA RootIDPart == ASSUME NEW p PROVE RootID(p)[1] = p
  BY DEF RootID

LEMMA LaunchPositive == 0 \notin Launch
  BY DEF Launch

(* What Insert does to the table; whoever is overwritten is clobbered. *)
LEMMA InsertFacts ==
    ASSUME NEW i, NEW e, Insert(i, e)
    PROVE  /\ DOMAIN containers' = DOMAIN containers \cup {i}
           /\ containers'[i] = e
           /\ \A j \in DOMAIN containers \ {i} : containers'[j] = containers[j]
           /\ clobbered \subseteq clobbered'
           /\ i \in DOMAIN containers /\ containers[i].l \notin {0, e.l} =>
                 containers[i].l \in clobbered'
  BY DEF Insert, Put

LEMMA DelFacts ==
    ASSUME NEW m, NEW i
    PROVE  /\ DOMAIN Del(m, i) = DOMAIN m \ {i}
           /\ \A j \in DOMAIN m \ {i} : Del(m, i)[j] = m[j]
  BY DEF Del

LEMMA InitTable == Init => ControlInv /\ ShareInv /\ NetInv
  <1> SUFFICES ASSUME Init PROVE ControlInv /\ ShareInv /\ NetInv
    OBVIOUS
  <1>1. DOMAIN containers = {} /\ DOMAIN handles = {}
    BY DEF Init
  <1>2. \A l \in Launch : ~IsCreator(l) /\ pc[l] = "none" /\ net[l] = "none"
                          /\ nsFd[l] = "none" /\ grab[l] = 0
    BY DEF Init, IsCreator, Creators
  <1>3. \A p \in Pod : podNet[p] = 0
    BY DEF Init
  <1>4. ControlInv
    BY <1>1, <1>2 DEF ControlInv, RootNamed, OneCreator, EntryOwner, SlotOwned, Starts
  <1>5. ShareInv
    BY <1>1, <1>2 DEF ShareInv, Ungrabbed, Shared, OpenListed
  <1>6. NetInv
    BY <1>2, <1>3 DEF NetInv, Networked, PodNetOwner, PodNetCurrent, PodNetPending,
                      NetworkAccountedFor
  <1> QED
    BY <1>4, <1>5, <1>6

-----------------------------------------------------------------------------
(* Steps that start no launch and touch no table. *)

tableVars == <<containers, handles, podNet, clobbered, pc, kind, id, grab, nsFd, net>>

LEMMA TableFrame ==
    ASSUME Inv, UNCHANGED tableVars, cli.op = "start" => UNCHANGED cli
    PROVE  ControlInv' /\ ShareInv' /\ NetInv'
  <1> USE DEF tableVars, Starts, Holds, Taken, IsCreator
  <1>1. ControlInv'
    BY DEF Inv, ControlInv, RootNamed, OneCreator, EntryOwner, SlotOwned
  <1>2. ShareInv'
    BY DEF Inv, ShareInv, Ungrabbed, Shared, OpenListed
  <1>3. NetInv'
    BY DEF Inv, NetInv, Networked, PodNetOwner, PodNetCurrent, PodNetPending,
           NetworkAccountedFor, Members
  <1> QED
    BY <1>1, <1>2, <1>3

-----------------------------------------------------------------------------
(* New launches. *)

(* Nothing refers to a launch before it is started. *)
LEMMA NextUnused ==
    ASSUME Inv, next \in Launch
    PROVE  /\ pc[next] = "none" /\ nsFd[next] = "none" /\ net[next] = "none"
           /\ grab[next] = 0 /\ ~Taken(next)
           /\ \A i \in DOMAIN containers : containers[i].l # next
           /\ \A p \in Pod : podNet[p] # next
  <1> USE LaunchPositive DEF Inv, TypeOK, UserOK, TablesOK, StartOK, ResourcesOK
  <1>1. pc[next] = "none"
    BY DEF RefInv, Fresh
  <1>2. nsFd[next] = "none" /\ net[next] = "none" /\ grab[next] = 0
    BY <1>1
    DEF RefInv, DescriptorOwner, Registered, NetInv, Networked, NetworkPC, ShareInv,
        Ungrabbed
  <1>3. ~Taken(next)
    BY <1>2 DEF RefInv, TakenStaysOpen, Taken
  <1>4. \A i \in DOMAIN containers : containers[i].l # next
    BY <1>1 DEF ControlInv, EntryOwner, Inserted, Registered
  <1>5. \A p \in Pod : podNet[p] # next
    BY <1>2 DEF NetInv, PodNetPending
  <1> QED
    BY <1>1, <1>2, <1>3, <1>4, <1>5

(* What a step may do to the table when it only adds a placeholder. *)
Placed ==
    /\ DOMAIN containers \subseteq DOMAIN containers' /\ clobbered \subseteq clobbered'
    /\ \A j \in DOMAIN containers' : containers'[j].l # 0 =>
          j \in DOMAIN containers /\ containers'[j] = containers[j]
    /\ \A j \in DOMAIN containers :
          containers'[j] = containers[j] \/ containers[j].l \in {0} \cup clobbered'

LEMMA PlaceholderPlaced == ASSUME NEW i, Insert(i, Placeholder) PROVE Placed
  <1>1. Placeholder.l = 0
    BY DEF Placeholder
  <1> QED
    BY <1>1, InsertFacts DEF Placed

LEMMA SpawnJoiner ==
    ASSUME Inv, next \in Launch, NEW k \in Joiners, NEW i, NEW at \in {"fork", "nilroot"},
           Spawn(k, i, at), Placed, cli.op # "start",
           UNCHANGED <<handles, podNet, grab, nsFd, net>>
    PROVE  ControlInv' /\ ShareInv' /\ NetInv'
  <1> USE LaunchPositive DEF Starts, Holds, Taken, IsCreator
  <1>1. /\ pc' = [pc EXCEPT ![next] = at] /\ kind' = [kind EXCEPT ![next] = k]
        /\ id' = [id EXCEPT ![next] = i] /\ k \notin Creators
    BY DEF Spawn, Joiners, Creators
  <1>2. \A l \in Launch \ {next} : pc'[l] = pc[l] /\ kind'[l] = kind[l] /\ id'[l] = id[l]
    BY <1>1 DEF Inv, TypeOK, StartOK
  <1>3. pc'[next] = at /\ kind'[next] \notin Creators
    BY <1>1 DEF Inv, TypeOK, StartOK
  <1>4. \A l \in Launch : IsCreator(l)' => l # next /\ IsCreator(l)
    BY <1>2, <1>3
  <1>5. \A l \in Launch \ {next} : (Holds(l)' => Holds(l)) /\ (Holds(l) /\ l \notin clobbered' => Holds(l)')
    BY <1>2 DEF Placed
  <1>6. ControlInv'
    <2>1. RootNamed'
      BY <1>2, <1>4 DEF Inv, ControlInv, RootNamed
    <2>2. OneCreator'
      BY <1>2, <1>4 DEF Inv, ControlInv, OneCreator
    <2>3. EntryOwner'
      <3> SUFFICES ASSUME NEW j \in DOMAIN containers', containers'[j].l # 0
                   PROVE  id'[containers'[j].l] = j /\ pc'[containers'[j].l] \in Inserted
        BY DEF EntryOwner
      <3>1. j \in DOMAIN containers /\ containers'[j] = containers[j]
        BY DEF Placed
      <3>2. containers[j].l \in Launch \ {next}
        BY <3>1, NextUnused DEF Inv, TypeOK, TablesOK, Entry, Launch
      <3> QED
        BY <1>2, <3>1, <3>2 DEF Inv, ControlInv, EntryOwner
    <2>4. SlotOwned'
      BY <1>2, <1>4, <1>5 DEF Inv, ControlInv, SlotOwned
    <2> QED
      BY <2>1, <2>2, <2>3, <2>4 DEF ControlInv
  <1>7. ShareInv'
    <2>1. Ungrabbed'
      BY <1>2, NextUnused DEF Inv, ShareInv, Ungrabbed
    <2>2. Shared'
      BY DEF Inv, ShareInv, Shared
    <2>3. OpenListed'
      <3> SUFFICES ASSUME NEW l \in Launch, nsFd[l] = "open", l \notin clobbered', ~Taken(l)
                   PROVE  /\ id'[l] \in DOMAIN handles /\ handles[id'[l]].owner = l
                          /\ Starts(l)' \/ Holds(l)'
        BY DEF OpenListed
      <3>1. l # next /\ l \notin clobbered
        BY NextUnused DEF Placed
      <3> QED
        BY <1>2, <1>5, <3>1 DEF Inv, ShareInv, OpenListed
    <2> QED
      BY <2>1, <2>2, <2>3 DEF ShareInv
  <1>8. NetInv'
    <2>1. \A p \in Pod : podNet[p] # 0 => podNet[p] \in Launch \ {next}
      BY NextUnused DEF Inv, TypeOK, TablesOK, Launch
    <2>2. Networked'
      BY <1>2, <1>3, NextUnused DEF Inv, NetInv, Networked, NetworkPC
    <2>3. PodNetOwner'
      BY <1>2, <2>1 DEF Inv, NetInv, PodNetOwner
    <2>4. PodNetCurrent'
      BY <1>2, <1>4, <1>5 DEF Inv, NetInv, PodNetCurrent
    <2>5. PodNetPending'
      BY DEF Inv, NetInv, PodNetPending, Members, Placed
    <2>6. NetworkAccountedFor'
      <3> SUFFICES ASSUME NEW l \in Launch, net[l] = "up", IsPod(id'[l]), l \notin clobbered'
                   PROVE  \/ pc'[l] = "insert"
                          \/ /\ id'[l] \in DOMAIN containers'
                             /\ containers'[id'[l]] = [l |-> l, stage |-> "running"]
                          \/ podNet[id'[l][1]] = l
        BY DEF NetworkAccountedFor
      <3>1. l # next /\ l \notin clobbered
        BY NextUnused DEF Placed
      <3>2. id'[l] = id[l] /\ pc'[l] = pc[l]
        BY <1>2, <3>1
      <3> QED
        BY <3>1, <3>2 DEF Inv, NetInv, NetworkAccountedFor, Placed
    <2> QED
      BY <2>2, <2>3, <2>4, <2>5, <2>6 DEF NetInv
  <1> QED
    BY <1>6, <1>7, <1>8

(* A root's letter is free, or it is the empty one. *)
LEMMA SpawnCreator ==
    ASSUME Inv, next \in Launch, NEW c, NEW k \in Creators, NewPod(c, k)
    PROVE  ControlInv' /\ ShareInv' /\ NetInv'
  <1> USE LaunchPositive DEF Starts, Holds, Taken, IsCreator
  <1>1. PICK p \in Pod : IsNextLetter(p) /\ Spawn(k, RootID(p), "fork")
    BY DEF NewPod
  <1>2. /\ cli.op = "idle" /\ cli'.op = "start"
        /\ UNCHANGED <<containers, handles, podNet, clobbered, grab, nsFd, net>>
    <2>1. cli' = [cli EXCEPT !.op = "start"] /\ cli \in CliType
      BY DEF NewPod, Inv, TypeOK, UserOK
    <2>2. cli'.op = "start"
      BY <2>1 DEF CliType
    <2> QED
      BY <2>2 DEF NewPod, Doing, table, res
  <1>3. \A l \in Launch \ {next} : pc'[l] = pc[l] /\ kind'[l] = kind[l] /\ id'[l] = id[l]
    BY <1>1 DEF Spawn, Inv, TypeOK, StartOK
  <1>4. pc'[next] = "fork" /\ kind'[next] = k /\ id'[next] = RootID(p)
    BY <1>1 DEF Spawn, Inv, TypeOK, StartOK
  <1>5. \A l \in Launch : ~Starts(l)
    BY <1>2 DEF Inv, ControlInv, OneCreator
  <1>6. \A l \in Launch : Starts(l)' => l = next
    BY <1>3, <1>5
  <1>7. \A l \in Launch : Holds(l)' => l # next /\ Holds(l)
    BY <1>2, <1>3, NextUnused
  <1>8. RootID(p)[1] = p /\ (p # 0 => Members(containers, p) = {} /\ podNet[p] = 0)
    BY <1>1, RootIDPart DEF IsNextLetter, Inv, NetInv, PodNetPending
  <1>9. podNet[0] = 0
    BY BoundsAssumption DEF Inv, NetInv, PodNetOwner, Pod
  <1>10. ControlInv'
    <2>1. RootNamed'
      BY <1>3, <1>4, <1>8 DEF Inv, ControlInv, RootNamed
    <2>2. OneCreator'
      BY <1>2, <1>6 DEF OneCreator
    <2>3. EntryOwner'
      <3> SUFFICES ASSUME NEW j \in DOMAIN containers, containers[j].l # 0
                   PROVE  id'[containers[j].l] = j /\ pc'[containers[j].l] \in Inserted
        BY <1>2 DEF EntryOwner
      <3>1. containers[j].l \in Launch \ {next}
        BY NextUnused DEF Inv, TypeOK, TablesOK, Entry, Launch
      <3> QED
        BY <1>3, <3>1 DEF Inv, ControlInv, EntryOwner
    <2>4. SlotOwned'
      <3> SUFFICES ASSUME NEW m \in Launch, IsPod(id'[next]), Holds(m)', id'[m] = id'[next]
                   PROVE  FALSE
        BY <1>4, <1>6 DEF SlotOwned, Early
      <3>1. id'[m] \in Members(containers, p)
        BY <1>2, <1>4, <1>8 DEF Members
      <3> QED
        BY <1>4, <1>8, <3>1 DEF IsPod
    <2> QED
      BY <2>1, <2>2, <2>3, <2>4 DEF ControlInv
  <1>11. ShareInv'
    <2>1. Ungrabbed'
      BY <1>2, <1>3, NextUnused DEF Inv, ShareInv, Ungrabbed
    <2>2. Shared'
      BY <1>2 DEF Inv, ShareInv, Shared
    <2>3. OpenListed'
      BY <1>2, <1>3, <1>5, NextUnused DEF Inv, ShareInv, OpenListed
    <2> QED
      BY <2>1, <2>2, <2>3 DEF ShareInv
  <1>12. NetInv'
    <2>1. \A q \in Pod : podNet[q] # 0 => podNet[q] \in Launch \ {next}
      BY NextUnused DEF Inv, TypeOK, TablesOK, Launch
    <2>2. Networked'
      BY <1>2, <1>3, <1>4, NextUnused DEF Inv, NetInv, Networked, NetworkPC
    <2>3. PodNetOwner'
      BY <1>2, <1>3, <2>1 DEF Inv, NetInv, PodNetOwner
    <2>4. PodNetCurrent'
      <3> SUFFICES ASSUME NEW q \in Pod, podNet[q] # 0, NEW m \in Launch, IsCreator(m)',
                          id'[m] = RootID(q), Starts(m)' \/ Holds(m)'
                   PROVE  m = podNet[q]
        BY <1>2 DEF PodNetCurrent
      <3>1. CASE m = next
        BY <3>1, <1>4, <1>8, <1>9, RootIDPart
      <3>2. CASE m # next
        BY <3>2, <1>3, <1>6, <1>7 DEF Inv, NetInv, PodNetCurrent
      <3> QED
        BY <3>1, <3>2
    <2>5. PodNetPending'
      BY <1>2 DEF Inv, NetInv, PodNetPending, Members
    <2>6. NetworkAccountedFor'
      BY <1>2, <1>3, NextUnused DEF Inv, NetInv, NetworkAccountedFor
    <2> QED
      BY <2>2, <2>3, <2>4, <2>5, <2>6 DEF NetInv
  <1> QED
    BY <1>10, <1>11, <1>12

-----------------------------------------------------------------------------
(* A launch that is under way goes on. *)

(* The moves that leave the container table alone. *)
Moves(l, q) ==
    /\ Goto(l, q) /\ UNCHANGED <<kind, id, containers, clobbered>>
    /\ pc[l] \notin {"none", "done", "failed"}
    /\ q \notin {"none", "nilroot", "fork"} /\ (IsCreator(l) => q # "done")
    /\ cli' = cli \/ (IsCreator(l) /\ q = "failed")
    /\ pc[l] \in Inserted => q \in Inserted
    /\ pc[l] \in Early /\ IsCreator(l) => q \in Early \cup {"failed"}

LEMMA MoveFacts ==
    ASSUME Inv, NEW l \in Launch, NEW q, Moves(l, q)
    PROVE  /\ pc'[l] = q /\ \A m \in Launch \ {l} : pc'[m] = pc[m]
           /\ \A m \in Launch : /\ Starts(m)' => Starts(m)
                                /\ Holds(m)' <=> Holds(m)
                                /\ IsCreator(m)' <=> IsCreator(m)
  <1>1. pc'[l] = q /\ \A m \in Launch \ {l} : pc'[m] = pc[m]
    BY DEF Moves, Goto, Inv, TypeOK, StartOK
  <1>2. UNCHANGED <<kind, id, containers>> /\ pc[l] \notin {"none", "done", "failed"}
    BY DEF Moves
  <1> QED
    BY <1>1, <1>2 DEF Starts, Holds, IsCreator

LEMMA MoveControl ==
    ASSUME Inv, NEW l \in Launch, NEW q, Moves(l, q)
    PROVE  ControlInv'
  <1> USE MoveFacts DEF Moves
  <1>1. RootNamed'
    BY DEF Inv, ControlInv, RootNamed
  <1>2. OneCreator'
    <2>1. CASE cli' = cli
      BY <2>1 DEF Inv, ControlInv, OneCreator
    <2>2. CASE IsCreator(l) /\ q = "failed"
      <3>1. \A m \in Launch : Starts(m) => m = l
        BY <2>2 DEF Inv, ControlInv, OneCreator, Starts
      <3>2. \A m \in Launch : ~Starts(m)'
        BY <2>2, <3>1 DEF Starts
      <3> QED
        BY <3>2 DEF OneCreator
    <2> QED
      BY <2>1, <2>2
  <1>3. EntryOwner'
    <2> SUFFICES ASSUME NEW j \in DOMAIN containers, containers[j].l # 0
                 PROVE  id[containers[j].l] = j /\ pc'[containers[j].l] \in Inserted
      BY DEF EntryOwner
    <2>1. containers[j].l \in Launch
      BY DEF Inv, TypeOK, TablesOK, Entry, Launch
    <2> QED
      BY <2>1 DEF Inv, ControlInv, EntryOwner
  <1>4. SlotOwned'
    <2> SUFFICES ASSUME NEW a \in Launch, NEW m \in Launch, Starts(a)',
                        IsPod(id[a]) \/ pc'[a] \notin Early,
                        IsCreator(m), Holds(m), id[m] = id[a]
                 PROVE  m = a
      BY DEF SlotOwned
    <2>1. Starts(a) /\ (IsPod(id[a]) \/ pc[a] \notin Early)
      BY DEF Starts
    <2> QED
      BY <2>1 DEF Inv, ControlInv, SlotOwned
  <1> QED
    BY <1>1, <1>2, <1>3, <1>4 DEF ControlInv

LEMMA MoveShare ==
    ASSUME Inv, NEW l \in Launch, NEW q, Moves(l, q), q = "sendns" => pc[l] = "fork",
           UNCHANGED <<handles, grab, nsFd>>
    PROVE  ShareInv'
  <1> USE MoveFacts DEF Moves
  <1>1. Ungrabbed'
    BY DEF Inv, ShareInv, Ungrabbed
  <1>2. Shared'
    BY DEF Inv, ShareInv, Shared, Taken
  <1>3. OpenListed'
    <2> SUFFICES ASSUME NEW m \in Launch, nsFd[m] = "open", Starts(m)
                 PROVE  Starts(m)'
      BY DEF Inv, ShareInv, OpenListed, Taken
    <2>1. CASE m # l
      BY <2>1 DEF Starts, IsCreator
    <2>2. CASE m = l
      <3>1. pc[l] \in Inserted
        BY <2>2 DEF Inv, RefInv, DescriptorOwner, Inserted
      <3>2. q \notin {"none", "failed"}
        BY <3>1 DEF Inserted, Registered
      <3> QED
        BY <2>2, <3>2 DEF Starts, IsCreator
    <2> QED
      BY <2>1, <2>2
  <1> QED
    BY <1>1, <1>2, <1>3 DEF ShareInv

LEMMA MoveNet ==
    ASSUME Inv, NEW l \in Launch, NEW q, Moves(l, q), pc[l] # "insert",
           pc[l] \in NetworkPC => q \in NetworkPC, q = "net" => IsCreator(l),
           UNCHANGED <<podNet, net>>
    PROVE  NetInv'
  <1> USE MoveFacts DEF Moves
  <1>1. Networked'
    BY DEF Inv, NetInv, Networked, NetworkPC, IsCreator
  <1>2. PodNetOwner'
    BY DEF Inv, NetInv, PodNetOwner
  <1>3. PodNetCurrent'
    BY DEF Inv, NetInv, PodNetCurrent
  <1>4. PodNetPending'
    BY DEF Inv, NetInv, PodNetPending, Members
  <1>5. NetworkAccountedFor'
    BY DEF Inv, NetInv, NetworkAccountedFor
  <1> QED
    BY <1>1, <1>2, <1>3, <1>4, <1>5 DEF NetInv

(* The launch's entry goes into the table: whoever was there is clobbered, *)
(* and if the launch is a root, no other root was.                         *)
LEMMA InsertStep ==
    ASSUME Inv, NEW l \in Launch, NEW g, NEW q \in Inserted \ {"net"},
           Insert(id[l], [l |-> l, stage |-> g]), Goto(l, q),
           pc[l] \in {"created", "insert", "reinsert"},
           pc[l] \in NetworkPC => g = "running" /\ q \in NetworkPC,
           cli' = cli \/ (IsCreator(l) /\ q = "done"),
           UNCHANGED <<handles, podNet, kind, id, grab, nsFd, net>>
    PROVE  ControlInv' /\ ShareInv' /\ NetInv'
  <1> DEFINE e == [l |-> l, stage |-> g]
  <1>1. pc'[l] = q /\ \A m \in Launch \ {l} : pc'[m] = pc[m]
    BY DEF Goto, Inv, TypeOK, StartOK
  <1>2. e.l = l /\ e.stage = g
    OBVIOUS
  <1>3. /\ DOMAIN containers' = DOMAIN containers \cup {id[l]}
        /\ containers'[id[l]] = e /\ clobbered \subseteq clobbered'
        /\ \A j \in DOMAIN containers \ {id[l]} : containers'[j] = containers[j]
        /\ id[l] \in DOMAIN containers /\ containers[id[l]].l \notin {0, l} =>
              containers[id[l]].l \in clobbered'
    BY <1>2, InsertFacts
  <1> HIDE DEF e
  <1>4. \A m \in Launch : /\ Starts(m)' => Starts(m)
                          /\ m # l => (Holds(m)' => Holds(m) /\ id[m] # id[l])
                          /\ m # l /\ Holds(m) /\ m \notin clobbered' => Holds(m)' /\ id[m] # id[l]
                          /\ IsCreator(m)' <=> IsCreator(m)
    BY <1>1, <1>2, <1>3, LaunchPositive DEF Starts, Holds, IsCreator
  <1>5. Holds(l)' /\ (IsCreator(l) => Starts(l))
    BY <1>2, <1>3 DEF Holds, Starts
  <1>6. ControlInv'
    <2>1. RootNamed'
      BY DEF Inv, ControlInv, RootNamed, IsCreator
    <2>2. OneCreator'
      <3>1. CASE cli' = cli
        BY <1>4, <3>1 DEF Inv, ControlInv, OneCreator
      <3>2. CASE IsCreator(l) /\ q = "done"
        <4>1. \A m \in Launch : Starts(m) => m = l
          BY <1>5, <3>2 DEF Inv, ControlInv, OneCreator
        <4>2. \A m \in Launch : ~Starts(m)'
          BY <1>1, <1>4, <3>2, <4>1 DEF Starts
        <4> QED
          BY <4>2 DEF OneCreator
      <3> QED
        BY <3>1, <3>2
    <2>3. EntryOwner'
      <3> SUFFICES ASSUME NEW j \in DOMAIN containers', containers'[j].l # 0
                   PROVE  id[containers'[j].l] = j /\ pc'[containers'[j].l] \in Inserted
        BY DEF EntryOwner
      <3>1. CASE j = id[l]
        BY <1>1, <1>2, <1>3, <3>1
      <3>2. CASE j # id[l]
        <4>1. j \in DOMAIN containers /\ containers'[j] = containers[j]
          BY <1>3, <3>2
        <4>2. containers[j].l \in Launch
          BY <4>1 DEF Inv, TypeOK, TablesOK, Entry, Launch
        <4>3. id[containers[j].l] = j /\ pc[containers[j].l] \in Inserted
          BY <4>1 DEF Inv, ControlInv, EntryOwner
        <4> QED
          BY <1>1, <3>2, <4>1, <4>2, <4>3
      <3> QED
        BY <3>1, <3>2
    <2>4. SlotOwned'
      <3> SUFFICES ASSUME NEW a \in Launch, NEW m \in Launch, Starts(a)',
                          IsPod(id[a]) \/ pc'[a] \notin Early,
                          IsCreator(m), Holds(m)', id[m] = id[a]
                   PROVE  m = a
        BY <1>4 DEF SlotOwned
      <3>1. CASE m = l
        BY <1>4, <1>5, <3>1 DEF Inv, ControlInv, OneCreator
      <3>2. CASE m # l
        <4>1. Holds(m) /\ a # l
          BY <1>4, <3>2
        <4> QED
          BY <1>1, <1>4, <4>1 DEF Inv, ControlInv, SlotOwned
      <3> QED
        BY <3>1, <3>2
    <2> QED
      BY <2>1, <2>2, <2>3, <2>4 DEF ControlInv
  <1>7. ShareInv'
    <2>1. Ungrabbed'
      BY <1>1 DEF Inv, ShareInv, Ungrabbed, Inserted, Registered
    <2>2. Shared'
      BY DEF Inv, ShareInv, Shared, Taken
    <2>3. OpenListed'
      <3> SUFFICES ASSUME NEW m \in Launch, nsFd[m] = "open", m \notin clobbered', ~Taken(m)
                   PROVE  /\ id[m] \in DOMAIN handles /\ handles[id[m]].owner = m
                          /\ Starts(m)' \/ Holds(m)'
        BY DEF OpenListed, Taken
      <3>1. /\ id[m] \in DOMAIN handles /\ handles[id[m]].owner = m
            /\ Starts(m) \/ Holds(m)
        BY <1>3 DEF Inv, ShareInv, OpenListed
      <3>2. CASE m = l
        BY <1>5, <3>1, <3>2
      <3>3. CASE m # l
        BY <1>1, <1>4, <3>1, <3>3 DEF Starts
      <3> QED
        BY <3>2, <3>3
    <2> QED
      BY <2>1, <2>2, <2>3 DEF ShareInv
  <1>8. NetInv'
    <2>1. Networked'
      BY <1>1 DEF Inv, NetInv, Networked, NetworkPC, IsCreator
    <2>2. PodNetOwner'
      BY DEF Inv, NetInv, PodNetOwner
    <2>3. PodNetCurrent'
      <3> SUFFICES ASSUME NEW p \in Pod, podNet[p] # 0, NEW m \in Launch, IsCreator(m),
                          id[m] = RootID(p), Starts(m)' \/ Holds(m)'
                   PROVE  m = podNet[p]
        BY <1>4 DEF PodNetCurrent
      <3>1. Starts(m) \/ Holds(m)
        BY <1>4, <1>5
      <3> QED
        BY <3>1 DEF Inv, NetInv, PodNetCurrent
    <2>4. PodNetPending'
      BY <1>3 DEF Inv, NetInv, PodNetPending, Members
    <2>5. NetworkAccountedFor'
      <3> SUFFICES ASSUME NEW m \in Launch, net[m] = "up", IsPod(id[m]), m \notin clobbered'
                   PROVE  \/ pc'[m] = "insert"
                          \/ /\ id[m] \in DOMAIN containers'
                             /\ containers'[id[m]] = [l |-> m, stage |-> "running"]
                          \/ podNet[id[m][1]] = m
        BY DEF NetworkAccountedFor
      <3>1. CASE m = l
        BY <1>3, <3>1 DEF Inv, NetInv, Networked, NetworkPC, e
      <3>2. CASE m # l
        <4>1. \/ pc[m] = "insert"
              \/ /\ id[m] \in DOMAIN containers
                 /\ containers[id[m]] = [l |-> m, stage |-> "running"]
              \/ podNet[id[m][1]] = m
          BY <1>3 DEF Inv, NetInv, NetworkAccountedFor
        <4>2. CASE /\ id[m] \in DOMAIN containers
                   /\ containers[id[m]] = [l |-> m, stage |-> "running"]
          BY <1>3, <1>4, <3>2, <4>2 DEF Holds
        <4> QED
          BY <1>1, <3>2, <4>1, <4>2
      <3> QED
        BY <3>1, <3>2
    <2> QED
      BY <2>1, <2>2, <2>3, <2>4, <2>5 DEF NetInv
  <1> QED
    BY <1>6, <1>7, <1>8

LEMMA TakeHandlesShare ==
    ASSUME Inv, NEW l \in Launch, TakeHandles(l)
    PROVE  ShareInv'
  <1> DEFINE r == FromContainer(l)
  <1>1. /\ UNCHANGED <<containers, clobbered, id, kind, nsFd>> /\ pc[l] = "sendns"
        /\ grab[l] = 0
    BY DEF TakeHandles, At, res, Inv, ShareInv, Ungrabbed
  <1>2. CASE r \in DOMAIN handles /\ handles[r].owner # 0
    <2>1. /\ handles' = [handles EXCEPT ![r] = CountRef(@)]
          /\ grab' = [grab EXCEPT ![l] = handles[r].owner]
          /\ pc' = [pc EXCEPT ![l] = "sendmsg"]
      BY <1>2 DEF TakeHandles, Goto
    <2>2. handles[r] \in Handle
      BY <1>2 DEF Inv, TypeOK, TablesOK
    <2>3. /\ DOMAIN handles' = DOMAIN handles
          /\ handles'[r].owner = handles[r].owner
          /\ \A i \in DOMAIN handles \ {r} : handles'[i] = handles[i]
      BY <1>2, <2>1, <2>2 DEF CountRef, Inv, TypeOK, TablesOK, Handle
    <2> HIDE DEF r
    <2>4. /\ grab'[l] = handles[r].owner /\ \A m \in Launch \ {l} : grab'[m] = grab[m]
          /\ pc'[l] = "sendmsg" /\ \A m \in Launch \ {l} : pc'[m] = pc[m]
      BY <2>1 DEF Inv, TypeOK, StartOK
    <2>5. \A x : x # 0 /\ Taken(x) => \E m \in Launch : grab'[m] = x
      BY <1>1, <2>4 DEF Taken
    <2>6. Ungrabbed'
      BY <2>4 DEF Inv, ShareInv, Ungrabbed
    <2>7. Shared'
      <3> SUFFICES ASSUME NEW i \in DOMAIN handles', handles'[i].owner # 0,
                          handles'[i].ref # 1
                   PROVE  \E m \in Launch : grab'[m] = handles'[i].owner
        BY DEF Shared, Taken
      <3>1. CASE i = r
        BY <2>3, <2>4, <3>1
      <3>2. CASE i # r
        BY <2>3, <2>5, <3>2 DEF Inv, ShareInv, Shared
      <3> QED
        BY <3>1, <3>2
    <2>8. OpenListed'
      <3> SUFFICES ASSUME NEW m \in Launch, nsFd[m] = "open", m \notin clobbered,
                          ~ \E x \in Launch : grab'[x] = m
                   PROVE  /\ id[m] \in DOMAIN handles' /\ handles'[id[m]].owner = m
                          /\ Starts(m)' \/ Holds(m)'
        BY <1>1 DEF OpenListed, Taken
      <3>1. /\ id[m] \in DOMAIN handles /\ handles[id[m]].owner = m
            /\ Starts(m) \/ Holds(m)
        BY <2>5, LaunchPositive DEF Inv, ShareInv, OpenListed
      <3>2. id[m] \in DOMAIN handles' /\ handles'[id[m]].owner = m
        BY <2>3, <3>1
      <3>3. (Starts(m) => Starts(m)') /\ (Holds(m) => Holds(m)')
        BY <1>1, <2>4 DEF Starts, Holds, IsCreator
      <3> QED
        BY <3>1, <3>2, <3>3
    <2> QED
      BY <2>6, <2>7, <2>8 DEF ShareInv
  <1>3. CASE ~(r \in DOMAIN handles /\ handles[r].owner # 0)
    <2>1. Goto(l, "created") /\ UNCHANGED <<handles, grab>> /\ cli' = cli
      BY <1>3 DEF TakeHandles, user
    <2>2. Moves(l, "created")
      BY <1>1, <2>1 DEF Moves, Inserted, Registered, Early
    <2> QED
      BY <1>1, <2>1, <2>2, MoveShare
  <1> QED
    BY <1>2, <1>3

(* A root that registers its descriptors replaces no other root's handle   *)
(* that is still the only way to close them.                               *)
LEMMA ReceiveShare ==
    ASSUME Inv, NEW l \in Launch, Receive(l)
    PROVE  ShareInv'
  <1> DEFINE q == IF IsCreator(l) THEN "net" ELSE "insert"
  <1>1. /\ UNCHANGED <<containers, clobbered, id, kind, grab>> /\ pc[l] = "recv"
        /\ pc' = [pc EXCEPT ![l] = q]
    BY DEF Receive, At, Goto
  <1>2. /\ pc'[l] = q /\ \A m \in Launch \ {l} : pc'[m] = pc[m]
    BY <1>1 DEF Inv, TypeOK, StartOK
  <1>3. \A m \in Launch : (Starts(m) => Starts(m)') /\ (Holds(m) => Holds(m)')
    BY <1>1, <1>2 DEF Starts, Holds, IsCreator
  <1>4. Ungrabbed'
    BY <1>1, <1>2 DEF Inv, ShareInv, Ungrabbed
  <1>5. CASE IsCreator(l)
    <2>1. /\ DOMAIN handles' = DOMAIN handles \cup {id[l]}
          /\ handles'[id[l]].owner = l /\ handles'[id[l]].ref = 1
          /\ \A i \in DOMAIN handles \ {id[l]} : handles'[i] = handles[i]
      BY <1>5 DEF Receive, RegisterNamespaceHandles, Put
    <2>2. \A m \in Launch \ {l} : nsFd'[m] = nsFd[m]
      BY <1>5 DEF Receive, RegisterNamespaceHandles, Inv, TypeOK, ResourcesOK
    <2>3. Shared'
      BY <1>1, <2>1 DEF Inv, ShareInv, Shared, Taken
    <2>4. OpenListed'
      <3> SUFFICES ASSUME NEW m \in Launch, nsFd'[m] = "open", m \notin clobbered,
                          ~Taken(m)
                   PROVE  /\ id[m] \in DOMAIN handles' /\ handles'[id[m]].owner = m
                          /\ Starts(m)' \/ Holds(m)'
        BY <1>1 DEF OpenListed, Taken
      <3>1. CASE m = l
        BY <1>1, <1>3, <1>5, <2>1, <3>1 DEF Starts
      <3>2. CASE m # l
        <4>1. /\ id[m] \in DOMAIN handles /\ handles[id[m]].owner = m
              /\ Starts(m) \/ Holds(m)
          BY <2>2, <3>2 DEF Inv, ShareInv, OpenListed
        <4>2. IsCreator(m) /\ Starts(l)
          BY <1>1, <1>5, <2>2, <3>2 DEF Inv, RefInv, DescriptorOwner, Starts
        <4>3. Holds(m)
          BY <3>2, <4>1, <4>2 DEF Inv, ControlInv, OneCreator
        <4>4. id[m] # id[l]
          BY <1>1, <3>2, <4>2, <4>3 DEF Inv, ControlInv, SlotOwned, Early
        <4> QED
          BY <1>3, <2>1, <4>1, <4>4
      <3> QED
        BY <3>1, <3>2
    <2> QED
      BY <1>4, <2>3, <2>4 DEF ShareInv
  <1>6. CASE ~IsCreator(l)
    <2>1. /\ UNCHANGED nsFd
          /\ \A i \in DOMAIN handles' : handles'[i].owner # 0 =>
                i \in DOMAIN handles /\ handles'[i] = handles[i]
          /\ \A i \in DOMAIN handles : i \in DOMAIN handles' /\ handles'[i] = handles[i]
      BY <1>6 DEF Receive, RegisterNamespaceHandles, Put
    <2>2. Shared'
      BY <1>1, <2>1 DEF Inv, ShareInv, Shared, Taken
    <2>3. OpenListed'
      <3> SUFFICES ASSUME NEW m \in Launch, nsFd[m] = "open", m \notin clobbered,
                          ~Taken(m)
                   PROVE  /\ id[m] \in DOMAIN handles' /\ handles'[id[m]].owner = m
                          /\ Starts(m)' \/ Holds(m)'
        BY <1>1, <2>1 DEF OpenListed, Taken
      <3> QED
        <4>1. /\ id[m] \in DOMAIN handles /\ handles[id[m]].owner = m
              /\ Starts(m) \/ Holds(m)
          BY DEF Inv, ShareInv, OpenListed
        <4>2. id[m] \in DOMAIN handles' /\ handles'[id[m]] = handles[id[m]]
          BY <2>1, <4>1
        <4> QED
          BY <1>3, <4>1, <4>2
    <2> QED
      BY <1>4, <2>2, <2>3 DEF ShareInv
  <1> QED
    BY <1>5, <1>6

LEMMA NetworkConfigNet ==
    ASSUME Inv, NEW l \in Launch, NetworkConfig(l)
    PROVE  NetInv'
  <1>1. /\ UNCHANGED <<containers, clobbered, id, kind, podNet>> /\ pc[l] = "net"
        /\ pc' = [pc EXCEPT ![l] = "insert"]
    BY DEF NetworkConfig, At, Goto, table
  <1>2. /\ pc'[l] = "insert" /\ \A m \in Launch \ {l} : pc'[m] = pc[m]
        /\ net'[l] \in {"up", net[l]} /\ \A m \in Launch \ {l} : net'[m] = net[m]
    BY <1>1 DEF NetworkConfig, Inv, TypeOK, StartOK, ResourcesOK
  <1>3. \A m \in Launch : (Starts(m)' => Starts(m)) /\ (Holds(m)' => Holds(m))
    BY <1>1, <1>2 DEF Starts, Holds, IsCreator
  <1>4. Networked'
    BY <1>1, <1>2 DEF Inv, NetInv, Networked, NetworkPC, IsCreator
  <1>5. PodNetOwner'
    BY <1>1 DEF Inv, NetInv, PodNetOwner
  <1>6. PodNetCurrent'
    BY <1>1, <1>3 DEF Inv, NetInv, PodNetCurrent, IsCreator
  <1>7. PodNetPending'
    <2>1. \A p \in Pod : podNet[p] # 0 => podNet[p] \in Launch
      BY DEF Inv, TypeOK, TablesOK, Launch
    <2> QED
      BY <1>1, <1>2, <2>1 DEF Inv, NetInv, PodNetPending, Members
  <1>8. NetworkAccountedFor'
    BY <1>1, <1>2 DEF Inv, NetInv, NetworkAccountedFor
  <1> QED
    BY <1>4, <1>5, <1>6, <1>7, <1>8 DEF NetInv

-----------------------------------------------------------------------------
(* The exit handler. *)

(* The entry that goes, and what is left of the table. *)
LEMMA ExitFacts ==
    ASSUME Inv, NEW i \in DOMAIN containers, OnContainerExit(i)
    PROVE  /\ containers[i].l \in Launch /\ id[containers[i].l] = i
           /\ i \in ID /\ i[1] \in Pod
           /\ DOMAIN containers' = DOMAIN containers \ {i}
           /\ \A j \in DOMAIN containers' : containers'[j] = containers[j]
           /\ \A p : Members(containers', p) = Members(containers, p) \ {i}
           /\ UNCHANGED <<clobbered, cli, pc, kind, id, grab>>
           /\ \A m \in Launch : /\ Starts(m)' <=> Starts(m)
                                /\ Holds(m)' <=> (Holds(m) /\ id[m] # i)
                                /\ IsCreator(m)' <=> IsCreator(m)
  <1>1. containers' = Del(containers, i) /\ UNCHANGED <<clobbered, cli, pc, kind, id, grab>>
        /\ Head(events) # 0 /\ containers[i].l = Head(events)
    BY DEF OnContainerExit, user, start, Listed
  <1>2. containers[i].l \in Launch /\ i \in ID
    BY <1>1 DEF Inv, TypeOK, TablesOK, Entry, Launch
  <1>3. i[1] \in Pod
    BY <1>2, IDParts
  <1>4. id[containers[i].l] = i
    BY <1>2, LaunchPositive DEF Inv, ControlInv, EntryOwner
  <1>5. /\ DOMAIN containers' = DOMAIN containers \ {i}
        /\ \A j \in DOMAIN containers' : containers'[j] = containers[j]
    BY <1>1, DelFacts
  <1>6. \A p : Members(containers', p) = Members(containers, p) \ {i}
    BY <1>5 DEF Members
  <1>7. ASSUME NEW m \in Launch
        PROVE  /\ Starts(m)' <=> Starts(m)
               /\ Holds(m)' <=> (Holds(m) /\ id[m] # i)
               /\ IsCreator(m)' <=> IsCreator(m)
    <2>1. IsCreator(m)' <=> IsCreator(m)
      BY <1>1 DEF IsCreator
    <2>2. Starts(m)' <=> Starts(m)
      BY <1>1 DEF Starts, IsCreator
    <2>3. Holds(m)' <=> (Holds(m) /\ id[m] # i)
      BY <1>1, <1>5 DEF Holds
    <2> QED
      BY <2>1, <2>2, <2>3
  <1> QED
    BY <1>1, <1>2, <1>3, <1>4, <1>5, <1>6, <1>7

LEMMA ExitControl ==
    ASSUME Inv, NEW i \in DOMAIN containers, OnContainerExit(i)
    PROVE  ControlInv'
  <1> USE ExitFacts
  <1>1. RootNamed'
    BY DEF Inv, ControlInv, RootNamed
  <1>2. OneCreator'
    BY DEF Inv, ControlInv, OneCreator
  <1>3. EntryOwner'
    BY DEF Inv, ControlInv, EntryOwner
  <1>4. SlotOwned'
    BY DEF Inv, ControlInv, SlotOwned
  <1> QED
    BY <1>1, <1>2, <1>3, <1>4 DEF ControlInv

(* At the last reference the descriptors are closed; otherwise they were   *)
(* taken.                                                                  *)
LEMMA ExitShare ==
    ASSUME Inv, NEW i \in DOMAIN containers, OnContainerExit(i)
    PROVE  ShareInv'
  <1> USE ExitFacts
  <1>1. /\ DOMAIN handles' = DOMAIN handles \ {i}
        /\ \A j \in DOMAIN handles' : handles'[j] = handles[j]
    BY DEF OnContainerExit, DropHandles, Del
  <1>2. \A l \in Launch : nsFd'[l] = IF i \in DOMAIN handles /\ handles[i].owner = l
                                         /\ handles[i].ref = 1 THEN "closed" ELSE nsFd[l]
    BY DEF OnContainerExit, DropHandles, LastRef
  <1>3. Ungrabbed'
    BY DEF Inv, ShareInv, Ungrabbed
  <1>4. Shared'
    <2>1. UNCHANGED grab
      OBVIOUS
    <2> QED
      BY ONLY <1>1, <2>1, Inv DEF Inv, ShareInv, Shared, Taken
  <1>5. OpenListed'
    <2> SUFFICES ASSUME NEW m \in Launch, nsFd'[m] = "open", m \notin clobbered, ~Taken(m)
                 PROVE  /\ id[m] \in DOMAIN handles' /\ handles'[id[m]].owner = m
                        /\ Starts(m)' \/ Holds(m)'
      BY DEF OpenListed, Taken
    <2>1. nsFd[m] = "open" /\ ~(i \in DOMAIN handles /\ handles[i].owner = m
                                  /\ handles[i].ref = 1)
      BY <1>2
    <2>2. /\ id[m] \in DOMAIN handles /\ handles[id[m]].owner = m
          /\ Starts(m) \/ Holds(m)
      BY <2>1 DEF Inv, ShareInv, OpenListed
    <2>3. id[m] # i
      BY <2>1, <2>2, LaunchPositive DEF Inv, ShareInv, Shared
    <2> QED
      BY <1>1, <2>2, <2>3
  <1> QED
    BY <1>3, <1>4, <1>5 DEF ShareInv

(* The network of the entry is saved, which loses no other; the last       *)
(* container takes the saved one down.                                     *)
LEMMA ExitNet ==
    ASSUME Inv, NEW i \in DOMAIN containers, OnContainerExit(i)
    PROVE  NetInv'
  <1> DEFINE p == i[1]
             gone == containers[i].l
             saved == SavedNet(i)
             empty == IsPod(i) /\ Members(containers', p) = {}
  <1>0. /\ containers[i].l \in Launch /\ id[containers[i].l] = i /\ i[1] \in Pod
        /\ \A q : Members(containers', q) = Members(containers, q) \ {i}
    BY ExitFacts
  <1>1. /\ podNet' = [podNet EXCEPT ![p] = IF empty THEN 0 ELSE saved]
        /\ net' = [l \in Launch |-> IF empty /\ saved = l THEN "removed" ELSE net[l]]
    BY DEF OnContainerExit, CleanupPod, NetAfter, isPodEmpty
  <1>2. /\ p \in Pod /\ podNet'[p] = (IF empty THEN 0 ELSE saved)
        /\ \A q \in Pod \ {p} : podNet'[q] = podNet[q]
    <2>1. p \in Pod /\ podNet \in [Pod -> 0..MaxLaunch]
      BY <1>0 DEF Inv, TypeOK, TablesOK
    <2> HIDE DEF p, saved, empty
    <2> QED
      BY <1>1, <2>1
  <1>3. \/ saved = podNet[p]
        \/ /\ saved = gone /\ IsPod(i) /\ net[gone] = "up"
           /\ containers[i].stage = "running"
    BY DEF SavedNet, EntryNet
  <1>4. /\ IsPod(i) /\ containers[i].stage = "running" /\ net[gone] = "up" => saved = gone
        /\ ~(IsPod(i) /\ containers[i].stage = "running" /\ net[gone] = "up") =>
              saved = podNet[p]
    <2>1. gone # 0
      BY <1>0, LaunchPositive
    <2> QED
      BY <2>1 DEF SavedNet, EntryNet
  <1>5. net[gone] = "up" => IsCreator(gone) /\ i = RootID(p)
    <2>1. gone \in Launch /\ id[gone] = i
      BY <1>0
    <2> QED
      BY <2>1 DEF Inv, NetInv, Networked, ControlInv, RootNamed
  <1>6. gone \in Launch /\ id[gone] = i /\ Holds(gone)
    BY <1>0 DEF Holds
  (* A pod's saved network and a root's entry are of the same root. *)
  <1>7. podNet[p] # 0 /\ net[gone] = "up" => gone = podNet[p]
    BY <1>2, <1>5, <1>6 DEF Inv, NetInv, PodNetCurrent
  <1>8. saved # 0 => /\ saved \in Launch /\ net[saved] = "up" /\ id[saved] = RootID(p)
                     /\ p # 0
    <2>1. CASE saved = podNet[p]
      BY <1>2, <2>1 DEF Inv, NetInv, PodNetPending, PodNetOwner, TypeOK, TablesOK, Launch
    <2>2. CASE saved = gone /\ IsPod(i) /\ net[gone] = "up"
      BY <1>5, <1>6, <2>2 DEF IsPod
    <2> QED
      BY <1>3, <2>1, <2>2
  <1> HIDE DEF p, gone, saved, empty
  <1>9. Networked'
    <2> SUFFICES ASSUME NEW l \in Launch
                 PROVE  /\ pc[l] = "net" => IsCreator(l)
                        /\ net'[l] # "none" => IsCreator(l) /\ pc[l] \in NetworkPC
      BY ExitFacts DEF Networked
    <2>1. net'[l] # "none" => net[l] # "none"
      BY <1>1, <1>8, LaunchPositive
    <2> QED
      BY <2>1 DEF Inv, NetInv, Networked
  <1>10. PodNetOwner'
    BY <1>2, <1>8, ExitFacts DEF Inv, NetInv, PodNetOwner
  <1>11. PodNetCurrent'
    <2> SUFFICES ASSUME NEW q \in Pod, podNet'[q] # 0, NEW m \in Launch, IsCreator(m),
                        id[m] = RootID(q), Starts(m) \/ (Holds(m) /\ id[m] # i)
                 PROVE  m = podNet'[q]
      BY ExitFacts DEF PodNetCurrent
    <2>1. CASE podNet'[q] = podNet[q]
      BY <2>1 DEF Inv, NetInv, PodNetCurrent
    <2>2. CASE podNet'[q] # podNet[q]
      <3>1. q = p /\ podNet'[q] = gone /\ saved = gone /\ IsPod(i) /\ net[gone] = "up"
        BY <1>2, <1>3, <2>2
      <3>2. id[m] = i /\ Starts(m) /\ IsPod(id[m])
        BY <1>5, <3>1
      <3> QED
        BY <1>5, <1>6, <3>1, <3>2 DEF Inv, ControlInv, SlotOwned
    <2> QED
      BY <2>1, <2>2
  <1>12. PodNetPending'
    <2> SUFFICES ASSUME NEW q \in Pod, podNet'[q] # 0
                 PROVE  net'[podNet'[q]] = "up" /\ Members(containers', q) # {}
      BY DEF PodNetPending
    <2>1. CASE q = p
      <3>1. ~empty /\ podNet'[q] = saved /\ saved \in Launch /\ net[saved] = "up" /\ p # 0
        BY <1>2, <1>8, <2>1
      <3>2. Members(containers', q) # {}
        BY <2>1, <3>1 DEF empty, IsPod, p
      <3> QED
        BY <1>1, <3>1, <3>2
    <2>2. CASE q # p
      <3>1. podNet'[q] = podNet[q] /\ podNet[q] \in Launch
        BY <1>2, <2>2 DEF Inv, TypeOK, TablesOK, Launch
      <3>2. net[podNet[q]] = "up" /\ Members(containers, q) # {} /\ id[podNet[q]] = RootID(q)
        BY <3>1, LaunchPositive DEF Inv, NetInv, PodNetPending, PodNetOwner
      <3>3. podNet[q] # saved
        BY <1>8, <2>2, <3>1, <3>2, RootIDPart, LaunchPositive
      <3>4. i \notin Members(containers, q)
        BY <2>2 DEF Members, p
      <3> QED
        <4>1. Members(containers', q) = Members(containers, q)
          BY <1>0, <3>4
        <4> QED
          BY <1>1, <3>1, <3>2, <3>3, <4>1
    <2> QED
      BY <2>1, <2>2
  <1>13. NetworkAccountedFor'
    <2> SUFFICES ASSUME NEW l \in Launch, net'[l] = "up", IsPod(id[l]), l \notin clobbered
                 PROVE  \/ pc[l] = "insert"
                        \/ /\ id[l] \in DOMAIN containers'
                           /\ containers'[id[l]] = [l |-> l, stage |-> "running"]
                        \/ podNet'[id[l][1]] = l
      BY ExitFacts DEF NetworkAccountedFor
    <2>1. net[l] = "up" /\ ~(empty /\ saved = l)
      BY <1>1
    <2>2. id[l][1] \in Pod
      BY IDParts DEF Inv, TypeOK, StartOK
    <2>3. CASE /\ id[l] \in DOMAIN containers
               /\ containers[id[l]] = [l |-> l, stage |-> "running"]
      <3>1. CASE id[l] # i
        BY <2>3, <3>1, ExitFacts
      <3>2. CASE id[l] = i
        <4>1. gone = l /\ containers[i].stage = "running"
          BY <2>3, <3>2 DEF gone
        <4>2. saved = l
          BY <1>4, <2>1, <3>2, <4>1
        <4> QED
          BY <1>2, <2>1, <3>2, <4>2 DEF p
      <3> QED
        BY <3>1, <3>2
    <2>4. CASE podNet[id[l][1]] = l
      <3>1. CASE id[l][1] # p
        BY <1>2, <2>2, <2>4, <3>1
      <3>2. CASE id[l][1] = p
        <4>1. saved = l
          BY <1>3, <1>7, <2>4, <3>2, LaunchPositive
        <4> QED
          BY <1>2, <2>1, <3>2, <4>1
      <3> QED
        BY <3>1, <3>2
    <2> QED
      BY <2>1, <2>3, <2>4 DEF Inv, NetInv, NetworkAccountedFor
  <1> QED
    BY <1>9, <1>10, <1>11, <1>12, <1>13 DEF NetInv

-----------------------------------------------------------------------------
(* Every step of the supervisor. *)

TableInv == ControlInv /\ ShareInv /\ NetInv

LEMMA CommandTable == Inv /\ (Command \/ CliStep) => TableInv'
  <1> SUFFICES ASSUME Inv, Command \/ CliStep PROVE TableInv'
    OBVIOUS
  <1> USE DEF TableInv
  <1>1. ASSUME NEW c, NEW k \in Creators, NewPod(c, k) PROVE TableInv'
    BY <1>1, SpawnCreator DEF NewPod
  <1>2. ASSUME PlaceJoiner PROVE TableInv'
    <2> DEFINE at == IF cli.nilRoot THEN "nilroot" ELSE "fork"
    <2>1. /\ at \in {"fork", "nilroot"} /\ next \in Launch /\ cli.op # "start"
          /\ Spawn("joiner", <<cli.pod, cli.idx>>, at) /\ "joiner" \in Joiners
          /\ UNCHANGED <<handles, podNet, grab, nsFd, net>>
      BY <1>2 DEF PlaceJoiner, Doing, res, Joiners
    <2>2. Placed
      BY <1>2, PlaceholderPlaced DEF PlaceJoiner
    <2> HIDE DEF at
    <2> QED
      BY <2>1, <2>2, SpawnJoiner
  <1>3. ASSUME SpawnBatchJoiner PROVE TableInv'
    <2> DEFINE at == IF cli.nilRoot THEN "nilroot" ELSE "fork"
    <2>1. /\ at \in {"fork", "nilroot"} /\ next \in Launch /\ cli.op # "start"
          /\ Spawn("batchJoiner", <<cli.pod, NextIndex(cli.pod)>>, at)
          /\ "batchJoiner" \in Joiners
          /\ UNCHANGED <<handles, podNet, grab, nsFd, net>>
      BY <1>3 DEF SpawnBatchJoiner, Doing, table, res, Joiners
    <2>2. Placed
      BY <1>3 DEF SpawnBatchJoiner, table, Placed
    <2> HIDE DEF at
    <2> QED
      BY <2>1, <2>2, SpawnJoiner
  <1>4. ASSUME NEW p, NEW n, \/ GetNextPodLetterPanics \/ NewJoiners(p, n)
                             \/ RunInPod(p) \/ Forward(p) \/ KillPod(p)
        PROVE  TableInv'
    <2>1. UNCHANGED tableVars /\ cli.op # "start"
      BY <1>4 DEF GetNextPodLetterPanics, NewJoiners, RunInPod, Forward, KillPod, Doing,
                  tableVars, table, start, res
    <2> QED
      BY <2>1, TableFrame
  <1>5. ASSUME NEW i, \/ KillOne(i) \/ KillAttempt(i) \/ GetNextContainerIndex
                      \/ KillRound \/ AddSession
        PROVE  TableInv'
    <2>1. UNCHANGED tableVars /\ cli.op # "start"
      BY <1>5 DEF KillOne, KillAttempt, GetNextContainerIndex, KillRound, AddSession,
                  Doing, tableVars, table, start, res
    <2> QED
      BY <2>1, TableFrame
  <1>6. CASE Command
    BY <1>1, <1>4, <1>5, <1>6 DEF Command, Creators
  <1>7. CASE CliStep
    BY <1>2, <1>3, <1>5, <1>7 DEF CliStep
  <1> QED
    BY <1>6, <1>7

(* A move that leaves descriptors and networks alone. *)
LEMMA MoveTable ==
    ASSUME Inv, NEW l \in Launch, NEW q, Moves(l, q), pc[l] # "insert", q # "net",
           q = "sendns" => pc[l] = "fork", pc[l] \in NetworkPC => q \in NetworkPC,
           UNCHANGED <<handles, grab, nsFd, podNet, net>>
    PROVE  TableInv'
  BY MoveControl, MoveShare, MoveNet DEF TableInv

LEMMA StartTable ==
    ASSUME Inv, NEW l \in Launch, StartStep(l) \/ Fault(l)
    PROVE  TableInv'
  <1> USE DEF At, table, user, start, res
  <1>1. ASSUME RootSpecPanics(l) \/ InitDies(l) PROVE TableInv'
    <2>1. UNCHANGED tableVars /\ UNCHANGED cli
      BY <1>1 DEF RootSpecPanics, InitDies, tableVars
    <2> QED
      BY <2>1, TableFrame DEF TableInv
  <1>2. ASSUME Fork(l) PROVE TableInv'
    <2>1. CASE IsCreator(l)
      <3>1. Moves(l, "userns")
        BY <1>2, <2>1 DEF Fork, Moves, Inserted, Registered, Early
      <3> QED
        BY <1>2, <3>1, MoveTable DEF Fork, NetworkPC
    <2>2. CASE ~IsCreator(l)
      <3>1. Moves(l, "sendns")
        BY <1>2, <2>2 DEF Fork, Moves, Inserted, Registered
      <3> QED
        BY <1>2, <3>1, MoveTable DEF Fork, NetworkPC
    <2> QED
      BY <2>1, <2>2
  <1>3. ASSUME ForkFails(l) \/ SetupUserNSFails(l) PROVE TableInv'
    <2>1. Moves(l, "failed")
      BY <1>3 DEF ForkFails, SetupUserNSFails, Return, Moves, Inserted, Registered
    <2> QED
      BY <1>3, <2>1, MoveTable DEF ForkFails, SetupUserNSFails, NetworkPC
  <1>4. ASSUME SetupUserNS(l) \/ SendNamespaceFDs(l) PROVE TableInv'
    <2>1. Moves(l, "created")
      BY <1>4 DEF SetupUserNS, SendNamespaceFDs, Moves, Inserted, Registered, Early
    <2> QED
      BY <1>4, <2>1, MoveTable DEF SetupUserNS, SendNamespaceFDs, NetworkPC
  <1>5. ASSUME TakeHandles(l) PROVE TableInv'
    <2>1. PICK q \in {"sendmsg", "created"} : Goto(l, q)
      BY <1>5 DEF TakeHandles
    <2>2. Moves(l, q) /\ pc[l] = "sendns" /\ UNCHANGED <<podNet, net>>
      BY <1>5, <2>1 DEF TakeHandles, Moves, Inserted, Registered, Early
    <2> QED
      BY <1>5, <2>2, MoveControl, MoveNet, TakeHandlesShare DEF TableInv, NetworkPC
  <1>6. ASSUME Receive(l) PROVE TableInv'
    <2>1. PICK q \in {"net", "insert"} : Goto(l, q) /\ (q = "net" => IsCreator(l))
      BY <1>6 DEF Receive
    <2>2. Moves(l, q) /\ pc[l] = "recv" /\ UNCHANGED <<podNet, net>>
      BY <1>6, <2>1 DEF Receive, Moves, Inserted, Registered, Early
    <2> QED
      BY <1>6, <2>1, <2>2, MoveControl, MoveNet, ReceiveShare DEF TableInv, NetworkPC
  <1>7. ASSUME NetworkConfig(l) PROVE TableInv'
    <2>1. Moves(l, "insert") /\ UNCHANGED <<handles, grab, nsFd>>
      BY <1>7 DEF NetworkConfig, Moves, Inserted, Registered, Early
    <2> QED
      BY <1>7, <2>1, MoveControl, MoveShare, NetworkConfigNet DEF TableInv
  <1>8. ASSUME SetIPC(l) PROVE TableInv'
    <2>1. PICK q \in {"reinsert", "free", "done"} :
             Goto(l, q) /\ (IsCreator(l) => q # "done")
      <3>1. CASE kind[l] = "creator"
        BY <1>8, <3>1 DEF SetIPC
      <3>2. CASE kind[l] = "batchCreator"
        BY <1>8, <3>2 DEF SetIPC
      <3>3. CASE kind[l] \notin {"creator", "batchCreator"}
        BY <1>8, <3>3 DEF SetIPC, IsCreator, Creators
      <3> QED
        BY <3>1, <3>2, <3>3
    <2>2. pc[l] = "ipc" /\ UNCHANGED <<table, user, kind, id, grab, res>>
      BY <1>8 DEF SetIPC
    <2>3. Moves(l, q)
      BY <2>1, <2>2 DEF Moves, Inserted, Registered, Early
    <2> QED
      BY <2>2, <2>3, MoveTable DEF NetworkPC
  <1>9. ASSUME FreeBatchRoot(l) PROVE TableInv'
    <2>1. Moves(l, "reinsert")
      BY <1>9 DEF FreeBatchRoot, Moves, Inserted, Registered, Early
    <2> QED
      BY <1>9, <2>1, MoveTable DEF FreeBatchRoot, NetworkPC
  <1>10. ASSUME InsertCreated(l) PROVE TableInv'
    BY <1>10, InsertStep DEF InsertCreated, TableInv, Inserted, NetworkPC
  <1>11. ASSUME InsertRunning(l) PROVE TableInv'
    BY <1>11, InsertStep DEF InsertRunning, TableInv, Inserted, Registered, NetworkPC
  <1>12. ASSUME Reinsert(l) PROVE TableInv'
    BY <1>12, InsertStep
    DEF Reinsert, Return, TableInv, Inserted, Registered, NetworkPC
  <1> QED
    BY <1>1, <1>2, <1>3, <1>4, <1>5, <1>6, <1>7, <1>8, <1>9, <1>10, <1>11, <1>12
    DEF StartStep, Fault

LEMMA TableStep == Inv /\ [Next]_vars => TableInv'
  <1> SUFFICES ASSUME Inv, [Next]_vars PROVE TableInv'
    OBVIOUS
  <1> USE DEF tableVars, table, user, start, res
  <1>1. ASSUME UNCHANGED <<tableVars, cli>> PROVE TableInv'
    BY <1>1, TableFrame DEF TableInv
  <1>2. CASE UNCHANGED vars
    BY <1>1, <1>2 DEF vars
  <1>3. ASSUME NEW l, ProcessStep(l) \/ Reap(l) \/ WorkloadExits(l) PROVE TableInv'
    <2>1. UNCHANGED <<tableVars, cli>>
      BY <1>3
      DEF ProcessStep, InitReady, InitForks, InitSends, InitWaits, InitReleased,
          Reap, WorkloadExits
    <2> QED
      BY <1>1, <2>1
  <1>4. ASSUME Signal \/ OnSignal \/ OnUnknownExit PROVE TableInv'
    <2>1. UNCHANGED <<tableVars, cli>>
      BY <1>4 DEF Signal, OnSignal, OnUnknownExit
    <2> QED
      BY <1>1, <2>1
  <1>5. CASE HandlerStep
    BY <1>4, <1>5, ExitControl, ExitShare, ExitNet DEF HandlerStep, TableInv
  <1>6. CASE Next
    BY <1>3, <1>4, <1>5, <1>6, CommandTable, StartTable DEF Next
  <1> QED
    BY <1>2, <1>6

\* At most one root is being started at a time, it has its place in the table to
\* itself among roots, and descriptors and networks are accounted for: the
\* inductive invariant holds in every reachable state.
THEOREM TablesAccount == Spec => []Inv
  <1>1. Init => Inv
    BY InitType, InitRef, InitTable DEF Inv
  <1>2. Inv /\ [Next]_vars => Inv'
    BY TypeStep, RefStep, TableStep DEF Inv, TableInv
  <1> QED
    BY <1>1, <1>2, PTL DEF Spec

\* OnContainerExit closes every namespace descriptor nobody else counts on: one
\* that stays open is listed, or a joiner took it, or its root was overwritten.
THEOREM DescriptorsClosed == Spec => []LeakedOnlyIfShared
  <1>1. Inv => LeakedOnlyIfShared
    BY DEF Inv, ShareInv, OpenListed, Taken, LeakedOnlyIfShared
  <1> QED
    BY <1>1, TablesAccount, PTL

\* Every network that is up belongs to a launch, a table entry or the handler's
\* podNetResources, however kills, exits and reused letters interleave.
THEOREM NetworksAccountedFor == Spec => []NetworkAccountedFor
  <1>1. Inv => NetworkAccountedFor
    BY DEF Inv, NetInv
  <1> QED
    BY <1>1, TablesAccount, PTL

\* What podNetResources keeps is up, and it is kept only while the table lists
\* something of the pod: the exit that empties a pod never leaves its network.
THEOREM SavedNetworksPending == Spec => []PodNetPending
  <1>1. Inv => PodNetPending
    BY DEF Inv, NetInv
  <1> QED
    BY <1>1, TablesAccount, PTL
-----------------------------------------------------------------------------
(* Which pod a joiner enters.  Its handles are looked up by name, and the   *)
(* letter may have been given to another root.  The argument: a letter is   *)
(* free only when nothing of its pod is listed, and the entry of a root     *)
(* that has started leaves the table when its exit is handled or through a  *)
(* joiner of its name (PodHeld); so an earlier root of the same letter has  *)
(* been let go (Succeeded).  A later root replaces the handles as soon as   *)
(* it has any (HandleLatest), and before that no joiner is started (Last).  *)

Unforked == {"none", "nilroot", "fork"}

(* A launch has no init before its fork, and every exit is reported once. *)
Forked == \A l \in Launch : pc[l] \in Unforked => init[l] = "none"

ReportedOnce ==
    \A k \in DOMAIN events : events[k] # 0 =>
        /\ init[events[k]] = "reaped"
        /\ \A j \in DOMAIN events : events[j] = events[k] => j = k

ExitInv == Forked /\ ReportedOnce

(* A handled exit stays handled. *)
HandledStays == \A l \in Launch : ~Unhandled(l) => ~Unhandled(l)'

(* What all steps but Fork do to the inits; no init comes back. *)
Tame ==
    /\ \A l \in Launch : pc'[l] \in Unforked =>
          pc[l] \in Unforked /\ (init[l] = "none" => init'[l] = "none")
    /\ \A l \in Launch : init[l] = "reaped" => init'[l] = "reaped"

LEMMA EventTypes ==
    ASSUME TypeOK
    PROVE  /\ Len(events) \in Nat /\ DOMAIN events = 1..Len(events)
           /\ \A k \in DOMAIN events : events[k] # 0 => events[k] \in Launch
  BY BoundsAssumption DEF TypeOK, BusOK, Launch

LEMMA TailFacts ==
    ASSUME TypeOK, events # <<>>, events' = Tail(events)
    PROVE  \A k \in DOMAIN events' : k + 1 \in DOMAIN events /\ events'[k] = events[k + 1]
  BY EventTypes DEF TypeOK, BusOK

LEMMA TameExit ==
    ASSUME TypeOK, ExitInv, Tame,
           events' = events \/ (events # <<>> /\ events' = Tail(events))
    PROVE  ExitInv' /\ HandledStays
  <1>1. Forked'
    BY DEF ExitInv, Forked, Tame
  <1>2. CASE events' = events
    <2>1. ReportedOnce'
      BY <1>2, EventTypes DEF ExitInv, ReportedOnce, Tame
    <2>2. HandledStays
      BY <1>2 DEF HandledStays, Unhandled, Tame
    <2> QED
      BY <1>1, <2>1, <2>2 DEF ExitInv
  <1>3. CASE events # <<>> /\ events' = Tail(events)
    <2>1. \A k \in DOMAIN events' : k + 1 \in DOMAIN events /\ events'[k] = events[k + 1]
      BY <1>3, TailFacts
    <2>2. DOMAIN events' \subseteq Nat
      BY <1>3 DEF TypeOK, BusOK
    <2>3. ReportedOnce'
      <3> SUFFICES ASSUME NEW k \in DOMAIN events', events'[k] # 0
                   PROVE  /\ init'[events'[k]] = "reaped"
                          /\ \A j \in DOMAIN events' : events'[j] = events'[k] => j = k
        BY DEF ReportedOnce
      <3>1. events'[k] \in Launch /\ init[events'[k]] = "reaped"
        BY <2>1, EventTypes DEF ExitInv, ReportedOnce
      <3>2. \A j \in DOMAIN events' : events'[j] = events'[k] => j + 1 = k + 1
        BY <2>1 DEF ExitInv, ReportedOnce
      <3> QED
        BY <2>2, <3>1, <3>2 DEF Tame
    <2>4. HandledStays
      BY <2>1 DEF HandledStays, Unhandled, Tame
    <2> QED
      BY <1>1, <2>3, <2>4 DEF ExitInv
  <1> QED
    BY <1>2, <1>3

(* The reaper and the signal handler put an event at the end. *)
LEMMA AppendExit ==
    ASSUME TypeOK, ExitInv, NEW x \in 0..MaxLaunch, events' = Append(events, x),
           UNCHANGED pc, \A l \in Launch : l # x => init'[l] = init[l],
           x # 0 => init[x] = "zombie" /\ init'[x] = "reaped"
    PROVE  ExitInv' /\ HandledStays
  <1>1. /\ DOMAIN events' = DOMAIN events \cup {Len(events) + 1}
        /\ events'[Len(events) + 1] = x /\ Len(events) + 1 \notin DOMAIN events
        /\ \A k \in DOMAIN events : events'[k] = events[k]
    BY EventTypes DEF TypeOK, BusOK
  <1>2. x # 0 => x \in Launch
    BY BoundsAssumption DEF Launch
  <1>3. x # 0 => \A k \in DOMAIN events : events[k] # x
    BY <1>2 DEF ExitInv, ReportedOnce
  <1>4. Forked'
    BY <1>2, LaunchPositive DEF ExitInv, Forked
  <1>5. ReportedOnce'
    <2> SUFFICES ASSUME NEW k \in DOMAIN events', events'[k] # 0
                 PROVE  /\ init'[events'[k]] = "reaped"
                        /\ \A j \in DOMAIN events' : events'[j] = events'[k] => j = k
      BY DEF ReportedOnce
    <2>1. CASE k = Len(events) + 1
      BY <1>1, <1>3, <2>1
    <2>2. CASE k \in DOMAIN events
      <3>1. events[k] \in Launch /\ events'[k] = events[k] /\ init[events[k]] = "reaped"
        BY <1>1, <2>2, EventTypes DEF ExitInv, ReportedOnce
      <3>2. events[k] # x
        BY <1>3, <2>2, <3>1, LaunchPositive
      <3>3. \A j \in DOMAIN events' : events'[j] = events'[k] => j = k
        BY <1>1, <2>2, <3>1, <3>2 DEF ExitInv, ReportedOnce
      <3> QED
        BY <3>1, <3>2, <3>3
    <2> QED
      BY <1>1, <2>1, <2>2
  <1>6. HandledStays
    <2> SUFFICES ASSUME NEW l \in Launch, init[l] = "reaped",
                        \A k \in DOMAIN events : events[k] # l
                 PROVE  ~Unhandled(l)'
      BY DEF HandledStays, Unhandled
    <2>1. l # x
      BY LaunchPositive
    <2> QED
      BY <1>1, <2>1 DEF Unhandled
  <1> QED
    BY <1>4, <1>5, <1>6 DEF ExitInv

LEMMA ExitStep == Inv /\ ExitInv /\ [Next]_vars => ExitInv' /\ HandledStays
  <1> SUFFICES ASSUME Inv, ExitInv, [Next]_vars PROVE ExitInv' /\ HandledStays
    OBVIOUS
  <1> DEFINE Goal == ExitInv' /\ HandledStays
  <1> USE DEF user, start, procs, bus
  <1>0. TypeOK /\ pc \in [Launch -> PC] /\ init \in [Launch -> InitState]
    BY DEF Inv, TypeOK, StartOK, ProcsOK
  <1>1. ASSUME UNCHANGED <<pc, init, events>> PROVE Goal
    BY <1>0, <1>1, TameExit DEF Tame
  <1>2. ASSUME NEW l \in Launch, NEW q \in PC \ Unforked, Goto(l, q),
               UNCHANGED <<init, events>>
        PROVE  Goal
    BY <1>0, <1>2, TameExit DEF Tame, Goto
  <1>3. ASSUME next \in Launch, NEW k, NEW i, NEW at \in Unforked, Spawn(k, i, at),
               UNCHANGED <<init, events>>
        PROVE  Goal
    <2>1. pc[next] = "none"
      BY <1>3 DEF Inv, RefInv, Fresh, TypeOK, UserOK
    <2> QED
      BY <1>0, <1>3, <2>1, TameExit DEF Tame, Spawn, Unforked
  <1>4. ASSUME NEW l \in Launch, StartStep(l) \/ ForkFails(l) \/ SetupUserNSFails(l)
        PROVE  Goal
    <2> USE DEF At, Unforked, PC
    <2>1. CASE RootSpecPanics(l)
      BY <1>1, <2>1 DEF RootSpecPanics
    <2>2. CASE Fork(l)
      <3>1. init[l] = "none"
        BY <2>2 DEF Fork, ExitInv, Forked
      <3>2. Tame
        BY <1>0, <2>2, <3>1 DEF Fork, Goto, Tame
      <3> QED
        BY <1>0, <2>2, <3>2, TameExit DEF Fork
    <2>3. CASE SetupUserNS(l) \/ SendNamespaceFDs(l)
      <3>1. Tame
        BY <1>0, <2>3 DEF SetupUserNS, SendNamespaceFDs, Goto, Tame
      <3> QED
        BY <1>0, <2>3, <3>1, TameExit DEF SetupUserNS, SendNamespaceFDs
    <2>4. CASE TakeHandles(l)
      BY <1>2, <2>4 DEF TakeHandles
    <2>5. CASE InsertCreated(l)
      BY <1>2, <2>5 DEF InsertCreated
    <2>6. CASE Receive(l)
      BY <1>2, <2>6 DEF Receive
    <2>7. CASE NetworkConfig(l)
      BY <1>2, <2>7 DEF NetworkConfig
    <2>8. CASE InsertRunning(l)
      BY <1>2, <2>8 DEF InsertRunning
    <2>9. CASE SetIPC(l)
      <3>1. PICK q \in {"reinsert", "free", "done"} : Goto(l, q)
        BY <2>9 DEF SetIPC
      <3> QED
        BY <1>2, <2>9, <3>1 DEF SetIPC
    <2>10. CASE FreeBatchRoot(l) \/ Reinsert(l)
      BY <1>2, <2>10 DEF FreeBatchRoot, Reinsert
    <2>11. CASE ForkFails(l) \/ SetupUserNSFails(l)
      BY <1>2, <2>11 DEF ForkFails, SetupUserNSFails
    <2> QED
      BY <1>4, <2>1, <2>2, <2>3, <2>4, <2>5, <2>6, <2>7, <2>8, <2>9, <2>10, <2>11
      DEF StartStep
  <1>5. ASSUME NEW l \in Launch, \/ InitReady(l) \/ InitForks(l) \/ InitSends(l)
                                 \/ InitWaits(l) \/ InitReleased(l) \/ InitDies(l)
        PROVE  Goal
    <2>1. UNCHANGED <<pc, events>>
      BY <1>5
      DEF InitReady, InitForks, InitSends, InitWaits, InitReleased, InitDies
    <2>2. \E s \in Live : \E t : InitStep(l, s, t)
      BY <1>5
      DEF InitReady, InitForks, InitSends, InitWaits, InitReleased, InitDies, Live
    <2>3. Tame
      BY <1>0, <2>1, <2>2 DEF Tame, InitStep, Live
    <2> QED
      BY <1>0, <2>1, <2>3, TameExit
  <1>6. ASSUME NEW l \in Launch, Reap(l) PROVE Goal
    <2>1. /\ l \in 0..MaxLaunch /\ l # 0 /\ events' = Append(events, l) /\ UNCHANGED pc
          /\ init[l] = "zombie" /\ init' = [init EXCEPT ![l] = "reaped"]
      BY <1>6, BoundsAssumption DEF Reap, InitStep, Launch
    <2> QED
      BY <1>0, <2>1, AppendExit
  <1>7. ASSUME Signal PROVE Goal
    <2>1. 0 \in 0..MaxLaunch /\ events' = Append(events, 0) /\ UNCHANGED <<pc, init>>
      BY <1>7, BoundsAssumption DEF Signal
    <2> QED
      BY <1>0, <2>1, AppendExit
  <1>8. ASSUME NEW i, OnUnknownExit \/ OnContainerExit(i) PROVE Goal
    <2>1. /\ UNCHANGED <<pc, init>> /\ events # <<>> /\ events' = Tail(events)
      BY <1>8 DEF OnUnknownExit, OnContainerExit, Handling
    <2> QED
      BY <1>0, <2>1, TameExit DEF Tame
  <1>9. ASSUME OnSignal PROVE Goal
    <2>1. /\ UNCHANGED pc /\ events # <<>> /\ events' = Tail(events)
          /\ \A l \in Launch : init'[l] = init[l] \/ init[l] \in Live
      BY <1>9 DEF OnSignal, Handling
    <2> QED
      BY <1>0, <2>1, TameExit DEF Tame, Live
  <1>10. ASSUME NEW i, KillAttempt(i) PROVE Goal
    <2>1. /\ UNCHANGED <<pc, events>>
          /\ \A l \in Launch : init'[l] = init[l] \/ init[l] \in Live
      BY <1>0, <1>10 DEF KillAttempt, KillInit
    <2> QED
      BY <1>0, <2>1, TameExit DEF Tame, Live
  <1>11. CASE Command
    <2>1. ASSUME NEW c, NEW k, NewPod(c, k) PROVE Goal
      BY <1>3, <2>1 DEF NewPod, Unforked
    <2>2. ASSUME NEW p, NEW n, NEW i, \/ GetNextPodLetterPanics \/ NewJoiners(p, n)
                                      \/ RunInPod(p) \/ Forward(p) \/ KillPod(p) \/ KillOne(i)
          PROVE  Goal
      BY <1>1, <2>2
      DEF GetNextPodLetterPanics, NewJoiners, RunInPod, Forward, KillPod, KillOne
    <2> QED
      BY <1>11, <2>1, <2>2 DEF Command
  <1>12. CASE CliStep
    <2>1. CASE PlaceJoiner
      BY <1>3, <2>1 DEF PlaceJoiner, Unforked
    <2>2. CASE SpawnBatchJoiner
      BY <1>3, <2>2 DEF SpawnBatchJoiner, Unforked
    <2>3. CASE GetNextContainerIndex \/ KillRound \/ AddSession
      BY <1>1, <2>3 DEF GetNextContainerIndex, KillRound, AddSession
    <2> QED
      BY <1>10, <1>12, <2>1, <2>2, <2>3 DEF CliStep
  <1>13. CASE UNCHANGED vars
    BY <1>1, <1>13 DEF vars
  <1>14. ASSUME NEW l \in Launch, WorkloadExits(l) PROVE Goal
    BY <1>1, <1>14 DEF WorkloadExits
  <1>15. CASE Next
    BY <1>4, <1>5, <1>6, <1>7, <1>8, <1>9, <1>11, <1>12, <1>14, <1>15
    DEF Next, HandlerStep, ProcessStep, Fault
  <1> QED
    BY <1>13, <1>15

(* Kinds, names and commands: a joiner is one of a named pod. *)
Kinds ==
    \A l \in Launch :
        /\ pc[l] = "none" => kind[l] = "none"
        /\ IsCreator(l) => pc[l] \in Early \cup Inserted \cup {"failed"}
        /\ kind[l] \in Joiners => IsPod(id[l])
        /\ pc[l] # "none" => kind[l] \in Creators \cup Joiners

JoinCommand == cli.op \in {"index", "place", "runindex"} => cli.pod # 0

(* Nothing is started after a root before the root is. *)
Last == \A r \in Launch : Starts(r) => next = r + 1

PodHeld ==
    \A r \in Launch : IsCreator(r) /\ IsPod(id[r]) /\ pc[r] \in Inserted =>
        Holds(r) \/ LetGo(r)

Succeeded ==
    \A r, m \in Launch :
        IsCreator(r) /\ IsCreator(m) /\ r < m /\ id[r] = id[m] /\ IsPod(id[m]) => LetGo(r)

HandleLatest ==
    \A i \in DOMAIN handles : handles[i].owner # 0 =>
        \A r \in Launch : IsCreator(r) /\ id[r] = i /\ r > handles[i].owner =>
            pc[r] \notin Registered

PodInv == Kinds /\ JoinCommand /\ Last /\ PodHeld /\ Succeeded /\ HandleLatest /\ JoinsOwnPod

(* Started launches keep kind and name, failed ones stay failed. *)
Steady ==
    /\ \A l \in Launch : pc[l] # "none" => kind'[l] = kind[l] /\ id'[l] = id[l]
    /\ \A l \in Launch : pc[l] = "failed" => pc'[l] = "failed"

LEMMA LetGoStays ==
    ASSUME Kinds, Steady, HandledStays, NEW r \in Launch, IsCreator(r), LetGo(r)
    PROVE  LetGo(r)'
  <1>1. pc[r] # "none" /\ id'[r] = id[r]
    BY DEF Kinds, Steady, Early, Inserted, Registered
  <1>2. \A j \in Launch : kind[j] \in Joiners => kind'[j] = kind[j] /\ id'[j] = id[j]
    BY DEF Kinds, Steady, Joiners
  <1>3. CASE pc[r] = "failed"
    BY <1>3 DEF Steady, LetGo
  <1>4. CASE ~Unhandled(r)
    BY <1>4 DEF HandledStays, LetGo
  <1>5. CASE \E j \in Launch : kind[j] \in Joiners /\ id[j] = id[r]
    BY <1>1, <1>2, <1>5 DEF LetGo
  <1> QED
    BY <1>3, <1>4, <1>5 DEF LetGo

(* The roots of a pod a joiner may not enter, which a step that starts     *)
(* nothing leaves alone.                                                   *)
LEMMA KeptRoots ==
    ASSUME Kinds, Steady, HandledStays, UNCHANGED <<kind, id>>, Succeeded
    PROVE  Succeeded'
  BY LetGoStays DEF Succeeded, IsCreator

LEMMA KeptJoins ==
    ASSUME Kinds, Steady, HandledStays, UNCHANGED <<kind, id, grab>>, JoinsOwnPod
    PROVE  JoinsOwnPod'
  <1> SUFFICES ASSUME NEW l \in Launch, grab[l] # 0
               PROVE  /\ IsCreator(grab[l])'
                      /\ \A r \in 1..(l - 1) :
                            IsCreator(r)' /\ id[r] = RootID(id[l][1]) /\ r # grab[l] => LetGo(r)'
    BY DEF JoinsOwnPod
  <1>1. 1..(l - 1) \subseteq Launch
    BY BoundsAssumption DEF Launch
  <1> QED
    BY <1>1, LetGoStays DEF JoinsOwnPod, IsCreator

(* Steps that start nothing and leave tables and control points alone. *)
podVars == <<containers, handles, kind, id, grab, next, pc>>

LEMMA PodFrame ==
    ASSUME Inv, PodInv, HandledStays, UNCHANGED podVars, JoinCommand'
    PROVE  PodInv'
  <1> USE DEF podVars
  <1>1. Steady
    BY DEF Steady
  <1>2. Kinds' /\ Last' /\ HandleLatest'
    BY DEF PodInv, Kinds, Last, HandleLatest, Starts, IsCreator
  <1>3. PodHeld'
    BY <1>1, LetGoStays DEF PodInv, PodHeld, Holds, IsCreator
  <1> QED
    BY <1>1, <1>2, <1>3, KeptRoots, KeptJoins DEF PodInv

(* A launch that goes on. *)
Advances(l, q) ==
    /\ Goto(l, q) /\ UNCHANGED <<kind, id, next>>
    /\ q \in PC \ {"none"} /\ pc[l] \notin {"none", "done", "failed"}
    /\ IsCreator(l) => q \in Early \cup Inserted \cup {"failed"}
    /\ cli' = cli \/ cli' = Idle

LEMMA AdvanceFacts ==
    ASSUME Inv, PodInv, NEW l \in Launch, NEW q, Advances(l, q)
    PROVE  /\ pc'[l] = q /\ \A m \in Launch \ {l} : pc'[m] = pc[m]
           /\ Steady /\ Kinds' /\ JoinCommand' /\ Last'
           /\ \A m \in Launch : IsCreator(m)' <=> IsCreator(m)
  <1>1. pc'[l] = q /\ \A m \in Launch \ {l} : pc'[m] = pc[m]
    BY DEF Advances, Goto, Inv, TypeOK, StartOK
  <1>2. UNCHANGED <<kind, id, next>> /\ pc[l] \notin {"none", "done", "failed"} /\ q # "none"
    BY DEF Advances
  <1>3. Steady
    BY <1>1, <1>2 DEF Steady
  <1>4. Kinds'
    BY <1>1, <1>2 DEF Advances, PodInv, Kinds, IsCreator
  <1>5. Last'
    BY <1>1, <1>2 DEF PodInv, Last, Starts, IsCreator
  <1>6. JoinCommand'
    BY DEF Advances, PodInv, JoinCommand, Idle
  <1> QED
    BY <1>1, <1>2, <1>3, <1>4, <1>5, <1>6 DEF IsCreator

LEMMA AdvancePod ==
    ASSUME Inv, PodInv, HandledStays, NEW l \in Launch, NEW q, Advances(l, q),
           UNCHANGED <<containers, handles, grab>>,
           IsCreator(l) => /\ q \in Inserted => pc[l] \in Inserted
                           /\ q \in Registered => pc[l] \in Registered
    PROVE  PodInv'
  <1> USE AdvanceFacts
  <1>1. UNCHANGED <<kind, id>>
    BY DEF Advances
  <1>2. PodHeld'
    BY <1>1, LetGoStays DEF PodInv, PodHeld, Holds
  <1>3. HandleLatest'
    BY <1>1 DEF PodInv, HandleLatest
  <1> QED
    BY <1>1, <1>2, <1>3, KeptRoots, KeptJoins DEF PodInv

(* An entry goes into the table: a root that loses its place to a joiner   *)
(* has been let go, and it cannot lose it to a root.                       *)
LEMMA InsertPod ==
    ASSUME Inv, PodInv, HandledStays, NEW l \in Launch, NEW g, NEW q, Advances(l, q),
           Insert(id[l], [l |-> l, stage |-> g]),
           pc[l] \in {"created", "insert", "reinsert"},
           q \in Registered => pc[l] \in Registered,
           UNCHANGED <<handles, grab>>
    PROVE  PodInv'
  <1> DEFINE e == [l |-> l, stage |-> g]
  <1> USE AdvanceFacts
  <1>1. UNCHANGED <<kind, id>> /\ e.l = l
    BY DEF Advances
  <1>2. /\ DOMAIN containers' = DOMAIN containers \cup {id[l]}
        /\ containers'[id[l]].l = l
        /\ \A j \in DOMAIN containers \ {id[l]} : containers'[j] = containers[j]
    BY <1>1, InsertFacts
  <1> HIDE DEF e
  <1>3. PodHeld'
    <2> SUFFICES ASSUME NEW r \in Launch, IsCreator(r), IsPod(id[r]), pc'[r] \in Inserted
                 PROVE  Holds(r)' \/ LetGo(r)'
      BY <1>1 DEF PodHeld
    <2>1. CASE r = l
      BY <1>1, <1>2, <2>1 DEF Holds
    <2>2. CASE r # l /\ LetGo(r)
      BY <2>2, LetGoStays DEF PodInv
    <2>3. CASE r # l /\ Holds(r) /\ id[r] # id[l]
      BY <1>1, <1>2, <2>3 DEF Holds
    <2>4. CASE r # l /\ Holds(r) /\ id[r] = id[l]
      <3>1. ~IsCreator(l)
        BY <2>4 DEF Inv, ControlInv, SlotOwned, Starts
      <3>2. kind'[l] \in Joiners
        BY <1>1, <3>1 DEF PodInv, Kinds, IsCreator
      <3> QED
        BY <1>1, <2>4, <3>2 DEF LetGo
    <2> QED
      BY <2>1, <2>2, <2>3, <2>4 DEF PodInv, PodHeld
  <1>4. HandleLatest'
    BY <1>1 DEF PodInv, HandleLatest
  <1> QED
    BY <1>1, <1>3, <1>4, KeptRoots, KeptJoins DEF PodInv

(* The handles under the root's name are those of the latest root that has *)
(* any, and every root after it has failed.                                *)
LEMMA TakePod ==
    ASSUME Inv, PodInv, HandledStays, NEW l \in Launch, TakeHandles(l)
    PROVE  PodInv'
  <1> DEFINE i == FromContainer(l)
  <1>1. /\ pc[l] = "sendns" /\ UNCHANGED <<containers, kind, id, next, cli>>
    BY DEF TakeHandles, At, user
  <1>2. ~IsCreator(l) /\ kind[l] \in Joiners /\ IsPod(id[l])
    BY <1>1 DEF PodInv, Kinds, Early, Inserted, Registered, IsCreator
  <1>3. CASE ~(i \in DOMAIN handles /\ handles[i].owner # 0)
    <2>1. Advances(l, "created") /\ UNCHANGED <<handles, grab>>
      BY <1>1, <1>2, <1>3 DEF TakeHandles, Advances, PC
    <2> QED
      BY <1>1, <1>2, <2>1, AdvancePod
  <1>4. CASE i \in DOMAIN handles /\ handles[i].owner # 0
    <2>1. /\ Advances(l, "sendmsg")
          /\ handles' = [handles EXCEPT ![i] = CountRef(@)]
          /\ grab' = [grab EXCEPT ![l] = handles[i].owner]
      BY <1>1, <1>2, <1>4 DEF TakeHandles, Advances, PC
    <2>2. handles[i] \in Handle /\ handles[i].owner \in Launch
      BY <1>4 DEF Inv, TypeOK, TablesOK, Handle, Launch
    <2>3. /\ DOMAIN handles' = DOMAIN handles
          /\ \A j \in DOMAIN handles : handles'[j].owner = handles[j].owner
      BY <1>4, <2>1, <2>2 DEF CountRef, Inv, TypeOK, TablesOK, Handle
    <2>4. id[l] \in ID /\ i = RootID(id[l][1]) /\ i[1] = id[l][1]
      BY RootIDPart DEF FromContainer, Inv, TypeOK, StartOK
    <2> HIDE DEF i
    <2> DEFINE m == handles[i].owner
    <2>5. grab'[l] = m /\ \A x \in Launch \ {l} : grab'[x] = grab[x]
      BY <2>1 DEF Inv, TypeOK, StartOK
    <2>6. id[m] = i /\ IsCreator(m)
      BY <1>4, <2>2 DEF Inv, RefInv, HandleOpen, DescriptorOwner
    <2>7. \A r \in 1..(l - 1) : IsCreator(r) /\ id[r] = i /\ r # m => LetGo(r)
      <3> SUFFICES ASSUME NEW r \in 1..(l - 1), IsCreator(r), id[r] = i, r # m
                   PROVE  LetGo(r)
        OBVIOUS
      <3>1. r \in Launch /\ r \in Nat /\ l \in Nat /\ m \in Nat /\ r < l
        BY <2>2, BoundsAssumption DEF Launch
      <3>2. CASE r < m
        <4>1. IsPod(id[m])
          BY <1>2, <2>4, <2>6 DEF IsPod
        <4> QED
          BY <2>2, <2>6, <3>1, <3>2, <4>1 DEF PodInv, Succeeded
      <3>3. CASE r > m
        <4>1. pc[r] \notin Registered
          BY <1>4, <3>1, <3>3 DEF PodInv, HandleLatest
        <4>2. l < next
          BY <1>1, <3>1 DEF Inv, RefInv, Fresh, TypeOK, UserOK
        <4>3. ~Starts(r)
          BY <3>1, <4>2 DEF PodInv, Last, Inv, TypeOK, UserOK
        <4>4. pc[r] \in {"done", "failed"}
          BY <3>1, <4>3 DEF Starts, PodInv, Kinds, Early, Inserted, Registered
        <4> QED
          BY <4>1, <4>4 DEF Registered, LetGo
      <3> QED
        BY <3>1, <3>2, <3>3
    <2> HIDE DEF m
    <2> USE AdvanceFacts
    <2>8. JoinsOwnPod'
      <3> SUFFICES ASSUME NEW x \in Launch, grab'[x] # 0
                   PROVE  /\ IsCreator(grab'[x])
                          /\ \A r \in 1..(x - 1) :
                                IsCreator(r) /\ id[r] = RootID(id[x][1]) /\ r # grab'[x] => LetGo(r)'
        BY <1>1 DEF JoinsOwnPod, IsCreator
      <3>1. 1..(x - 1) \subseteq Launch
        BY BoundsAssumption DEF Launch
      <3>2. /\ IsCreator(grab'[x])
            /\ \A r \in 1..(x - 1) :
                  IsCreator(r) /\ id[r] = RootID(id[x][1]) /\ r # grab'[x] => LetGo(r)
        <4>1. CASE x = l
          BY <2>4, <2>5, <2>6, <2>7, <4>1
        <4>2. CASE x # l
          BY <2>5, <4>2 DEF PodInv, JoinsOwnPod
        <4> QED
          BY <4>1, <4>2
      <3>3. \A r \in Launch : IsCreator(r) /\ LetGo(r) => LetGo(r)'
        BY <2>1, LetGoStays DEF PodInv
      <3> QED
        BY <3>1, <3>2, <3>3
    <2>9. PodHeld'
      BY <1>1, <1>2, <2>1, LetGoStays DEF PodInv, PodHeld, Holds
    <2>10. HandleLatest'
      BY <1>1, <1>2, <2>1, <2>3 DEF PodInv, HandleLatest
    <2> QED
      BY <1>1, <2>1, <2>8, <2>9, <2>10, KeptRoots DEF PodInv
  <1> QED
    BY <1>3, <1>4

(* A root's handles replace those under its name; it is the latest one. *)
LEMMA ReceivePod ==
    ASSUME Inv, PodInv, HandledStays, NEW l \in Launch, Receive(l)
    PROVE  PodInv'
  <1> DEFINE q == IF IsCreator(l) THEN "net" ELSE "insert"
  <1>1. /\ pc[l] = "recv" /\ UNCHANGED <<containers, kind, id, grab, next, cli>>
        /\ Goto(l, q)
    BY DEF Receive, At, user
  <1>2. Advances(l, q) /\ q \in Inserted
    BY <1>1 DEF Advances, PC, Inserted, Registered
  <1> HIDE DEF q
  <1> USE AdvanceFacts
  <1>3. PodHeld'
    BY <1>1, <1>2, LetGoStays DEF PodInv, PodHeld, Holds, Inserted
  <1>4. HandleLatest'
    <2> SUFFICES ASSUME NEW i \in DOMAIN handles', handles'[i].owner # 0,
                        NEW r \in Launch, IsCreator(r), id[r] = i, r > handles'[i].owner
                 PROVE  pc'[r] \notin Registered
      BY <1>1, <1>2 DEF HandleLatest
    <2>1. CASE IsCreator(l) /\ i = id[l]
      <3>1. handles'[i].owner = l
        BY <2>1 DEF Receive, RegisterNamespaceHandles, Put
      <3>2. next = l + 1
        BY <1>1, <2>1 DEF PodInv, Last, Starts
      <3>3. r >= next
        BY <3>1, <3>2 DEF Launch
      <3>4. kind[r] = "none"
        BY <3>3 DEF Inv, RefInv, Fresh, PodInv, Kinds
      <3> QED
        BY <3>4 DEF IsCreator, Creators
    <2>2. CASE IsCreator(l) /\ i # id[l]
      <3>1. i \in DOMAIN handles /\ handles'[i] = handles[i] /\ r # l
        BY <2>2 DEF Receive, RegisterNamespaceHandles, Put
      <3> QED
        BY <1>2, <3>1 DEF PodInv, HandleLatest
    <2>3. CASE ~IsCreator(l)
      <3>1. i \in DOMAIN handles /\ handles'[i] = handles[i] /\ r # l
        BY <2>3 DEF Receive, RegisterNamespaceHandles, Put
      <3> QED
        BY <1>2, <3>1 DEF PodInv, HandleLatest
    <2> QED
      BY <2>1, <2>2, <2>3
  <1> QED
    BY <1>1, <1>2, <1>3, <1>4, KeptRoots, KeptJoins DEF PodInv

(* A joiner is started: a root whose place it takes has been let go. *)
LEMMA JoinerPod ==
    ASSUME Inv, PodInv, HandledStays, next \in Launch, NEW k \in Joiners, NEW i,
           NEW at \in {"fork", "nilroot"}, Spawn(k, i, at), IsPod(i),
           \A j \in DOMAIN containers \ {i} :
               j \in DOMAIN containers' /\ containers'[j] = containers[j],
           cli.op # "start", JoinCommand', UNCHANGED <<handles, grab>>
    PROVE  PodInv'
  <1>1. /\ \A l \in Launch \ {next} : pc'[l] = pc[l] /\ kind'[l] = kind[l] /\ id'[l] = id[l]
        /\ pc'[next] = at /\ kind'[next] = k /\ id'[next] = i
    BY DEF Spawn, Inv, TypeOK, StartOK
  <1>2. pc[next] = "none" /\ grab[next] = 0 /\ k \notin Creators
    BY NextUnused DEF Joiners, Creators
  <1>3. Steady
    BY <1>1, <1>2 DEF Steady
  <1>4. \A r \in Launch : IsCreator(r)' => r # next /\ IsCreator(r) /\ id'[r] = id[r]
    BY <1>1, <1>2 DEF IsCreator
  <1>5. \A r \in Launch : IsCreator(r) /\ LetGo(r) => LetGo(r)'
    BY <1>3, LetGoStays DEF PodInv
  <1>6. Kinds'
    BY <1>1, <1>2 DEF PodInv, Kinds, IsCreator
  <1>7. Last'
    BY <1>1, <1>4 DEF Last, Starts, Inv, ControlInv, OneCreator
  <1>8. PodHeld'
    <2> SUFFICES ASSUME NEW r \in Launch, IsCreator(r)', IsPod(id'[r]), pc'[r] \in Inserted
                 PROVE  Holds(r)' \/ LetGo(r)'
      BY DEF PodHeld
    <2>1. IsCreator(r) /\ r # next /\ id'[r] = id[r] /\ pc'[r] = pc[r]
      BY <1>1, <1>4
    <2>2. Holds(r) \/ LetGo(r)
      BY <2>1 DEF PodInv, PodHeld
    <2>3. CASE Holds(r) /\ id[r] = i
      BY <1>1, <2>1, <2>3 DEF LetGo
    <2>4. CASE Holds(r) /\ id[r] # i
      BY <2>1, <2>4 DEF Holds
    <2> QED
      BY <1>5, <2>1, <2>2, <2>3, <2>4
  <1>9. Succeeded'
    BY <1>4, <1>5 DEF PodInv, Succeeded
  <1>10. HandleLatest'
    BY <1>1, <1>4 DEF PodInv, HandleLatest
  <1>11. JoinsOwnPod'
    <2> SUFFICES ASSUME NEW l \in Launch, grab[l] # 0
                 PROVE  /\ IsCreator(grab[l])'
                        /\ \A r \in 1..(l - 1) :
                              IsCreator(r)' /\ id'[r] = RootID(id'[l][1]) /\ r # grab[l] => LetGo(r)'
      BY DEF JoinsOwnPod
    <2>1. l # next /\ id'[l] = id[l] /\ 1..(l - 1) \subseteq Launch
      BY <1>1, <1>2, BoundsAssumption DEF Launch
    <2>2. grab[l] \in Launch /\ grab[l] # next
      BY NextUnused DEF Taken, Inv, TypeOK, StartOK, Launch
    <2>3. IsCreator(grab[l])'
      BY <1>1, <2>2 DEF PodInv, JoinsOwnPod, IsCreator
    <2> QED
      BY <1>4, <1>5, <2>1, <2>3 DEF PodInv, JoinsOwnPod
  <1> QED
    BY <1>6, <1>7, <1>8, <1>9, <1>10, <1>11 DEF PodInv

(* A root is started: its letter is free, so the roots that had it before  *)
(* have been let go.                                                       *)
LEMMA CreatorPod ==
    ASSUME Inv, PodInv, HandledStays, NEW c, NEW k \in Creators, NewPod(c, k)
    PROVE  PodInv'
  <1>1. PICK p \in Pod : IsNextLetter(p) /\ Spawn(k, RootID(p), "fork")
    BY DEF NewPod
  <1>2. /\ cli.op = "idle" /\ next \in Launch /\ UNCHANGED <<containers, handles, grab>>
        /\ cli' = [cli EXCEPT !.op = "start"] /\ next' = next + 1
    BY <1>1 DEF NewPod, Doing, table, Spawn
  <1>3. /\ \A l \in Launch \ {next} : pc'[l] = pc[l] /\ kind'[l] = kind[l] /\ id'[l] = id[l]
        /\ pc'[next] = "fork" /\ kind'[next] = k /\ id'[next] = RootID(p)
    BY <1>1, <1>2 DEF Spawn, Inv, TypeOK, StartOK
  <1>4. pc[next] = "none" /\ grab[next] = 0 /\ k \notin Joiners
    BY <1>2, NextUnused DEF Joiners, Creators
  <1>5. Steady
    BY <1>3, <1>4 DEF Steady
  <1>6. \A r \in Launch : IsCreator(r)' => r = next \/ (IsCreator(r) /\ id'[r] = id[r])
    BY <1>3 DEF IsCreator
  <1>7. \A r \in Launch : IsCreator(r) /\ LetGo(r) => LetGo(r)'
    BY <1>5, LetGoStays DEF PodInv
  <1>8. \A r \in Launch : ~Starts(r)
    BY <1>2 DEF Inv, ControlInv, OneCreator
  <1>9. \A l \in Launch : l > next => pc[l] = "none" /\ ~IsCreator(l) /\ grab[l] = 0
    <2> SUFFICES ASSUME NEW l \in Launch, l > next
                 PROVE  pc[l] = "none" /\ ~IsCreator(l) /\ grab[l] = 0
      OBVIOUS
    <2>1. pc[l] = "none"
      BY <1>2 DEF Inv, RefInv, Fresh, Launch
    <2> QED
      BY <2>1 DEF PodInv, Kinds, IsCreator, Creators, Inv, ShareInv, Ungrabbed
  <1>10. Kinds'
    BY <1>3, <1>4 DEF PodInv, Kinds, IsCreator, Early
  <1>11. JoinCommand'
    BY <1>2 DEF JoinCommand, Inv, TypeOK, UserOK, CliType
  <1>12. Last'
    BY <1>2, <1>3, <1>8 DEF Last, Starts, IsCreator
  <1>13. PodHeld'
    <2> SUFFICES ASSUME NEW r \in Launch, IsCreator(r)', IsPod(id'[r]), pc'[r] \in Inserted
                 PROVE  Holds(r)' \/ LetGo(r)'
      BY DEF PodHeld
    <2>1. r # next
      BY <1>3 DEF Inserted, Registered
    <2> QED
      BY <1>2, <1>3, <1>6, <1>7, <2>1 DEF PodInv, PodHeld, Holds
  <1>14. Succeeded'
    <2> SUFFICES ASSUME NEW r \in Launch, NEW m \in Launch, IsCreator(r)', IsCreator(m)',
                        r < m, id'[r] = id'[m], IsPod(id'[m])
                 PROVE  LetGo(r)'
      BY DEF Succeeded
    <2>1. r \in Nat /\ m \in Nat /\ next \in Nat
      BY <1>2, BoundsAssumption DEF Launch
    <2>2. CASE m = next
      <3>1. IsCreator(r) /\ id[r] = RootID(p) /\ r # next
        BY <1>3, <1>6, <2>1, <2>2
      <3>2. p # 0 /\ Members(containers, p) = {}
        BY <1>1, <1>3, <2>2, RootIDPart DEF IsPod, IsNextLetter
      <3>3. ~Holds(r)
        BY <3>1, <3>2, RootIDPart DEF Holds, Members
      <3>4. pc[r] \in {"done", "failed"}
        BY <1>8, <3>1 DEF Starts, PodInv, Kinds, Early, Inserted, Registered
      <3>5. CASE pc[r] = "done"
        <4>1. IsPod(id[r])
          BY <3>1, <3>2, RootIDPart DEF IsPod
        <4>2. LetGo(r)
          BY <3>1, <3>3, <3>5, <4>1 DEF PodInv, PodHeld, Inserted, Registered
        <4> QED
          BY <1>7, <3>1, <4>2
      <3>6. CASE pc[r] = "failed"
        BY <1>7, <3>1, <3>6 DEF LetGo
      <3> QED
        BY <3>4, <3>5, <3>6
    <2>3. CASE m # next
      <3>1. IsCreator(m) /\ id'[m] = id[m]
        BY <1>6, <2>3
      <3>2. r # next
        BY <1>9, <2>1, <3>1
      <3> QED
        BY <1>6, <1>7, <3>1, <3>2 DEF PodInv, Succeeded
    <2> QED
      BY <2>2, <2>3
  <1>15. HandleLatest'
    <2> SUFFICES ASSUME NEW i \in DOMAIN handles, handles[i].owner # 0, NEW r \in Launch,
                        IsCreator(r)', id'[r] = i, r > handles[i].owner
                 PROVE  pc'[r] \notin Registered
      BY <1>2 DEF HandleLatest
    <2>1. CASE r = next
      BY <1>3, <2>1 DEF Registered
    <2>2. CASE r # next
      BY <1>3, <1>6, <2>2 DEF PodInv, HandleLatest
    <2> QED
      BY <2>1, <2>2
  <1>16. JoinsOwnPod'
    <2> SUFFICES ASSUME NEW l \in Launch, grab[l] # 0
                 PROVE  /\ IsCreator(grab[l])'
                        /\ \A r \in 1..(l - 1) :
                              IsCreator(r)' /\ id'[r] = RootID(id'[l][1]) /\ r # grab[l] => LetGo(r)'
      BY <1>2 DEF JoinsOwnPod
    <2>1. l # next /\ ~(l > next) /\ id'[l] = id[l]
      BY <1>3, <1>4, <1>9
    <2>2. \A r \in 1..(l - 1) : r \in Launch /\ r # next
      BY <1>2, <2>1, BoundsAssumption DEF Launch
    <2>3. grab[l] \in Launch /\ grab[l] # next
      BY <1>2, NextUnused DEF Taken, Inv, TypeOK, StartOK, Launch
    <2>4. IsCreator(grab[l])'
      BY <1>2, <1>3, <2>3 DEF PodInv, JoinsOwnPod, IsCreator
    <2> QED
      BY <1>6, <1>7, <2>1, <2>2, <2>4 DEF PodInv, JoinsOwnPod
  <1> QED
    BY <1>10, <1>11, <1>12, <1>13, <1>14, <1>15, <1>16 DEF PodInv

(* The root that leaves the table is the one whose exit is being handled. *)
LEMMA ExitPod ==
    ASSUME Inv, PodInv, ExitInv, HandledStays, NEW i, OnContainerExit(i)
    PROVE  PodInv'
  <1>1. /\ UNCHANGED <<kind, id, grab, next, pc, cli, init>>
        /\ i \in DOMAIN containers /\ containers[i].l = Head(events)
        /\ Head(events) # 0 /\ events # <<>> /\ events' = Tail(events)
        /\ handles' = Del(handles, i) /\ containers' = Del(containers, i)
    BY DEF OnContainerExit, Listed, Handling, DropHandles, user, start, procs
  <1>2. /\ DOMAIN containers' = DOMAIN containers \ {i}
        /\ \A j \in DOMAIN containers' : containers'[j] = containers[j]
        /\ DOMAIN handles' = DOMAIN handles \ {i}
        /\ \A j \in DOMAIN handles' : handles'[j] = handles[j]
    BY <1>1 DEF Del
  <1>3. Steady
    BY <1>1 DEF Steady
  <1>4. \A r \in Launch : IsCreator(r) /\ LetGo(r) => LetGo(r)'
    BY <1>3, LetGoStays DEF PodInv
  <1>5. ASSUME NEW r \in Launch, r = Head(events) PROVE LetGo(r)'
    <2>1. 1 \in DOMAIN events /\ events[1] = r /\ DOMAIN events' \subseteq Nat \ {0}
      BY <1>1, <1>5 DEF Inv, TypeOK, BusOK
    <2>2. init[r] = "reaped" /\ \A j \in DOMAIN events : events[j] = r => j = 1
      BY <2>1, LaunchPositive DEF ExitInv, ReportedOnce
    <2>3. \A k \in DOMAIN events' : events'[k] # r
      <3>1. \A k \in DOMAIN events' : k + 1 \in DOMAIN events /\ events'[k] = events[k + 1]
        BY <1>1, TailFacts DEF Inv
      <3> QED
        BY <2>1, <2>2, <3>1
    <2> QED
      BY <1>1, <2>2, <2>3 DEF LetGo, Unhandled
  <1>6. Kinds' /\ JoinCommand' /\ Last'
    BY <1>1 DEF PodInv, Kinds, JoinCommand, Last, Starts, IsCreator
  <1>7. PodHeld'
    <2> SUFFICES ASSUME NEW r \in Launch, IsCreator(r), IsPod(id[r]), pc[r] \in Inserted
                 PROVE  Holds(r)' \/ LetGo(r)'
      BY <1>1 DEF PodHeld, IsCreator
    <2>1. CASE Holds(r) /\ id[r] = i
      BY <1>1, <1>5, <2>1 DEF Holds
    <2>2. CASE Holds(r) /\ id[r] # i
      BY <1>1, <1>2, <2>2 DEF Holds
    <2> QED
      BY <1>4, <2>1, <2>2 DEF PodInv, PodHeld
  <1>8. HandleLatest'
    BY <1>1, <1>2 DEF PodInv, HandleLatest, IsCreator
  <1> QED
    BY <1>1, <1>3, <1>6, <1>7, <1>8, KeptRoots, KeptJoins DEF PodInv

LEMMA PodStep == Inv /\ ExitInv /\ PodInv /\ [Next]_vars => PodInv'
  <1> SUFFICES ASSUME Inv, ExitInv, PodInv, [Next]_vars PROVE PodInv'
    OBVIOUS
  <1> USE DEF table, user, start, res
  <1>0. HandledStays
    BY ExitStep
  <1>1. ASSUME UNCHANGED podVars, UNCHANGED cli PROVE PodInv'
    <2>1. JoinCommand'
      BY <1>1 DEF PodInv, JoinCommand
    <2> QED
      BY <1>0, <1>1, <2>1, PodFrame
  <1>2. ASSUME NEW l \in Launch, StartStep(l) \/ ForkFails(l) \/ SetupUserNSFails(l)
        PROVE  PodInv'
    <2> USE DEF At
    <2>1. CASE RootSpecPanics(l)
      BY <1>1, <2>1 DEF RootSpecPanics, podVars
    <2>2. CASE Fork(l)
      <3>1. PICK q \in {"userns", "sendns"} : Goto(l, q) /\ (IsCreator(l) => q = "userns")
        BY <2>2 DEF Fork
      <3>2. Advances(l, q)
        BY <2>2, <3>1 DEF Fork, Advances, PC, Early
      <3> QED
        BY <1>0, <2>2, <3>1, <3>2, AdvancePod DEF Fork, Inserted, Registered
    <2>3. CASE ForkFails(l) \/ SetupUserNSFails(l)
      <3>1. Advances(l, "failed")
        BY <2>3 DEF ForkFails, SetupUserNSFails, Return, Advances, PC
      <3> QED
        BY <1>0, <2>3, <3>1, AdvancePod
        DEF ForkFails, SetupUserNSFails, Inserted, Registered
    <2>4. CASE SetupUserNS(l) \/ SendNamespaceFDs(l)
      <3>1. Advances(l, "created")
        BY <2>4 DEF SetupUserNS, SendNamespaceFDs, Advances, PC, Early
      <3> QED
        BY <1>0, <2>4, <3>1, AdvancePod
        DEF SetupUserNS, SendNamespaceFDs, Inserted, Registered
    <2>5. CASE TakeHandles(l)
      BY <1>0, <2>5, TakePod
    <2>6. CASE Receive(l)
      BY <1>0, <2>6, ReceivePod
    <2>7. CASE NetworkConfig(l)
      <3>1. Advances(l, "insert")
        BY <2>7 DEF NetworkConfig, Advances, PC, Inserted, Registered
      <3> QED
        BY <1>0, <2>7, <3>1, AdvancePod DEF NetworkConfig, Inserted, Registered
    <2>8. CASE SetIPC(l)
      <3>1. PICK q \in {"reinsert", "free", "done"} : Goto(l, q)
        BY <2>8 DEF SetIPC
      <3>2. Advances(l, q)
        BY <2>8, <3>1 DEF SetIPC, Advances, PC, Inserted, Registered
      <3> QED
        BY <1>0, <2>8, <3>2, AdvancePod DEF SetIPC, Inserted, Registered
    <2>9. CASE FreeBatchRoot(l)
      <3>1. Advances(l, "reinsert")
        BY <2>9 DEF FreeBatchRoot, Advances, PC, Inserted, Registered
      <3> QED
        BY <1>0, <2>9, <3>1, AdvancePod DEF FreeBatchRoot, Inserted, Registered
    <2>10. CASE InsertCreated(l)
      <3>1. Advances(l, "recv")
        BY <2>10 DEF InsertCreated, Advances, PC, Inserted
      <3> QED
        BY <1>0, <2>10, <3>1, InsertPod DEF InsertCreated, Registered
    <2>11. CASE InsertRunning(l)
      <3>1. Advances(l, "ipc")
        BY <2>11 DEF InsertRunning, Advances, PC, Inserted, Registered
      <3> QED
        BY <1>0, <2>11, <3>1, InsertPod DEF InsertRunning, Registered
    <2>12. CASE Reinsert(l)
      <3>1. Advances(l, "done")
        BY <2>12 DEF Reinsert, Return, Advances, PC, Inserted, Registered
      <3> QED
        BY <1>0, <2>12, <3>1, InsertPod DEF Reinsert, Registered
    <2> QED
      BY <1>2, <2>1, <2>2, <2>3, <2>4, <2>5, <2>6, <2>7, <2>8, <2>9, <2>10, <2>11, <2>12
      DEF StartStep
  <1>3. CASE UNCHANGED vars
    BY <1>1, <1>3 DEF vars, podVars
  <1>4. ASSUME NEW l \in Launch, \/ ProcessStep(l) \/ Reap(l) \/ WorkloadExits(l) \/ InitDies(l)
        PROVE  PodInv'
    BY <1>1, <1>4
    DEF ProcessStep, InitReady, InitForks, InitSends, InitWaits, InitReleased, InitDies,
        Reap, WorkloadExits, podVars
  <1>5. ASSUME Signal \/ OnSignal \/ OnUnknownExit PROVE PodInv'
    BY <1>1, <1>5 DEF Signal, OnSignal, OnUnknownExit, podVars
  <1>6. CASE HandlerStep
    BY <1>0, <1>5, <1>6, ExitPod DEF HandlerStep
  <1>7. cli \in CliType
    BY DEF Inv, TypeOK, UserOK
  <1>8. CASE Command
    <2>1. ASSUME NEW c, NEW k \in Creators, NewPod(c, k) PROVE PodInv'
      BY <1>0, <2>1, CreatorPod
    <2>2. ASSUME NEW p \in 1..NumLetters, NEW n, NewJoiners(p, n) \/ RunInPod(p) \/ Forward(p)
          PROVE  PodInv'
      <3>1. UNCHANGED podVars
        BY <2>2 DEF NewJoiners, RunInPod, Forward, podVars
      <3>2. cli'.op = "forward" \/ cli'.pod = p
        BY <1>7, <2>2 DEF NewJoiners, RunInPod, Forward, CliType
      <3>3. JoinCommand'
        BY <3>2 DEF JoinCommand
      <3> QED
        BY <1>0, <3>1, <3>3, PodFrame
    <2>3. ASSUME NEW p, NEW i, KillPod(p) \/ KillOne(i) PROVE PodInv'
      <3>1. UNCHANGED podVars
        BY <2>3 DEF KillPod, KillOne, podVars
      <3>2. cli'.op \in {"round", "killone"}
        BY <1>7, <2>3 DEF KillPod, KillOne, CliType
      <3>3. JoinCommand'
        BY <3>2 DEF JoinCommand
      <3> QED
        BY <1>0, <3>1, <3>3, PodFrame
    <2>4. CASE GetNextPodLetterPanics
      BY <1>1, <2>4 DEF GetNextPodLetterPanics, podVars
    <2> QED
      BY <1>8, <2>1, <2>2, <2>3, <2>4 DEF Command, Creators
  <1>9. CASE CliStep
    <2>1. CASE PlaceJoiner
      <3> DEFINE i == <<cli.pod, cli.idx>>
                 at == IF cli.nilRoot THEN "nilroot" ELSE "fork"
      <3>1. /\ at \in {"fork", "nilroot"} /\ next \in Launch /\ cli.op = "place"
            /\ Spawn("joiner", i, at) /\ "joiner" \in Joiners
            /\ Insert(i, Placeholder) /\ UNCHANGED <<handles, grab>>
        BY <2>1 DEF PlaceJoiner, Doing, Joiners
      <3>2. IsPod(i) /\ cli.pod # 0
        BY <3>1 DEF PodInv, JoinCommand, IsPod
      <3>3. JoinCommand'
        <4>1. cli' = Idle \/ cli'.pod = cli.pod
          BY <1>7, <2>1 DEF PlaceJoiner, CliType
        <4> QED
          BY <3>2, <4>1 DEF JoinCommand, Idle
      <3> HIDE DEF i, at
      <3>4. \A j \in DOMAIN containers \ {i} :
               j \in DOMAIN containers' /\ containers'[j] = containers[j]
        BY <3>1, InsertFacts
      <3> QED
        BY <1>0, <3>1, <3>2, <3>3, <3>4, JoinerPod
    <2>2. CASE SpawnBatchJoiner
      <3> DEFINE i == <<cli.pod, NextIndex(cli.pod)>>
                 at == IF cli.nilRoot THEN "nilroot" ELSE "fork"
      <3>1. /\ at \in {"fork", "nilroot"} /\ next \in Launch /\ cli.op = "runindex"
            /\ Spawn("batchJoiner", i, at) /\ "batchJoiner" \in Joiners
            /\ UNCHANGED <<containers, handles, grab>> /\ cli' = Idle
        BY <2>2 DEF SpawnBatchJoiner, Doing, Joiners
      <3>2. IsPod(i)
        BY <3>1 DEF PodInv, JoinCommand, IsPod
      <3>3. JoinCommand'
        BY <3>1 DEF JoinCommand, Idle
      <3> HIDE DEF i, at
      <3> QED
        BY <1>0, <3>1, <3>2, <3>3, JoinerPod
    <2>3. CASE GetNextContainerIndex
      <3>1. UNCHANGED podVars /\ cli.op = "index"
        BY <2>3 DEF GetNextContainerIndex, podVars, Doing
      <3>2. cli'.pod = cli.pod
        BY <1>7, <2>3 DEF GetNextContainerIndex, CliType
      <3>3. JoinCommand'
        BY <3>1, <3>2 DEF PodInv, JoinCommand
      <3> QED
        BY <1>0, <3>1, <3>3, PodFrame
    <2>4. ASSUME NEW i, KillRound \/ AddSession \/ KillAttempt(i) PROVE PodInv'
      <3>1. UNCHANGED podVars /\ cli.op \in {"round", "forward", "kill", "killone"}
        BY <2>4 DEF KillRound, AddSession, KillAttempt, podVars, Doing
      <3>2. cli' = Idle => cli'.op \notin {"index", "place", "runindex"}
        BY DEF Idle
      <3>3. cli' = KillList(Members(containers, cli.pod)) => cli'.op \notin {"index", "place", "runindex"}
        BY <1>7 DEF KillList, CliType
      <3>4. cli' = KillRetry(i) => cli'.op \notin {"index", "place", "runindex"}
        BY <1>7, <3>1 DEF KillRetry, CliType
      <3>5. cli' = KilledNext(i) => cli'.op \notin {"index", "place", "runindex"}
        BY <1>7, <3>1 DEF KilledNext, Idle, CliType
      <3>6. cli'.op \notin {"index", "place", "runindex"}
        BY <2>4, <3>2, <3>3, <3>4, <3>5 DEF KillRound, AddSession, KillAttempt
      <3>7. JoinCommand'
        BY <3>6 DEF JoinCommand
      <3> QED
        BY <1>0, <3>1, <3>7, PodFrame
    <2> QED
      BY <1>9, <2>1, <2>2, <2>3, <2>4 DEF CliStep
  <1>10. CASE Next
    BY <1>2, <1>4, <1>5, <1>6, <1>8, <1>9, <1>10 DEF Next, Fault
  <1> QED
    BY <1>3, <1>10

\* A joiner looks its handles up by a name that another root may have by then:
\* it enters that root's pod only if every other root that had the letter before
\* the joiner was started has been let go (orchestrator.go:115).
THEOREM JoinersInOwnPod == Spec => []JoinsOwnPod
  <1>1. Init => ExitInv /\ PodInv
    <2> SUFFICES ASSUME Init PROVE ExitInv /\ PodInv
      OBVIOUS
    <2>1. DOMAIN handles = {} /\ DOMAIN events = {} /\ cli.op = "idle"
      BY DEF Init, Idle
    <2>2. \A l \in Launch : /\ pc[l] = "none" /\ kind[l] = "none" /\ init[l] = "none"
                            /\ grab[l] = 0 /\ ~IsCreator(l)
      BY DEF Init, IsCreator, Creators
    <2>3. ExitInv
      BY <2>1, <2>2 DEF ExitInv, Forked, ReportedOnce
    <2>4. Kinds /\ JoinCommand /\ Last
      BY <2>1, <2>2 DEF Kinds, JoinCommand, Last, Starts, Joiners
    <2>5. PodHeld /\ Succeeded /\ HandleLatest /\ JoinsOwnPod
      BY <2>1, <2>2 DEF PodHeld, Succeeded, HandleLatest, JoinsOwnPod
    <2> QED
      BY <2>3, <2>4, <2>5 DEF PodInv
  <1>2. Inv /\ ExitInv /\ PodInv /\ [Next]_vars => ExitInv' /\ PodInv'
    BY ExitStep, PodStep
  <1>3. PodInv => JoinsOwnPod
    BY DEF PodInv
  <1> QED
    BY <1>1, <1>2, <1>3, TablesAccount, PTL DEF Spec
=============================================================================

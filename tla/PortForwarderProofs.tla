------------------------ MODULE PortForwarderProofs ------------------------
(***************************************************************************)
(* Proofs about PortForwarder, for every set of sessions, pods and ports.  *)
(*                                                                         *)
(* The properties speak of sessions whose listener is open.  They are not  *)
(* inductive by themselves: that a session cannot be lost a third way      *)
(* rests on when its goroutines exist, on where it can be listed, and on a *)
(* stopper that is done having closed the listener.                        *)
(***************************************************************************)
EXTENDS PortForwarder, TLAPS

(* Before PortForward returns a session has neither listener nor stopper,  *)
(* and a stopper that is done has closed the listener.                     *)
Goroutines ==
    \A s \in Session :
        /\ at[s] \in {"none", "listen", "failed"} =>
              listener[s] = "none" /\ stopper[s] = "none"
        /\ stopper[s] = "done" => listener[s] = "closed"

(* A session is listed under its own pod only, and only by AddSession. *)
ListedOnce ==
    \A s \in Session, p \in Pod : s \in sessions[p] => pod[s] = p /\ at[s] = "listed"

(* A session leaves the list only by a cleanup that signals it. *)
Signalling ==
    \A s \in Session : at[s] = "listed" =>
        s \in sessions[pod[s]] \/ stopper[s] \in {"told", "done"} \/ s \in dropped

Inv == TypeOK /\ Goroutines /\ ListedOnce /\ Signalling /\ ListedUnderLivePod

LEMMA InitInv == Init => Inv
  BY ForwarderAssumption
  DEF Init, Inv, TypeOK, Goroutines, ListedOnce, Signalling, ListedUnderLivePod

(* No two listeners are given the same port: net.Listen refuses one in use, *)
(* and a session's port is chosen before it has a listener.                *)
LEMMA TypeStep == Inv /\ [Next]_vars => TypeOK'
  <1> SUFFICES ASSUME Inv, [Next]_vars PROVE TypeOK'
    OBVIOUS
  <1> USE ForwarderAssumption DEF Inv, TypeOK
  <1>1. ASSUME NEW s \in Session, NEW p \in Pod, NEW q \in Port, Check(s, p, q)
        PROVE  TypeOK'
    BY <1>1 DEF Check, Goroutines
  <1>2. ASSUME NEW s \in Session, PortForward(s) PROVE TypeOK'
    BY <1>2 DEF PortForward, CanListen, PortInUse
  <1>3. ASSUME NEW s \in Session, PortForwardFails(s) PROVE TypeOK'
    BY <1>3 DEF PortForwardFails
  <1>4. ASSUME NEW s \in Session, AddSession(s) PROVE TypeOK'
    BY <1>4 DEF AddSession
  <1>5. ASSUME NEW s \in Session, StopperWaits(s) PROVE TypeOK'
    BY <1>5 DEF StopperWaits
  <1>6. ASSUME NEW s \in Session, StopperCloses(s) PROVE TypeOK'
    BY <1>6 DEF StopperCloses, Closed
  <1>7. ASSUME NEW s \in Session, AcceptFails(s) PROVE TypeOK'
    BY <1>7 DEF AcceptFails
  <1>8. ASSUME NEW p \in Pod, PodStarts(p) PROVE TypeOK'
    BY <1>8 DEF PodStarts
  <1>9. ASSUME NEW p \in Pod, CleanupForward(p) PROVE TypeOK'
    BY <1>9 DEF CleanupForward, Signalled, Unlisted
  <1>10. CASE UNCHANGED vars
    BY <1>10 DEF vars
  <1> QED
    BY <1>1, <1>2, <1>3, <1>4, <1>5, <1>6, <1>7, <1>8, <1>9, <1>10
    DEF Next, Goroutine

LEMMA GoroutinesStep == Inv /\ [Next]_vars => Goroutines'
  <1> SUFFICES ASSUME Inv, [Next]_vars PROVE Goroutines'
    OBVIOUS
  <1> USE DEF Inv, TypeOK, Goroutines
  <1>1. ASSUME NEW s \in Session, NEW p \in Pod, NEW q \in Port, Check(s, p, q)
        PROVE  Goroutines'
    BY <1>1 DEF Check
  <1>2. ASSUME NEW s \in Session, PortForward(s) PROVE Goroutines'
    BY <1>2 DEF PortForward
  <1>3. ASSUME NEW s \in Session, PortForwardFails(s) PROVE Goroutines'
    BY <1>3 DEF PortForwardFails
  <1>4. ASSUME NEW s \in Session, AddSession(s) PROVE Goroutines'
    BY <1>4 DEF AddSession
  <1>5. ASSUME NEW s \in Session, StopperWaits(s) PROVE Goroutines'
    BY <1>5 DEF StopperWaits
  <1>6. ASSUME NEW s \in Session, StopperCloses(s) PROVE Goroutines'
    BY <1>6 DEF StopperCloses, Closed
  <1>7. ASSUME NEW s \in Session, AcceptFails(s) PROVE Goroutines'
    BY <1>7 DEF AcceptFails
  <1>8. ASSUME NEW p \in Pod, PodStarts(p) PROVE Goroutines'
    BY <1>8 DEF PodStarts
  <1>9. ASSUME NEW p \in Pod, CleanupForward(p) PROVE Goroutines'
    BY <1>9 DEF CleanupForward, Signalled, ListedOnce
  <1>10. CASE UNCHANGED vars
    BY <1>10 DEF vars
  <1> QED
    BY <1>1, <1>2, <1>3, <1>4, <1>5, <1>6, <1>7, <1>8, <1>9, <1>10
    DEF Next, Goroutine

(* Only Check, AddSession and CleanupForward touch the list or what it is  *)
(* compared with; Check does so for a session that is not listed anywhere. *)
LEMMA ListStep ==
    Inv /\ [Next]_vars => ListedOnce' /\ Signalling' /\ ListedUnderLivePod'
  <1> DEFINE Listing == ListedOnce /\ Signalling /\ ListedUnderLivePod
  <1> SUFFICES ASSUME Inv, [Next]_vars PROVE Listing'
    OBVIOUS
  <1> USE DEF Inv, TypeOK, ListedOnce, Signalling, ListedUnderLivePod
  <1>1. ASSUME NEW s \in Session, NEW p \in Pod, NEW q \in Port, Check(s, p, q)
        PROVE  Listing'
    BY <1>1 DEF Check
  <1>2. ASSUME NEW s \in Session, PortForward(s) PROVE Listing'
    BY <1>2 DEF PortForward
  <1>3. ASSUME NEW s \in Session, PortForwardFails(s) PROVE Listing'
    BY <1>3 DEF PortForwardFails
  <1>4. ASSUME NEW s \in Session, AddSession(s) PROVE Listing'
    BY <1>4 DEF AddSession
  <1>5. ASSUME NEW s \in Session, StopperWaits(s) PROVE Listing'
    BY <1>5 DEF StopperWaits
  <1>6. ASSUME NEW s \in Session, StopperCloses(s) PROVE Listing'
    BY <1>6 DEF StopperCloses
  <1>7. ASSUME NEW s \in Session, AcceptFails(s) PROVE Listing'
    BY <1>7 DEF AcceptFails
  <1>8. ASSUME NEW p \in Pod, PodStarts(p) PROVE Listing'
    BY <1>8 DEF PodStarts
  <1>9. ASSUME NEW p \in Pod, CleanupForward(p) PROVE Listing'
    BY <1>9 DEF CleanupForward, Signalled, Unlisted
  <1>10. CASE UNCHANGED vars
    BY <1>10 DEF vars
  <1> QED
    BY <1>1, <1>2, <1>3, <1>4, <1>5, <1>6, <1>7, <1>8, <1>9, <1>10
    DEF Next, Goroutine

\* The inductive invariant of port forwarding holds in every reachable state.
THEOREM ForwarderInvariant == Spec => []Inv
  <1>1. Inv /\ [Next]_vars => Inv'
    BY TypeStep, GoroutinesStep, ListStep DEF Inv
  <1> QED
    BY InitInv, <1>1, PTL DEF Spec

\* Every variable of the port forwarder has its type, and no two sessions listen
\* on the same host port, however many commands are typed.
THEOREM PortsDistinct == Spec => []TypeOK
  <1>1. Inv => TypeOK
    BY DEF Inv
  <1> QED
    BY ForwarderInvariant, <1>1, PTL

\* A listener that is open and not listed is still being added, was told to
\* close, or had its stop sent while its stopper did not wait: CleanupForward's
\* non-blocking send is the only way to lose one.
THEOREM NoOtherLoss == Spec => []LostOnlyByRace
  <1>1. Inv => LostOnlyByRace
    BY DEF Inv, TypeOK, Goroutines, Signalling, LostOnlyByRace
  <1> QED
    BY ForwarderInvariant, <1>1, PTL

\* A session listed for a pod that is gone was listed after the pod's cleanup.
THEOREM DeadPodsListNothing == Spec => []ListedUnderLivePod
  <1>1. Inv => ListedUnderLivePod
    BY DEF Inv
  <1> QED
    BY ForwarderInvariant, <1>1, PTL
=============================================================================

--------------------------- MODULE PortForwarder ---------------------------
(***************************************************************************)
(* Port forwarding (lib/ntw/forward.go) with the command that starts a     *)
(* session (d_forward) and the exit handler's cleanup of an empty pod.     *)
(*                                                                         *)
(* A session is one "forward" command.  PortForward leaves two goroutines: *)
(* the stopper waits for the stop channel and closes the listener, the     *)
(* acceptor accepts until the listener is closed.  The stop channel is     *)
(* unbuffered and CleanupForward sends without blocking, so a send is      *)
(* received only by a stopper that already waits.                          *)
(***************************************************************************)
EXTENDS Naturals, FiniteSets

CONSTANTS
    Session,   \* the forward commands typed
    Pod,       \* pod letters
    Port,      \* host ports
    MaxStarts, \* bound: how often pods are started
    Nil        \* no session

ASSUME ForwarderAssumption ==
    MaxStarts \in Nat /\ Nil \notin Session /\ Pod # {} /\ Port # {}

VARIABLES
    alive,     \* pods with a container in the table (kept by the supervisor)
    starts,    \* used up bound
    cli,       \* the session d_forward is setting up, or Nil
    sessions,  \* PortForwarder.sessions: pod -> its sessions
    pod, port, \* the pod and the host port of each session
    at,        \* d_forward's control point for each session
    listener,  \* the host listener of each session
    stopper,   \* the goroutine that waits for the stop channel
    dropped,   \* history: sessions whose stop was sent to nobody
    late       \* history: sessions listed while their pod was gone

vars == <<alive, starts, cli, sessions, pod, port, at, listener, stopper, dropped, late>>

-----------------------------------------------------------------------------
(* d_forward: the container is found under the supervisor's lock. *)
Check(s, p, q) ==
    /\ cli = Nil /\ at[s] = "none" /\ p \in alive
    /\ cli' = s
    /\ at' = [at EXCEPT ![s] = "listen"]
    /\ pod' = [pod EXCEPT ![s] = p]
    /\ port' = [port EXCEPT ![s] = q]
    /\ UNCHANGED <<alive, starts, sessions, listener, stopper, dropped, late>>

PortInUse(q) == \E s \in Session : listener[s] = "open" /\ port[s] = q

(* PortForward: listen and start the two goroutines.  (Mutant: the error   *)
(* of net.Listen is ignored.)                                              *)
AnyPort(q) == TRUE
CanListen(q) == ~PortInUse(q)

PortForward(s) ==
    /\ at[s] = "listen" /\ CanListen(port[s])
    /\ listener' = [listener EXCEPT ![s] = "open"]
    /\ stopper' = [stopper EXCEPT ![s] = "spawned"]
    /\ at' = [at EXCEPT ![s] = "append"]
    /\ UNCHANGED <<alive, starts, cli, sessions, pod, port, dropped, late>>

(* net.Listen may also be refused for other reasons than a port in use. *)
PortForwardFails(s) ==
    /\ at[s] = "listen"
    /\ at' = [at EXCEPT ![s] = "failed"]
    /\ cli' = Nil
    /\ UNCHANGED <<alive, starts, sessions, pod, port, listener, stopper, dropped, late>>

(* AddSession lists the session, under the forwarder's own lock. *)
AddSession(s) ==
    /\ at[s] = "append"
    /\ sessions' = [sessions EXCEPT ![pod[s]] = @ \cup {s}]
    /\ late' = IF pod[s] \in alive THEN late ELSE late \cup {s}
    /\ at' = [at EXCEPT ![s] = "listed"]
    /\ cli' = Nil
    /\ UNCHANGED <<alive, starts, pod, port, listener, stopper, dropped>>

(* The stopper reaches <-stop, and closes the listener once it is told.    *)
(* (Mutant: it forgets to.)                                                *)
StopperWaits(s) ==
    /\ stopper[s] = "spawned"
    /\ stopper' = [stopper EXCEPT ![s] = "waiting"]
    /\ UNCHANGED <<alive, starts, cli, sessions, pod, port, at, listener, dropped, late>>

NotClosed(s) == listener
Closed(s) == [listener EXCEPT ![s] = "closed"]

StopperCloses(s) ==
    /\ stopper[s] = "told"
    /\ stopper' = [stopper EXCEPT ![s] = "done"]
    /\ listener' = Closed(s)
    /\ UNCHANGED <<alive, starts, cli, sessions, pod, port, at, dropped, late>>

(* Accept fails for a reason of its own: the acceptor closes the listener. *)
AcceptFails(s) ==
    /\ listener[s] = "open"
    /\ listener' = [listener EXCEPT ![s] = "closed"]
    /\ UNCHANGED <<alive, starts, cli, sessions, pod, port, at, stopper, dropped, late>>

-----------------------------------------------------------------------------
(* External: the supervisor's table (module Supervisor). *)
PodStarts(p) ==
    /\ p \notin alive /\ starts < MaxStarts
    /\ alive' = alive \cup {p}
    /\ starts' = starts + 1
    /\ UNCHANGED <<cli, sessions, pod, port, at, listener, stopper, dropped, late>>

(* The sessions CleanupForward signals.  (Mutant: all but one.) *)
SkipOne(p) == {s \in sessions[p] : \E t \in sessions[p] : t # s}
Signalled(p) == sessions[p]

(* delete(pf.sessions, id).  (Mutant: forgotten.) *)
StillListed(p) == sessions
Unlisted(p) == [sessions EXCEPT ![p] = {}]

(* The last container of the pod exits: OnContainerExit calls              *)
(* CleanupForward, under the supervisor's lock.                            *)
CleanupForward(p) ==
    /\ p \in alive
    /\ alive' = alive \ {p}
    /\ stopper' = [s \in Session |->
                     IF s \in Signalled(p) /\ stopper[s] = "waiting" THEN "told"
                                                                    ELSE stopper[s]]
    /\ dropped' = dropped \cup {s \in Signalled(p) : stopper[s] # "waiting"}
    /\ sessions' = Unlisted(p)
    /\ UNCHANGED <<starts, cli, pod, port, at, listener, late>>

-----------------------------------------------------------------------------
Init ==
    /\ alive = {} /\ starts = 0 /\ cli = Nil
    /\ sessions = [p \in Pod |-> {}]
    /\ pod = [s \in Session |-> CHOOSE p \in Pod : TRUE]
    /\ port = [s \in Session |-> CHOOSE q \in Port : TRUE]
    /\ at = [s \in Session |-> "none"]
    /\ listener = [s \in Session |-> "none"]
    /\ stopper = [s \in Session |-> "none"]
    /\ dropped = {} /\ late = {}

Goroutine(s) ==
    \/ PortForward(s) \/ PortForwardFails(s) \/ AddSession(s)
    \/ StopperWaits(s) \/ StopperCloses(s)

Next ==
    \/ \E s \in Session : \/ \E p \in Pod, q \in Port : Check(s, p, q)
                          \/ Goroutine(s) \/ AcceptFails(s)
    \/ \E p \in Pod : PodStarts(p) \/ CleanupForward(p)

Spec == Init /\ [][Next]_vars

(* The CLI and the goroutines of a session run when they can. *)
FairSpec == Spec /\ \A s \in Session : WF_vars(Goroutine(s))

-----------------------------------------------------------------------------
\* Every variable has its type, and no two open listeners share a host port.
TypeOK ==
    /\ alive \subseteq Pod /\ starts \in 0..MaxStarts /\ cli \in Session \cup {Nil}
    /\ sessions \in [Pod -> SUBSET Session]
    /\ pod \in [Session -> Pod] /\ port \in [Session -> Port]
    /\ at \in [Session -> {"none", "listen", "append", "listed", "failed"}]
    /\ listener \in [Session -> {"none", "open", "closed"}]
    /\ stopper \in [Session -> {"none", "spawned", "waiting", "told", "done"}]
    /\ dropped \subseteq Session /\ late \subseteq Session
    /\ \A s, t \in Session :
          s # t /\ listener[s] = "open" /\ listener[t] = "open" => port[s] # port[t]

\* A listener that nothing lists and nobody was told to close is one of two
\* kinds: its stop was sent before its stopper waited, or it is being added.
\* There is no third way to lose one, even when the letter is used again.
LostOnlyByRace ==
    \A s \in Session :
        listener[s] = "open" /\ s \notin sessions[pod[s]] =>
            at[s] = "append" \/ stopper[s] = "told" \/ s \in dropped

\* A pod's sessions are listed under a live pod, or were added after its
\* cleanup: until the letter is used again nothing will close those.
ListedUnderLivePod ==
    \A s \in Session : s \in sessions[pod[s]] /\ pod[s] \notin alive => s \in late

\* "cleanup signal closes the listener" (forward.go:41): the port of a session
\* whose pod has gone is free again in the end, or the race that kept it is one
\* of two: the stop was sent while the stopper did not wait yet (forward.go:141),
\* or AddSession listed the session after the cleanup, for whoever uses the
\* letter next.
GoneFreesPort ==
    \A s \in Session :
        listener[s] = "open" /\ pod[s] \notin alive ~>
            listener[s] = "closed" \/ s \in dropped \/ s \in sessions[pod[s]]
=============================================================================

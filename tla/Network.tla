------------------------------ MODULE Network ------------------------------
(***************************************************************************)
(* The network of the pods (lib/ntw/network.go, lib/ntw/network_cleanup.go): *)
(* the address allocator, NetworkConfig with its three steps and its error  *)
(* paths, and the cleanup the exit handler runs when a pod is empty.        *)
(*                                                                         *)
(* A net is one call of NetworkConfig, made for the root of a pod.  The CLI *)
(* makes one call at a time; the exit handler's cleanup runs beside it.     *)
(* An address is its last byte.                                            *)
(***************************************************************************)
EXTENDS Naturals, FiniteSets

CONSTANTS
    First,    \* Next of a new allocator (10 in the code)
    Limit,    \* the loop of Allocate ends here (254 in the code)
    Nets,     \* the calls of NetworkConfig
    NoIP      \* no address: a nil net.IP

ASSUME AddressesAssumption ==
    /\ First \in Nat /\ Limit \in Nat /\ First <= Limit
    /\ NoIP \notin Nat /\ NoIP \notin Nets

Address == First..(Limit - 1)

VARIABLES
    Next,     \* IPAllocator.Next
    Used,     \* IPAllocator.Used
    cur,      \* the call the CLI is executing, NoIP when there is none
    st,       \* the control point of each call, and the fate of its network
    ip,       \* the address each call was given
    veth,     \* the host end of the veth pair is attached to the bridge
    eth0      \* eth0 of the pod carries the address

vars == <<Next, Used, cur, st, ip, veth, eth0>>

States == {"idle", "allocated", "linked", "undo", "up", "failed", "removed", "gone"}

(* Where a call, or the pod it configured, still has its address. *)
Holding == {"allocated", "linked", "undo", "up"}

-----------------------------------------------------------------------------
(* Allocate: the addresses from Next on, in order, until one is not used.  *)
(* (Mutants: the search starts from the first address; the limit is not    *)
(* respected; the first address is given to everyone.)                     *)
LowestFree(n) ==
    /\ n \in Address \ Used
    /\ \A m \in First..(n - 1) : m \in Used
Unlimited(n) == n = Next
AlwaysFirst(n) == n = First /\ n < Limit
Candidate(n) ==
    /\ n \in Next..(Limit - 1) /\ n \notin Used
    /\ \A m \in Next..(n - 1) : m \in Used

Allocate(c) ==
    /\ cur = NoIP /\ st[c] = "idle"
    /\ \E n \in First..Limit :
          /\ Candidate(n)
          /\ Next' = n + 1
          /\ Used' = Used \cup {n}
          /\ ip' = [ip EXCEPT ![c] = n]
    /\ st' = [st EXCEPT ![c] = "allocated"]
    /\ cur' = c
    /\ UNCHANGED <<veth, eth0>>

(* "no available IPs in subnet": NetworkConfig returns nil. *)
AllocateFails(c) ==
    /\ cur = NoIP /\ st[c] = "idle"
    /\ \A n \in First..Limit : ~Candidate(n)
    /\ Next' = IF Next < Limit THEN Limit ELSE Next
    /\ st' = [st EXCEPT ![c] = "failed"]
    /\ UNCHANGED <<Used, cur, ip, veth, eth0>>

(* netlink.LinkDel of the host end, which deletes the peer, eth0, with it.  *)
(* Its errors are dropped, like those of the lookup before it: the pair may *)
(* stay.                                                                    *)
LinkDel(c) ==
    \/ veth' = [veth EXCEPT ![c] = FALSE] /\ eth0' = [eth0 EXCEPT ![c] = FALSE]
    \/ UNCHANGED <<veth, eth0>>

(* SetupContainerVeth: the pair is attached to the bridge and its peer is   *)
(* in the container, or the call fails before or after the pair was made.   *)
SetupContainerVeth(c) ==
    /\ cur = c /\ st[c] = "allocated"
    /\ \/ /\ veth' = [veth EXCEPT ![c] = TRUE]
          /\ st' = [st EXCEPT ![c] = "linked"]
       \/ /\ \E left \in BOOLEAN : veth' = [veth EXCEPT ![c] = left]
          /\ st' = [st EXCEPT ![c] = "undo"]
    /\ UNCHANGED <<Next, Used, cur, ip, eth0>>

(* ConfigureContainerInterface: it may fail before eth0 has the address, or  *)
(* after (setting the link up, adding the route).  The pair is not deleted.  *)
ConfigureContainerInterface(c) ==
    /\ cur = c /\ st[c] = "linked"
    /\ \/ /\ eth0' = [eth0 EXCEPT ![c] = TRUE]
          /\ st' = [st EXCEPT ![c] = "up"]
          /\ cur' = NoIP
       \/ /\ \E reached \in BOOLEAN : eth0' = [eth0 EXCEPT ![c] = reached]
          /\ st' = [st EXCEPT ![c] = "undo"]
          /\ UNCHANGED cur
    /\ UNCHANGED <<Next, Used, ip, veth>>

(* Release.  (Mutant: the address stays marked.) *)
Forget(n) == Used
Release(n) == Used \ {n}

(* NetworkConfig gives the address back and returns nil. *)
Undo(c) ==
    /\ cur = c /\ st[c] = "undo"
    /\ Used' = Release(ip[c])
    /\ st' = [st EXCEPT ![c] = "failed"]
    /\ cur' = NoIP
    /\ UNCHANGED <<Next, ip, veth, eth0>>

(* CleanupContainerNetworking, when the last container of the pod is gone:  *)
(* the address is released whether the link was deleted or not.             *)
CleanupContainerNetworking(c) ==
    /\ st[c] = "up"
    /\ LinkDel(c)
    /\ Used' = Release(ip[c])
    /\ st' = [st EXCEPT ![c] = "removed"]
    /\ UNCHANGED <<Next, cur, ip>>

(* External: the kernel deletes the veth pair of a namespace that nothing   *)
(* refers to any more.  Descriptors that stay open in the supervisor keep   *)
(* it, so it may never happen.                                              *)
NamespaceGone(c) ==
    /\ st[c] \in {"failed", "removed"}
    /\ st' = [st EXCEPT ![c] = "gone"]
    /\ veth' = [veth EXCEPT ![c] = FALSE]
    /\ eth0' = [eth0 EXCEPT ![c] = FALSE]
    /\ UNCHANGED <<Next, Used, cur, ip>>

-----------------------------------------------------------------------------
Init ==
    /\ Next = First /\ Used = {} /\ cur = NoIP
    /\ st = [c \in Nets |-> "idle"]
    /\ ip = [c \in Nets |-> NoIP]
    /\ veth = [c \in Nets |-> FALSE]
    /\ eth0 = [c \in Nets |-> FALSE]

Step ==
    \E c \in Nets :
        \/ Allocate(c) \/ AllocateFails(c) \/ SetupContainerVeth(c)
        \/ ConfigureContainerInterface(c) \/ Undo(c)
        \/ CleanupContainerNetworking(c) \/ NamespaceGone(c)

Spec == Init /\ [][Step]_vars

-----------------------------------------------------------------------------
\* Every variable has its type; Next never passes the limit.
TypeOK ==
    /\ Next \in First..Limit /\ Used \subseteq Address
    /\ cur \in Nets \cup {NoIP}
    /\ st \in [Nets -> States]
    /\ ip \in [Nets -> Address \cup {NoIP}]
    /\ veth \in [Nets -> BOOLEAN] /\ eth0 \in [Nets -> BOOLEAN]

\* Two interfaces on the bridge never carry the same address, although the
\* address of one that stays behind is released all the same: NetworkConfig
\* releases it when a later step of the configuration failed (network.go:337),
\* the cleanup when the link could not be deleted (network_cleanup.go:16).
DistinctAddresses ==
    \A c, d \in Nets : c # d /\ eth0[c] /\ eth0[d] => ip[c] # ip[d]

\* Used is exactly the set of addresses that calls and pods still hold: every
\* error path and the cleanup give theirs back, and only theirs.
UsedIsHeld == Used = {ip[c] : c \in {d \in Nets : st[d] \in Holding}}

\* Network implements the abstract pool of addresses.
Pool == INSTANCE AddressPool
            WITH Client <- Nets, None <- NoIP,
                 held <- [c \in Nets |-> IF st[c] \in Holding THEN ip[c] ELSE NoIP]
ImplementsPool == Pool!PoolSpec

\* "release IP back to allocator" (network_cleanup.go:21): Allocate finds an
\* address as long as one of the subnet is not in use.
ReleasedIsReusable ==
    \A c \in Nets : st[c] = "idle" /\ Address \ Used # {} =>
        \E n \in First..Limit : Candidate(n)
=============================================================================

---------------------------- MODULE AddressPool ----------------------------
(***************************************************************************)
(* What the container network promises of its addresses: a pod is given an *)
(* address of the subnet that no other pod holds, and gives it back.  How  *)
(* the address is chosen, and what else must succeed before the pod may    *)
(* use it, is Network's business.                                          *)
(***************************************************************************)
CONSTANTS Address, Client, None

VARIABLE held   \* the address each client holds, or None

PoolInit == held = [c \in Client |-> None]

Acquire(c, a) ==
    /\ held[c] = None
    /\ \A d \in Client : held[d] # a
    /\ held' = [held EXCEPT ![c] = a]

GiveBack(c) ==
    /\ held[c] # None
    /\ held' = [held EXCEPT ![c] = None]

PoolNext ==
    \E c \in Client : GiveBack(c) \/ \E a \in Address : Acquire(c, a)

PoolSpec == PoolInit /\ [][PoolNext]_held
=============================================================================

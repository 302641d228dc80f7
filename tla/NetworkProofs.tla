--------------------------- MODULE NetworkProofs ---------------------------
(***************************************************************************)
(* Proofs about Network, for every subnet and every number of pods.         *)
(*                                                                         *)
(* The inductive invariant says that addresses only grow: an address that  *)
(* was ever given lies below Next, and no two calls were given the same    *)
(* one.  That is stronger than what Used records, and it is what keeps an  *)
(* address that was released too early from being given twice.             *)
(***************************************************************************)
EXTENDS Network, TLAPS

(* A call has an address exactly from Allocate on; an interface has one.    *)
GivenOnce ==
    /\ \A c \in Nets : ip[c] # NoIP => ip[c] \in Nat /\ ip[c] < Next
    /\ \A c, d \in Nets : c # d /\ ip[c] # NoIP => ip[c] # ip[d]
    /\ \A c \in Nets : st[c] = "idle" => ip[c] = NoIP
    /\ \A c \in Nets : st[c] \in Holding => ip[c] # NoIP
    /\ \A c \in Nets : eth0[c] => ip[c] # NoIP

Inv == TypeOK /\ GivenOnce /\ UsedIsHeld

(* An address that Allocate may return was never given before. *)
LEMMA FreshAddress ==
    ASSUME TypeOK, GivenOnce, NEW n, Candidate(n)
    PROVE  /\ n \in Address /\ n \notin Used /\ n >= Next
           /\ \A c \in Nets : ip[c] # n
  BY AddressesAssumption DEF TypeOK, GivenOnce, Candidate, Address

LEMMA InitInv == Init => Inv
  BY AddressesAssumption
  DEF Init, Inv, TypeOK, GivenOnce, UsedIsHeld, Holding, States, Address

LEMMA TypeStep == Inv /\ [Step]_vars => TypeOK'
  <1> SUFFICES ASSUME Inv, [Step]_vars PROVE TypeOK'
    OBVIOUS
  <1> USE AddressesAssumption DEF Inv, TypeOK, States, Address
  <1>1. ASSUME NEW c \in Nets, Allocate(c) PROVE TypeOK'
    <2> PICK n \in First..Limit : Candidate(n) /\ Next' = n + 1
                                  /\ Used' = Used \cup {n} /\ ip' = [ip EXCEPT ![c] = n]
      BY <1>1 DEF Allocate
    <2>1. n \in First..(Limit - 1)
      BY FreshAddress
    <2> QED
      BY <1>1, <2>1 DEF Allocate
  <1>2. ASSUME NEW c \in Nets, AllocateFails(c) PROVE TypeOK'
    BY <1>2 DEF AllocateFails
  <1>3. ASSUME NEW c \in Nets, SetupContainerVeth(c) PROVE TypeOK'
    BY <1>3 DEF SetupContainerVeth
  <1>4. ASSUME NEW c \in Nets, ConfigureContainerInterface(c) PROVE TypeOK'
    BY <1>4 DEF ConfigureContainerInterface
  <1>5. ASSUME NEW c \in Nets, Undo(c) PROVE TypeOK'
    BY <1>5 DEF Undo, Release
  <1>6. ASSUME NEW c \in Nets, CleanupContainerNetworking(c) PROVE TypeOK'
    BY <1>6 DEF CleanupContainerNetworking, Release, LinkDel
  <1>7. ASSUME NEW c \in Nets, NamespaceGone(c) PROVE TypeOK'
    BY <1>7 DEF NamespaceGone
  <1>8. CASE UNCHANGED vars
    BY <1>8 DEF vars
  <1> QED
    BY <1>1, <1>2, <1>3, <1>4, <1>5, <1>6, <1>7, <1>8 DEF Step

LEMMA GivenOnceStep == Inv /\ [Step]_vars => GivenOnce'
  <1> SUFFICES ASSUME Inv, [Step]_vars PROVE GivenOnce'
    OBVIOUS
  <1> USE AddressesAssumption DEF Inv, TypeOK, GivenOnce, Holding
  <1>1. ASSUME NEW c \in Nets, Allocate(c) PROVE GivenOnce'
    <2> PICK n \in First..Limit : Candidate(n) /\ Next' = n + 1
                                  /\ Used' = Used \cup {n} /\ ip' = [ip EXCEPT ![c] = n]
      BY <1>1 DEF Allocate
    <2>1. n \in Nat /\ n >= Next /\ \A d \in Nets : ip[d] # n
      BY FreshAddress
    <2>2. Next \in Nat /\ Next' > Next /\ n < Next' /\ n # NoIP
      BY <2>1
    <2>3. st' = [st EXCEPT ![c] = "allocated"] /\ UNCHANGED eth0
      BY <1>1 DEF Allocate
    <2> QED
      BY <2>1, <2>2, <2>3
  <1>2. ASSUME NEW c \in Nets, AllocateFails(c) PROVE GivenOnce'
    BY <1>2 DEF AllocateFails
  <1>3. ASSUME NEW c \in Nets, SetupContainerVeth(c) PROVE GivenOnce'
    BY <1>3 DEF SetupContainerVeth
  <1>4. ASSUME NEW c \in Nets, ConfigureContainerInterface(c) PROVE GivenOnce'
    BY <1>4 DEF ConfigureContainerInterface
  <1>5. ASSUME NEW c \in Nets, Undo(c) PROVE GivenOnce'
    BY <1>5 DEF Undo
  <1>6. ASSUME NEW c \in Nets, CleanupContainerNetworking(c) PROVE GivenOnce'
    BY <1>6 DEF CleanupContainerNetworking, LinkDel
  <1>7. ASSUME NEW c \in Nets, NamespaceGone(c) PROVE GivenOnce'
    BY <1>7 DEF NamespaceGone
  <1>8. CASE UNCHANGED vars
    BY <1>8 DEF vars
  <1> QED
    BY <1>1, <1>2, <1>3, <1>4, <1>5, <1>6, <1>7, <1>8 DEF Step

LEMMA UsedStep == Inv /\ [Step]_vars => UsedIsHeld'
  <1> SUFFICES ASSUME Inv, [Step]_vars PROVE UsedIsHeld'
    OBVIOUS
  <1> USE DEF Inv, TypeOK, GivenOnce, UsedIsHeld, Holding, States
  <1>1. ASSUME NEW c \in Nets, Allocate(c) PROVE UsedIsHeld'
    <2> PICK n \in First..Limit : Candidate(n) /\ Next' = n + 1
                                  /\ Used' = Used \cup {n} /\ ip' = [ip EXCEPT ![c] = n]
      BY <1>1 DEF Allocate
    <2>1. st' = [st EXCEPT ![c] = "allocated"] /\ st[c] = "idle"
      BY <1>1 DEF Allocate
    <2> QED
      BY <2>1
  <1>2. ASSUME NEW c \in Nets, AllocateFails(c) PROVE UsedIsHeld'
    BY <1>2 DEF AllocateFails
  <1>3. ASSUME NEW c \in Nets, SetupContainerVeth(c) PROVE UsedIsHeld'
    BY <1>3 DEF SetupContainerVeth
  <1>4. ASSUME NEW c \in Nets, ConfigureContainerInterface(c) PROVE UsedIsHeld'
    BY <1>4 DEF ConfigureContainerInterface
  <1>5. ASSUME NEW c \in Nets, Undo(c) PROVE UsedIsHeld'
    BY <1>5 DEF Undo, Release
  <1>6. ASSUME NEW c \in Nets, CleanupContainerNetworking(c) PROVE UsedIsHeld'
    BY <1>6 DEF CleanupContainerNetworking, Release
  <1>7. ASSUME NEW c \in Nets, NamespaceGone(c) PROVE UsedIsHeld'
    BY <1>7 DEF NamespaceGone
  <1>8. CASE UNCHANGED vars
    BY <1>8 DEF vars
  <1> QED
    BY <1>1, <1>2, <1>3, <1>4, <1>5, <1>6, <1>7, <1>8 DEF Step

\* The inductive invariant holds in every reachable state of the network code.
THEOREM NetworkInvariant == Spec => []Inv
  <1>1. Inv /\ [Step]_vars => Inv'
    BY TypeStep, GivenOnceStep, UsedStep DEF Inv
  <1> QED
    BY InitInv, <1>1, PTL DEF Spec

\* The allocator's counters, the set of used addresses and every call's address
\* keep their types and stay within the subnet.
THEOREM NetworkTypeCorrect == Spec => []TypeOK
  <1>1. Inv => TypeOK
    BY DEF Inv
  <1> QED
    BY NetworkInvariant, <1>1, PTL

\* No two interfaces on the bridge carry the same address, for every subnet and
\* every number of pods, failures of NetworkConfig and of the cleanup included.
THEOREM AddressesDistinct == Spec => []DistinctAddresses
  <1>1. Inv => DistinctAddresses
    BY DEF Inv, GivenOnce, DistinctAddresses
  <1> QED
    BY NetworkInvariant, <1>1, PTL

\* The allocator's Used set is exactly what calls and pods hold, always.
THEOREM AllocatorAccounting == Spec => []UsedIsHeld
  <1>1. Inv => UsedIsHeld
    BY DEF Inv
  <1> QED
    BY NetworkInvariant, <1>1, PTL

-----------------------------------------------------------------------------
(* The address each pod holds, as the abstract pool sees it. *)
heldBy == [c \in Nets |-> IF st[c] \in Holding THEN ip[c] ELSE NoIP]

LEMMA PoolStep == Inv /\ [Step]_vars => [Pool!PoolNext]_heldBy
  <1> SUFFICES ASSUME Inv, [Step]_vars PROVE Pool!PoolNext \/ UNCHANGED heldBy
    BY DEF heldBy
  <1> USE DEF Inv, TypeOK, Holding, States, heldBy
  <1>1. ASSUME NEW c \in Nets, Allocate(c) PROVE Pool!PoolNext
    <2> PICK n \in First..Limit : Candidate(n) /\ Next' = n + 1
                                  /\ Used' = Used \cup {n} /\ ip' = [ip EXCEPT ![c] = n]
      BY <1>1 DEF Allocate
    <2>1. n \in Address /\ (\A d \in Nets : ip[d] # n) /\ n # NoIP
      BY FreshAddress, AddressesAssumption DEF Address
    <2>2. st' = [st EXCEPT ![c] = "allocated"] /\ st[c] = "idle"
      BY <1>1 DEF Allocate
    <2>3. \A d \in Nets : heldBy[d] # n
      BY <2>1
    <2>4. heldBy[c] = NoIP /\ heldBy' = [heldBy EXCEPT ![c] = n]
      BY <2>2
    <2>5. Pool!Acquire(c, n)
      BY <2>3, <2>4 DEF Pool!Acquire
    <2> QED
      BY <2>1, <2>5 DEF Pool!PoolNext
  <1>2. ASSUME NEW c \in Nets, AllocateFails(c) PROVE UNCHANGED heldBy
    BY <1>2 DEF AllocateFails
  <1>3. ASSUME NEW c \in Nets, SetupContainerVeth(c) PROVE UNCHANGED heldBy
    BY <1>3 DEF SetupContainerVeth
  <1>4. ASSUME NEW c \in Nets, ConfigureContainerInterface(c) PROVE UNCHANGED heldBy
    BY <1>4 DEF ConfigureContainerInterface
  <1>5. ASSUME NEW c \in Nets, Undo(c) \/ CleanupContainerNetworking(c)
        PROVE  Pool!PoolNext
    <2>1. heldBy[c] # NoIP
      BY <1>5 DEF Undo, CleanupContainerNetworking, GivenOnce
    <2>2. heldBy' = [heldBy EXCEPT ![c] = NoIP]
      BY <1>5 DEF Undo, CleanupContainerNetworking
    <2>3. Pool!GiveBack(c)
      BY <2>1, <2>2 DEF Pool!GiveBack
    <2> QED
      BY <2>3 DEF Pool!PoolNext
  <1>6. ASSUME NEW c \in Nets, NamespaceGone(c) PROVE UNCHANGED heldBy
    BY <1>6 DEF NamespaceGone
  <1>7. CASE UNCHANGED vars
    BY <1>7 DEF vars
  <1> QED
    BY <1>1, <1>2, <1>3, <1>4, <1>5, <1>6, <1>7 DEF Step

\* The network code implements the abstract pool: an address is only acquired
\* when nobody holds it, and only its holder gives it back.
THEOREM NetworkImplementsPool == Spec => ImplementsPool
  <1>1. Init => Pool!PoolInit
    BY DEF Init, Pool!PoolInit, Holding
  <1>2. Inv /\ [Step]_vars => [Pool!PoolNext]_heldBy
    BY PoolStep
  <1> QED
    BY <1>1, <1>2, NetworkInvariant, PTL
    DEF Spec, ImplementsPool, Pool!PoolSpec, heldBy
=============================================================================

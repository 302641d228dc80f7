---------------------------- MODULE Capabilities ----------------------------
(***************************************************************************)
(* The capability sets of one process and what lib/caps.go does to them.   *)
(* A 64-bit mask is the set of its capabilities.  The system calls are     *)
(* external; every error is dropped by SetupCapabilities, so a refused     *)
(* call leaves the sets as they are.                                       *)
(***************************************************************************)
CONSTANTS
    Cap,     \* the capabilities the kernel knows
    SETPCAP  \* CAP_SETPCAP

ASSUME CapAssumption == SETPCAP \in Cap

CapState == [perm : SUBSET Cap, eff : SUBSET Cap, inh : SUBSET Cap,
             bnd : SUBSET Cap, amb : SUBSET Cap]

(* After unshare or setns into a user namespace. *)
FullCaps == [perm |-> Cap, eff |-> Cap, inh |-> {}, bnd |-> Cap, amb |-> {}]

(* External: capset(2).  The ambient set stays within the new sets. *)
capset(c, perm, eff, inh) ==
    IF perm \subseteq c.perm /\ eff \subseteq perm /\ inh \subseteq c.inh \cup c.perm
      THEN [c EXCEPT !.perm = perm, !.eff = eff, !.inh = inh,
                     !.amb = @ \cap perm \cap inh]
      ELSE c

(* Effective and permitted become exactly S. *)
SetCapabilities(c, S) == capset(c, S, S, c.inh)

(* One call per capability of S; each is granted or refused by itself. *)
AddInheritable(c, S) == capset(c, c.perm, c.eff, c.inh \cup (S \cap c.perm))

(* PR_CAPBSET_DROP needs CAP_SETPCAP. *)
DropAllExcept(c, S) ==
    IF SETPCAP \in c.eff THEN [c EXCEPT !.bnd = @ \cap S] ELSE c

(* PR_CAP_AMBIENT_RAISE needs the capability permitted and inheritable. *)
RaiseAmbient(c, S) == [c EXCEPT !.amb = @ \cup (S \cap c.perm \cap c.inh)]

(* (Mutant: ambient before inheritable.) *)
AmbientFirst(c, S) ==
    DropAllExcept(AddInheritable(RaiseAmbient(SetCapabilities(c, S), S), S), S)
SetupCapabilities(c, S) ==
    RaiseAmbient(DropAllExcept(AddInheritable(SetCapabilities(c, S), S), S), S)

(* External: execve(2) by user 0 of its user namespace, which the ID maps  *)
(* make of every workload, computes permitted and effective anew.          *)
execve(c) == [c EXCEPT !.perm = c.inh \cup c.bnd, !.eff = c.inh \cup c.bnd]
=============================================================================

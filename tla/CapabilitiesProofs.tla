------------------------ MODULE CapabilitiesProofs ------------------------
(***************************************************************************)
(* What SetupCapabilities leaves a workload with, for every set of         *)
(* capabilities and every set of allowed ones.                             *)
(***************************************************************************)
EXTENDS Capabilities, TLAPS

\* SetCapabilities (caps.go 333 to 366) makes the permitted and the effective
\* set exactly S: a process with all capabilities is never refused.
LEMMA SetCapabilitiesExact ==
    ASSUME NEW S \in SUBSET Cap
    PROVE  SetCapabilities(FullCaps, S) =
             [perm |-> S, eff |-> S, inh |-> {}, bnd |-> Cap, amb |-> {}]
  BY DEF SetCapabilities, capset, FullCaps

\* AddInheritable (caps.go 409 to 415) after it is granted for all of S.
LEMMA InheritableGranted ==
    ASSUME NEW S \in SUBSET Cap
    PROVE  AddInheritable(SetCapabilities(FullCaps, S), S) =
             [perm |-> S, eff |-> S, inh |-> S, bnd |-> Cap, amb |-> {}]
  <1> DEFINE c == [perm |-> S, eff |-> S, inh |-> {}, bnd |-> Cap, amb |-> {}]
  <1>1. AddInheritable(c, S) = capset(c, S, S, S)
    <2>1. c.inh \cup (S \cap c.perm) = S
      OBVIOUS
    <2> QED
      BY <2>1 DEF AddInheritable
  <1>2. capset(c, S, S, S) = [c EXCEPT !.perm = S, !.eff = S, !.inh = S, !.amb = @ \cap S \cap S]
    BY DEF capset
  <1> QED
    BY <1>1, <1>2, SetCapabilitiesExact

\* SetupCapabilities (caps.go 572 to 588) ends with exactly the allowed
\* capabilities permitted, effective, inheritable and ambient.  The bounding
\* set is reduced only if CAP_SETPCAP is among them: it is dropped after the
\* effective set, and without CAP_SETPCAP every drop is refused.
THEOREM SetupExact ==
    ASSUME NEW S \in SUBSET Cap
    PROVE  LET c == SetupCapabilities(FullCaps, S)
           IN  /\ c.perm = S /\ c.eff = S /\ c.inh = S /\ c.amb = S
               /\ c.bnd = IF SETPCAP \in S THEN S ELSE Cap
  <1> DEFINE a == [perm |-> S, eff |-> S, inh |-> S, bnd |-> Cap, amb |-> {}]
             b == [perm |-> S, eff |-> S, inh |-> S,
                   bnd |-> IF SETPCAP \in S THEN S ELSE Cap, amb |-> {}]
  <1>1. AddInheritable(SetCapabilities(FullCaps, S), S) = a
    BY InheritableGranted
  <1>2. DropAllExcept(a, S) = b
    <2>1. Cap \cap S = S
      OBVIOUS
    <2> QED
      BY <2>1 DEF DropAllExcept
  <1>3. RaiseAmbient(b, S) = [b EXCEPT !.amb = S]
    <2>1. b.amb \cup (S \cap b.perm \cap b.inh) = S
      OBVIOUS
    <2> QED
      BY <2>1 DEF RaiseAmbient
  <1>4. SetupCapabilities(FullCaps, S) = [b EXCEPT !.amb = S]
    BY <1>1, <1>2, <1>3 DEF SetupCapabilities
  <1> QED
    BY <1>4
============================================================================

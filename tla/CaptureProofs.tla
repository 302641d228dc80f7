--------------------------- MODULE CaptureProofs ---------------------------
(***************************************************************************)
(* The capture of a workload's output (CaptureLogs), for any number of     *)
(* containers, any output and any way it is cut into reads: the lines sent *)
(* so far are those of what was read, and the remainder carried over to    *)
(* the next read is what follows the last line break.                      *)
(*                                                                         *)
(* The operators Lines and Remainder speak of all of a chunk, CaptureLogs  *)
(* applies them to the remainder and one more read.  CutLines shows that   *)
(* this comes to the same: a text may be cut behind any of its breaks.     *)
(* EndsInv follows the write end of the log from the supervisor through    *)
(* the init to the workload, so that the end of the stream means that      *)
(* nothing more is written.                                                *)
(*                                                                         *)
(* Induction over a text is replaced by the least element of a set of      *)
(* positions.                                                              *)
(***************************************************************************)
EXTENDS ProcessesProofs, FiniteSetTheorems, SequenceTheorems, FunctionTheorems

(* Sets of numbers. *)

LEMMA LeastElement ==
    ASSUME NEW S \in SUBSET Nat, S # {}
    PROVE  \E m \in S : \A k \in S : m <= k
  <1> DEFINE R == {p \in Nat \X Nat : p[1] < p[2]}
  <1>1. IsWellFoundedOn(R, Nat)
    BY NatLessThanWellFounded DEF OpToRel
  <1>2. \A x, y \in Nat : <<y, x>> \in R <=> y < x
    OBVIOUS
  <1> HIDE DEF R
  <1>3. \E x \in S : \A y \in S : ~(<<y, x>> \in R)
    BY <1>1, WFMin
  <1>4. PICK x \in S : \A y \in S : ~(<<y, x>> \in R)
    BY <1>3
  <1>5. \A y \in S : x \in Nat /\ y \in Nat /\ ~(y < x)
    BY <1>2, <1>4
  <1>6. \A y \in S : x <= y
    BY <1>5
  <1> QED
    BY <1>6

LEMMA GreatestElement ==
    ASSUME NEW S \in SUBSET Nat, S # {}, NEW n \in Nat, \A k \in S : k <= n
    PROVE  \E m \in S : \A k \in S : k <= m
  <1> DEFINE T == {n - k : k \in S}
  <1>0. \A k \in S : k \in Nat /\ n - k \in Nat
    OBVIOUS
  <1>1. T \in SUBSET Nat /\ T # {}
    BY <1>0
  <1>2. PICK t \in T : \A u \in T : t <= u
    <2> HIDE DEF T
    <2> QED
      BY <1>1, LeastElement
  <1>3. PICK m \in S : t = n - m
    OBVIOUS
  <1>4. ASSUME NEW k \in S PROVE k <= m
    <2>1. n - k \in T
      OBVIOUS
    <2> HIDE DEF T
    <2> QED
      BY <1>2, <1>3, <2>1
  <1> QED
    BY <1>4

Shift(c, S) == {c + j : j \in S}

LEMMA ShiftCardinality ==
    ASSUME NEW c \in Nat, NEW S \in SUBSET Nat, IsFiniteSet(S)
    PROVE  IsFiniteSet(Shift(c, S)) /\ Cardinality(Shift(c, S)) = Cardinality(S)
  <1> DEFINE f == [j \in S |-> c + j]
  <1>1. f \in [S -> Shift(c, S)] /\ \A t \in Shift(c, S) : \E j \in S : f[j] = t
    BY DEF Shift
  <1>2. \A i, j \in S : f[i] = f[j] => i = j
    OBVIOUS
  <1> HIDE DEF f
  <1>3. f \in Bijection(S, Shift(c, S))
    BY <1>1, <1>2, Fun_IsBij
  <1>4. ExistsBijection(S, Shift(c, S))
    BY <1>3, Fun_ExistsBij
  <1> QED
    BY <1>4, FS_Bijection

-----------------------------------------------------------------------------
(* The breaks of a text, and their ranks. *)

Text == Seq(Char)

UpTo(s, b) == {j \in Breaks(s) : j <= b}

LEMMA BreaksFinite ==
    ASSUME NEW s \in Text
    PROVE  /\ Breaks(s) \subseteq 1..Len(s) /\ Len(s) \in Nat
           /\ IsFiniteSet(Breaks(s)) /\ Cardinality(Breaks(s)) \in Nat
           /\ \A b \in Nat : IsFiniteSet(UpTo(s, b)) /\ Cardinality(UpTo(s, b)) \in Nat
  <1>1. Breaks(s) \subseteq 1..Len(s) /\ Len(s) \in Nat
    BY DEF Breaks, Text
  <1>2. IsFiniteSet(Breaks(s))
    <2>1. IsFiniteSet(1..Len(s)) /\ Breaks(s) \in SUBSET (1..Len(s))
      BY <1>1, FS_Interval
    <2> QED
      BY <2>1, FS_Subset
  <1>3. Cardinality(Breaks(s)) \in Nat
    BY <1>2, FS_CardinalityType
  <1>4. ASSUME NEW b \in Nat PROVE IsFiniteSet(UpTo(s, b)) /\ Cardinality(UpTo(s, b)) \in Nat
    <2>1. UpTo(s, b) \in SUBSET Breaks(s)
      BY DEF UpTo
    <2>2. IsFiniteSet(UpTo(s, b))
      BY <1>2, <2>1, FS_Subset
    <2> QED
      BY <2>2, FS_CardinalityType
  <1> QED
    BY <1>1, <1>2, <1>3, <1>4

LEMMA BreaksNat ==
    ASSUME NEW s \in Text
    PROVE  /\ Breaks(s) \in SUBSET Nat /\ Breaks(s) \in SUBSET (Nat \ {0}) /\ Len(s) \in Nat
           /\ \A j \in Breaks(s) : j <= Len(s)
  <1>1. Breaks(s) \subseteq 1..Len(s) /\ Len(s) \in Nat
    BY BreaksFinite
  <1> QED
    BY <1>1

(* A break is determined by its rank, and every rank has one. *)
LEMMA RankUnique ==
    ASSUME NEW s \in Text, NEW a \in Breaks(s), NEW b \in Breaks(s),
           Cardinality(UpTo(s, a)) = Cardinality(UpTo(s, b))
    PROVE  a = b
  <1>0. a \in Nat /\ b \in Nat
    BY BreaksFinite
  <1>1. ASSUME NEW x \in Breaks(s), NEW y \in Breaks(s), x \in Nat, y \in Nat, x < y,
               Cardinality(UpTo(s, x)) = Cardinality(UpTo(s, y))
        PROVE  FALSE
    <2>1. UpTo(s, x) \in SUBSET UpTo(s, y)
      BY <1>1, BreaksFinite DEF UpTo
    <2>2. y \in UpTo(s, y) /\ y \notin UpTo(s, x)
      BY <1>1 DEF UpTo
    <2>3. IsFiniteSet(UpTo(s, y))
      BY <1>1, BreaksFinite
    <2> QED
      BY <1>1, <2>1, <2>2, <2>3, FS_Subset
  <1> QED
    BY <1>0, <1>1

LEMMA RankExists ==
    ASSUME NEW s \in Text, NEW i \in 1..Cardinality(Breaks(s))
    PROVE  \E b \in Breaks(s) : Cardinality(UpTo(s, b)) = i
  <1> DEFINE S == {b \in Nat : Cardinality(UpTo(s, b)) >= i}
  <1>0. i \in Nat /\ i >= 1 /\ i <= Cardinality(Breaks(s))
    BY BreaksFinite
  <1>1. Len(s) \in S
    <2>1. UpTo(s, Len(s)) = Breaks(s)
      BY BreaksFinite DEF UpTo
    <2> QED
      BY <1>0, <2>1, BreaksFinite
  <1>2. PICK m \in S : \A k \in S : m <= k
    <2>1. S \in SUBSET Nat /\ S # {}
      BY <1>1
    <2> HIDE DEF S
    <2> QED
      BY <2>1, LeastElement
  <1>3. m \in Nat /\ Cardinality(UpTo(s, m)) \in Nat /\ Cardinality(UpTo(s, m)) >= i
    BY BreaksFinite
  <1>4. m # 0
    <2>1. UpTo(s, 0) = {}
      BY BreaksFinite DEF UpTo
    <2> QED
      BY <1>0, <1>3, <2>1, FS_EmptySet
  <1>5. m - 1 \in Nat /\ m - 1 \notin S
    BY <1>2, <1>3, <1>4
  <1>6. /\ Cardinality(UpTo(s, m - 1)) \in Nat /\ Cardinality(UpTo(s, m - 1)) < i
        /\ IsFiniteSet(UpTo(s, m - 1))
    BY <1>0, <1>5, BreaksFinite
  <1>7. m \in Breaks(s)
    <2> SUFFICES ASSUME m \notin Breaks(s) PROVE FALSE
      OBVIOUS
    <2>1. UpTo(s, m) = UpTo(s, m - 1)
      BY <1>3, BreaksFinite DEF UpTo
    <2> QED
      BY <1>0, <1>3, <1>6, <2>1
  <1>8. UpTo(s, m) = UpTo(s, m - 1) \cup {m} /\ m \notin UpTo(s, m - 1)
    BY <1>3, <1>7, BreaksFinite DEF UpTo
  <1>9. Cardinality(UpTo(s, m)) = Cardinality(UpTo(s, m - 1)) + 1
    BY <1>6, <1>8, FS_AddElement
  <1>10. Cardinality(UpTo(s, m)) = i
    BY <1>0, <1>3, <1>6, <1>9
  <1> QED
    BY <1>7, <1>10

LEMMA NthBreakIs ==
    ASSUME NEW s \in Text, NEW i \in 1..Cardinality(Breaks(s))
    PROVE  /\ NthBreak(s, i) \in Breaks(s) /\ Cardinality(UpTo(s, NthBreak(s, i))) = i
           /\ \A b \in Breaks(s) : Cardinality(UpTo(s, b)) = i => b = NthBreak(s, i)
  <1>1. NthBreak(s, i) \in Breaks(s) /\ Cardinality(UpTo(s, NthBreak(s, i))) = i
    BY RankExists DEF NthBreak, UpTo
  <1> QED
    BY <1>1, RankUnique

LEMMA LastBreakIs ==
    ASSUME NEW s \in Text, NEW n \in Nat \ {0}
    PROVE  /\ LastBreak(s, n) \in {0} \cup Breaks(s) /\ LastBreak(s, n) < n
           /\ \A j \in Breaks(s) : j < n => j <= LastBreak(s, n)
           /\ \A i \in {0} \cup Breaks(s) :
                 (i < n /\ \A j \in Breaks(s) : j < n => j <= i) => i = LastBreak(s, n)
  <1> DEFINE S == {i \in {0} \cup Breaks(s) : i < n}
  <1>0. Breaks(s) \in SUBSET Nat /\ \A j \in Breaks(s) : j # 0
    BY BreaksFinite
  <1>1. S \in SUBSET Nat /\ S # {} /\ \A k \in S : k <= n
    BY <1>0
  <1>2. PICK m \in S : \A k \in S : k <= m
    <2> HIDE DEF S
    <2> QED
      BY <1>1, GreatestElement
  <1>3. m \in {0} \cup Breaks(s) /\ m < n /\ \A j \in Breaks(s) : j < n => j <= m
    BY <1>2
  <1>4. /\ LastBreak(s, n) \in {0} \cup Breaks(s) /\ LastBreak(s, n) < n
        /\ \A j \in Breaks(s) : j < n => j <= LastBreak(s, n)
    BY <1>3 DEF LastBreak
  <1>5. ASSUME NEW i \in {0} \cup Breaks(s), i < n, \A j \in Breaks(s) : j < n => j <= i
        PROVE  i = LastBreak(s, n)
    BY <1>0, <1>4, <1>5
  <1> QED
    BY <1>4, <1>5

-----------------------------------------------------------------------------
(* A text that is cut behind one of its breaks. *)

LEMMA SubText ==
    ASSUME NEW s \in Text, NEW a \in Nat \ {0}, NEW b \in Nat, b <= Len(s)
    PROVE  /\ SubSeq(s, a, b) \in Text
           /\ Len(SubSeq(s, a, b)) = IF a <= b THEN b - a + 1 ELSE 0
           /\ \A i \in 1..(b - a + 1) : SubSeq(s, a, b)[i] = s[a + i - 1]
  <1>1. \A i \in a..b : s[i] \in Char
    BY ElementOfSeq DEF Text
  <1>2. a \in Int /\ b \in Int
    OBVIOUS
  <1> QED
    BY <1>1, <1>2, SubSeqProperties DEF Text

LEMMA BreakIs ==
    ASSUME NEW s \in Text, NEW j
    PROVE  j \in Breaks(s) <=> j \in 1..Len(s) /\ s[j] = "NL"
  <1>1. DOMAIN s = 1..Len(s)
    BY LenProperties DEF Text
  <1> QED
    BY <1>1 DEF Breaks

CutAt(u, c, w, v) ==
    /\ u \in Text /\ c \in {0} \cup Breaks(u)
    /\ w = SubSeq(u, 1, c) /\ v = SubSeq(u, c + 1, Len(u))

LEMMA CutFacts ==
    ASSUME NEW u, NEW c, NEW w, NEW v, CutAt(u, c, w, v)
    PROVE  /\ u \in Text /\ c \in {0} \cup Breaks(u)
           /\ c \in Nat /\ c <= Len(u)
           /\ w \in Text /\ Len(w) = c /\ \A i \in 1..c : w[i] = u[i]
           /\ v \in Text /\ Len(v) = Len(u) - c /\ \A i \in 1..Len(v) : v[i] = u[c + i]
           /\ Breaks(w) = UpTo(u, c)
           /\ \A i \in Nat \ {0} : i \in Breaks(v) <=> c + i \in Breaks(u)
  <1>0. /\ u \in Text /\ c \in {0} \cup Breaks(u)
        /\ w = SubSeq(u, 1, c) /\ v = SubSeq(u, c + 1, Len(u))
    BY DEF CutAt
  <1>1. c \in Nat /\ c <= Len(u) /\ Len(u) \in Nat
    BY <1>0, BreaksFinite
  <1>2. w \in Text /\ Len(w) = c /\ \A i \in 1..c : w[i] = u[i]
    <2>1. /\ SubSeq(u, 1, c) \in Text /\ Len(SubSeq(u, 1, c)) = IF 1 <= c THEN c - 1 + 1 ELSE 0
          /\ \A i \in 1..(c - 1 + 1) : SubSeq(u, 1, c)[i] = u[1 + i - 1]
      BY <1>0, <1>1, SubText
    <2> QED
      BY <1>0, <1>1, <2>1
  <1>3. v \in Text /\ Len(v) = Len(u) - c /\ \A i \in 1..Len(v) : v[i] = u[c + i]
    <2>0. c + 1 \in Nat \ {0}
      BY <1>1
    <2>1. /\ SubSeq(u, c + 1, Len(u)) \in Text
          /\ Len(SubSeq(u, c + 1, Len(u))) = IF c + 1 <= Len(u) THEN Len(u) - (c + 1) + 1 ELSE 0
          /\ \A i \in 1..(Len(u) - (c + 1) + 1) :
                SubSeq(u, c + 1, Len(u))[i] = u[(c + 1) + i - 1]
      BY <1>0, <1>1, <2>0, SubText
    <2>2. Len(v) = Len(u) - c
      BY <1>0, <1>1, <2>1
    <2>3. \A i \in 1..Len(v) : i \in 1..(Len(u) - (c + 1) + 1) /\ (c + 1) + i - 1 = c + i
      BY <1>1, <2>2
    <2> QED
      BY <1>0, <2>1, <2>2, <2>3
  <1>4. /\ \A j : j \in Breaks(u) <=> j \in 1..Len(u) /\ u[j] = "NL"
        /\ \A j : j \in Breaks(w) <=> j \in 1..c /\ w[j] = "NL"
        /\ \A j : j \in Breaks(v) <=> j \in 1..Len(v) /\ v[j] = "NL"
    BY <1>0, <1>2, <1>3, BreakIs
  <1>5. Breaks(w) = UpTo(u, c)
    <2>1. \A j : j \in UpTo(u, c) <=> j \in Breaks(u) /\ j <= c
      BY DEF UpTo
    <2>2. \A j : j \in Breaks(w) <=> j \in UpTo(u, c)
      BY <1>1, <1>2, <1>4, <2>1
    <2> QED
      BY <2>2
  <1>6. \A i \in Nat \ {0} : i \in Breaks(v) <=> c + i \in Breaks(u)
    <2>1. \A i \in Nat \ {0} : i \in 1..Len(v) <=> c + i \in 1..Len(u)
      BY <1>1, <1>3
    <2> QED
      BY <1>3, <1>4, <2>1
  <1> QED
    BY <1>0, <1>1, <1>2, <1>3, <1>5, <1>6

(* Ranks in the text and in the part behind the cut. *)
LEMMA CutRanks ==
    ASSUME NEW u, NEW c, NEW w, NEW v, CutAt(u, c, w, v)
    PROVE  /\ Cardinality(Breaks(u)) = Cardinality(Breaks(w)) + Cardinality(Breaks(v))
           /\ \A b \in Nat : Cardinality(UpTo(u, c + b)) =
                                Cardinality(Breaks(w)) + Cardinality(UpTo(v, b))
           /\ \A b \in Nat : b <= c => UpTo(u, b) = UpTo(w, b)
  <1>1. /\ c \in Nat /\ w \in Text /\ v \in Text /\ Breaks(w) = UpTo(u, c)
        /\ u \in Text /\ c \in {0} \cup Breaks(u)
        /\ c <= Len(u) /\ Len(v) = Len(u) - c
    BY CutFacts
  <1>2. \A i \in Nat \ {0} : i \in Breaks(v) <=> c + i \in Breaks(u)
    BY CutFacts
  <1>3. /\ Breaks(u) \in SUBSET Nat /\ Breaks(v) \in SUBSET (Nat \ {0}) /\ Len(u) \in Nat
        /\ \A j \in Breaks(u) : j <= Len(u)
        /\ \A j \in Breaks(v) : j <= Len(v)
    <2>1. Breaks(u) \in SUBSET Nat /\ Len(u) \in Nat /\ \A j \in Breaks(u) : j <= Len(u)
      BY <1>1, BreaksNat
    <2>2. Breaks(v) \in SUBSET (Nat \ {0}) /\ \A j \in Breaks(v) : j <= Len(v)
      BY <1>1, BreaksNat
    <2> QED
      BY <2>1, <2>2
  <1>4. ASSUME NEW b \in Nat
        PROVE  Cardinality(UpTo(u, c + b)) = Cardinality(Breaks(w)) + Cardinality(UpTo(v, b))
    <2> DEFINE T == UpTo(v, b)
    <2>1. T \in SUBSET (Nat \ {0}) /\ IsFiniteSet(T) /\ Cardinality(T) \in Nat
      BY <1>1, <1>3, BreaksFinite DEF UpTo
    <2>2. UpTo(u, c + b) = Breaks(w) \cup Shift(c, T)
      <3>1. ASSUME NEW j \in UpTo(u, c + b), j > c PROVE j \in Shift(c, T)
        <4>1. j \in Breaks(u) /\ j \in Nat /\ j <= c + b
          BY <1>3 DEF UpTo
        <4>2. j - c \in Nat \ {0} /\ c + (j - c) = j /\ j - c <= b
          BY <1>1, <3>1, <4>1
        <4>3. j - c \in T
          BY <1>2, <4>1, <4>2 DEF UpTo
        <4> QED
          BY <4>2, <4>3 DEF Shift
      <3>2. ASSUME NEW j \in UpTo(u, c + b), ~(j > c) PROVE j \in Breaks(w)
        BY <1>1, <1>3, <3>2 DEF UpTo
      <3>3. ASSUME NEW t \in T PROVE c + t \in UpTo(u, c + b)
        <4>1. t \in Breaks(v) /\ t \in Nat \ {0} /\ t <= b
          BY <1>3 DEF UpTo
        <4> QED
          BY <1>1, <1>2, <4>1 DEF UpTo
      <3>4. ASSUME NEW j \in Breaks(w) PROVE j \in UpTo(u, c + b)
        BY <1>1, <1>3 DEF UpTo
      <3>5. Shift(c, T) \subseteq UpTo(u, c + b)
        <4> HIDE DEF T
        <4> QED
          BY <3>3 DEF Shift
      <3> HIDE DEF T
      <3> QED
        BY <3>1, <3>2, <3>4, <3>5
    <2>3. Breaks(w) \cap Shift(c, T) = {}
      <3>1. \A t \in T : t \in Nat \ {0}
        BY <2>1
      <3>2. \A j \in Breaks(w) : j \in Nat /\ j <= c
        BY <1>1, <1>3 DEF UpTo
      <3> HIDE DEF T
      <3> QED
        BY <1>1, <3>1, <3>2 DEF Shift
    <2>4. IsFiniteSet(Breaks(w)) /\ Cardinality(Breaks(w)) \in Nat
      BY <1>1, BreaksFinite
    <2>5. IsFiniteSet(Shift(c, T)) /\ Cardinality(Shift(c, T)) = Cardinality(T)
      <3> HIDE DEF T
      <3>1. T \in SUBSET Nat
        BY <2>1
      <3> QED
        BY <1>1, <2>1, <3>1, ShiftCardinality
    <2>6. Cardinality(Breaks(w) \cup Shift(c, T)) =
             Cardinality(Breaks(w)) + Cardinality(Shift(c, T)) - Cardinality(Breaks(w) \cap Shift(c, T))
      <3> HIDE DEF T
      <3> QED
        BY <2>4, <2>5, FS_Union
    <2>7. Cardinality(Breaks(w) \cap Shift(c, T)) = 0
      BY <2>3, FS_EmptySet
    <2>8. Cardinality(UpTo(u, c + b)) = Cardinality(Breaks(w)) + Cardinality(T)
      <3> DEFINE a == Cardinality(Breaks(w))
                 d == Cardinality(T)
      <3>1. a \in Nat /\ d \in Nat
        BY <2>1, <2>4
      <3>2. Cardinality(Breaks(w) \cup Shift(c, T)) = a + d - 0
        <4> HIDE DEF T
        <4> QED
          BY <2>5, <2>6, <2>7
      <3>3. Cardinality(UpTo(u, c + b)) = a + d - 0
        <4> HIDE DEF T, a, d
        <4> QED
          BY <2>2, <3>2
      <3> HIDE DEF T, a, d
      <3>4. Cardinality(UpTo(u, c + b)) = a + d
        BY <3>1, <3>3
      <3> QED
        BY <3>4 DEF a, d
    <2> QED
      BY <2>8
  <1>5. Cardinality(Breaks(u)) = Cardinality(Breaks(w)) + Cardinality(Breaks(v))
    <2>1. UpTo(u, c + Len(v)) = Breaks(u) /\ UpTo(v, Len(v)) = Breaks(v) /\ Len(v) \in Nat
      BY <1>1, <1>3 DEF UpTo
    <2> QED
      BY <1>4, <2>1
  <1>6. \A b \in Nat : b <= c => UpTo(u, b) = UpTo(w, b)
    BY <1>1, <1>3 DEF UpTo
  <1> QED
    BY <1>4, <1>5, <1>6

(* The break before a position behind the cut, and before one of the part  *)
(* in front of it.                                                         *)
LEMMA CutLast ==
    ASSUME NEW u, NEW c, NEW w, NEW v, CutAt(u, c, w, v), NEW n \in Nat \ {0}
    PROVE  /\ LastBreak(u, c + n) = c + LastBreak(v, n)
           /\ n <= c => LastBreak(u, n) = LastBreak(w, n)
  <1>1. /\ c \in Nat /\ w \in Text /\ v \in Text /\ Breaks(w) = UpTo(u, c)
        /\ u \in Text /\ c \in {0} \cup Breaks(u)
    BY CutFacts
  <1>2. \A i \in Nat \ {0} : i \in Breaks(v) <=> c + i \in Breaks(u)
    BY CutFacts
  <1>3. Breaks(u) \in SUBSET Nat /\ Breaks(v) \in SUBSET (Nat \ {0})
    <2>1. Breaks(u) \in SUBSET Nat
      BY <1>1, BreaksNat
    <2>2. Breaks(v) \in SUBSET (Nat \ {0})
      BY <1>1, BreaksNat
    <2> QED
      BY <2>1, <2>2
  <1>4. LastBreak(u, c + n) = c + LastBreak(v, n)
    <2> DEFINE p == LastBreak(v, n)
    <2>1. p \in {0} \cup Breaks(v) /\ p < n /\ \A j \in Breaks(v) : j < n => j <= p
      BY <1>1, LastBreakIs
    <2> HIDE DEF p
    <2>2. c + p \in {0} \cup Breaks(u) /\ c + p < c + n /\ c + n \in Nat \ {0} /\ p \in Nat
      BY <1>1, <1>2, <1>3, <2>1
    <2>3. ASSUME NEW j \in Breaks(u), j < c + n PROVE j <= c + p
      <3>1. CASE j <= c
        BY <1>1, <1>3, <2>2, <3>1
      <3>2. CASE ~(j <= c)
        <4>1. j \in Nat /\ j - c \in Nat \ {0} /\ c + (j - c) = j /\ j - c < n
          BY <1>1, <1>3, <2>3, <3>2
        <4>2. j - c \in Breaks(v)
          BY <1>2, <4>1
        <4>3. j - c <= p
          BY <2>1, <4>1, <4>2
        <4> QED
          BY <1>1, <2>2, <4>1, <4>3
      <3> QED
        BY <3>1, <3>2
    <2>4. \A k \in Nat \ {0} : \A i \in {0} \cup Breaks(u) :
             (i < k /\ \A j \in Breaks(u) : j < k => j <= i) => i = LastBreak(u, k)
      BY <1>1, LastBreakIs
    <2>5. c + p = LastBreak(u, c + n)
      BY <2>2, <2>3, <2>4
    <2> QED
      BY <2>5 DEF p
  <1>5. ASSUME n <= c PROVE LastBreak(u, n) = LastBreak(w, n)
    <2> DEFINE p == LastBreak(w, n)
    <2>1. p \in {0} \cup Breaks(w) /\ p < n /\ \A j \in Breaks(w) : j < n => j <= p
      BY <1>1, LastBreakIs
    <2> HIDE DEF p
    <2>2. p \in {0} \cup Breaks(u)
      BY <1>1, <2>1 DEF UpTo
    <2>3. \A j \in Breaks(u) : j < n => j <= p
      BY <1>1, <1>3, <1>5, <2>1 DEF UpTo
    <2>4. \A i \in {0} \cup Breaks(u) :
             (i < n /\ \A j \in Breaks(u) : j < n => j <= i) => i = LastBreak(u, n)
      BY <1>1, LastBreakIs
    <2>5. p = LastBreak(u, n)
      BY <2>1, <2>2, <2>3, <2>4
    <2> QED
      BY <2>5 DEF p
  <1> QED
    BY <1>4, <1>5


LEMMA SameSubText ==
    ASSUME NEW s \in Text, NEW t \in Text, NEW a \in Nat \ {0}, NEW b \in Nat, NEW d \in Nat,
           b <= Len(s), d + b <= Len(t), \A i \in 1..Len(s) : i <= b => s[i] = t[d + i]
    PROVE  SubSeq(s, a, b) = SubSeq(t, d + a, d + b)
  <1> DEFINE x == SubSeq(s, a, b)
             y == SubSeq(t, d + a, d + b)
  <1>1. /\ x \in Text /\ Len(x) = IF a <= b THEN b - a + 1 ELSE 0
        /\ \A i \in 1..(b - a + 1) : x[i] = s[a + i - 1]
    BY SubText
  <1>2. d + a \in Nat \ {0} /\ d + b \in Nat
    OBVIOUS
  <1>3. /\ y \in Text /\ Len(y) = IF d + a <= d + b THEN (d + b) - (d + a) + 1 ELSE 0
        /\ \A i \in 1..((d + b) - (d + a) + 1) : y[i] = t[(d + a) + i - 1]
    BY <1>2, SubText
  <1> HIDE DEF x, y
  <1>4. Len(x) = Len(y) /\ Len(s) \in Nat
    BY <1>1, <1>3 DEF Text
  <1>5. ASSUME NEW i \in 1..Len(x) PROVE x[i] = y[i]
    <2>1. i \in Nat /\ i >= 1 /\ i <= b - a + 1 /\ i <= (d + b) - (d + a) + 1
      BY <1>1, <1>4
    <2>2. x[i] = s[a + i - 1] /\ y[i] = t[(d + a) + i - 1]
      BY <1>1, <1>3, <2>1
    <2>3. a + i - 1 \in 1..Len(s) /\ a + i - 1 <= b /\ (d + a) + i - 1 = d + (a + i - 1)
      BY <1>4, <2>1
    <2> QED
      BY <2>2, <2>3
  <1>6. x = y
    BY <1>1, <1>3, <1>4, <1>5, SeqEqual DEF Text
  <1> QED
    BY <1>6 DEF x, y

(* The lines in front of the cut. *)
LEMMA CutFront ==
    ASSUME NEW u, NEW c, NEW w, NEW v, CutAt(u, c, w, v), NEW i \in 1..Cardinality(Breaks(w))
    PROVE  i \in 1..Cardinality(Breaks(u)) /\ Lines(u)[i] = Lines(w)[i]
  <1> DEFINE b == NthBreak(w, i)
  <1>1. /\ c \in Nat /\ c <= Len(u) /\ w \in Text /\ u \in Text /\ v \in Text
        /\ Breaks(w) = UpTo(u, c) /\ Len(w) = c
    BY CutFacts
  <1>2. \A j \in 1..c : w[j] = u[j]
    BY CutFacts
  <1>3. b \in Breaks(w) /\ Cardinality(UpTo(w, b)) = i
    BY <1>1, NthBreakIs
  <1>4. b \in Nat \ {0} /\ b <= c
    BY <1>1, <1>3, BreaksNat
  <1>5. i \in 1..Cardinality(Breaks(u))
    <2>1. /\ Cardinality(Breaks(u)) = Cardinality(Breaks(w)) + Cardinality(Breaks(v))
      BY CutRanks
    <2>2. Cardinality(Breaks(w)) \in Nat
      BY <1>1, BreaksFinite
    <2>3. Cardinality(Breaks(v)) \in Nat
      BY <1>1, BreaksFinite
    <2> QED
      BY <2>1, <2>2, <2>3
  <1> HIDE DEF b
  <1>6. b = NthBreak(u, i)
    <2>1. UpTo(u, b) = UpTo(w, b)
      BY <1>4, CutRanks
    <2>2. b \in Breaks(u)
      BY <1>1, <1>3 DEF UpTo
    <2>3. \A k \in Breaks(u) : Cardinality(UpTo(u, k)) = i => k = NthBreak(u, i)
      BY <1>1, <1>5, NthBreakIs
    <2> QED
      BY <1>3, <2>1, <2>2, <2>3
  <1>7. LastBreak(u, b) = LastBreak(w, b)
    BY <1>4, CutLast
  <1>8. LastBreak(w, b) \in Nat
    <2>1. LastBreak(w, b) \in {0} \cup Breaks(w)
      BY <1>1, <1>4, LastBreakIs
    <2>2. Breaks(w) \in SUBSET Nat
      BY <1>1, BreaksNat
    <2> QED
      BY <2>1, <2>2
  <1>9. SubSeq(w, LastBreak(w, b) + 1, b - 1) = SubSeq(u, LastBreak(w, b) + 1, b - 1)
    <2> DEFINE a == LastBreak(w, b) + 1
    <2>1. a \in Nat \ {0} /\ b - 1 \in Nat /\ b - 1 <= Len(w) /\ 0 + (b - 1) <= Len(u)
      BY <1>1, <1>4, <1>8
    <2>2. \A j \in 1..Len(w) : j <= b - 1 => w[j] = u[0 + j]
      BY <1>1, <1>2
    <2> HIDE DEF a
    <2>3. SubSeq(w, a, b - 1) = SubSeq(u, 0 + a, 0 + (b - 1))
      BY <1>1, <2>1, <2>2, SameSubText
    <2>4. 0 + a = a /\ 0 + (b - 1) = b - 1
      BY <2>1
    <2>5. SubSeq(w, a, b - 1) = SubSeq(u, a, b - 1)
      BY <2>3, <2>4
    <2> QED
      BY <2>5 DEF a
  <1>10. Lines(u)[i] = SubSeq(u, LastBreak(u, b) + 1, b - 1)
    BY <1>5, <1>6 DEF Lines
  <1>11. Lines(w)[i] = SubSeq(w, LastBreak(w, b) + 1, b - 1)
    BY DEF Lines, b
  <1> QED
    BY <1>5, <1>7, <1>9, <1>10, <1>11

(* The lines behind the cut. *)
LEMMA CutBack ==
    ASSUME NEW u, NEW c, NEW w, NEW v, CutAt(u, c, w, v), NEW i \in 1..Cardinality(Breaks(v))
    PROVE  /\ Cardinality(Breaks(w)) + i \in 1..Cardinality(Breaks(u))
           /\ Lines(u)[Cardinality(Breaks(w)) + i] = Lines(v)[i]
  <1> DEFINE b == NthBreak(v, i)
             k == Cardinality(Breaks(w))
  <1>1. /\ c \in Nat /\ c <= Len(u) /\ w \in Text /\ u \in Text /\ v \in Text
        /\ Len(v) = Len(u) - c
    BY CutFacts
  <1>2. \A j \in 1..Len(v) : v[j] = u[c + j]
    BY CutFacts
  <1>3. b \in Breaks(v) /\ Cardinality(UpTo(v, b)) = i
    BY <1>1, NthBreakIs
  <1>4. b \in Nat \ {0} /\ b <= Len(v) /\ Len(v) \in Nat
    BY <1>1, <1>3, BreaksNat
  <1>5. k + i \in 1..Cardinality(Breaks(u)) /\ k \in Nat /\ i \in Nat
    <2>1. /\ Cardinality(Breaks(u)) = Cardinality(Breaks(w)) + Cardinality(Breaks(v))
      BY CutRanks
    <2>2. Cardinality(Breaks(w)) \in Nat
      BY <1>1, BreaksFinite
    <2>3. Cardinality(Breaks(v)) \in Nat
      BY <1>1, BreaksFinite
    <2> QED
      BY <2>1, <2>2, <2>3
  <1> HIDE DEF b
  <1>6. c + b = NthBreak(u, k + i)
    <2>1. Cardinality(UpTo(u, c + b)) = k + i
      BY <1>3, <1>4, CutRanks
    <2>2. c + b \in Breaks(u)
      BY <1>3, <1>4, CutFacts
    <2>3. \A j \in Breaks(u) : Cardinality(UpTo(u, j)) = k + i => j = NthBreak(u, k + i)
      <3> HIDE DEF k
      <3> QED
        BY <1>1, <1>5, NthBreakIs
    <2> QED
      BY <2>1, <2>2, <2>3
  <1>7. LastBreak(u, c + b) = c + LastBreak(v, b)
    BY <1>4, CutLast
  <1>8. LastBreak(v, b) \in Nat
    <2>1. LastBreak(v, b) \in {0} \cup Breaks(v)
      BY <1>1, <1>4, LastBreakIs
    <2>2. Breaks(v) \in SUBSET Nat
      BY <1>1, BreaksNat
    <2> QED
      BY <2>1, <2>2
  <1>9. SubSeq(v, LastBreak(v, b) + 1, b - 1) = SubSeq(u, c + LastBreak(v, b) + 1, (c + b) - 1)
    <2> DEFINE p == LastBreak(v, b)
               a == p + 1
    <2>0. p \in Nat
      BY <1>8
    <2> HIDE DEF p
    <2>1. a \in Nat \ {0} /\ b - 1 \in Nat /\ b - 1 <= Len(v) /\ c + (b - 1) <= Len(u)
      <3>1. Len(u) \in Nat
        BY <1>1, BreaksNat
      <3> QED
        BY <1>1, <1>4, <2>0, <3>1
    <2>4. c + a = c + p + 1 /\ c + (b - 1) = (c + b) - 1
      BY <1>1, <1>4, <2>0
    <2> HIDE DEF a
    <2>2. \A j \in 1..Len(v) : j <= b - 1 => v[j] = u[c + j]
      BY <1>2
    <2>3. SubSeq(v, a, b - 1) = SubSeq(u, c + a, c + (b - 1))
      <3> DEFINE e == b - 1
      <3>1. e \in Nat /\ e <= Len(v) /\ c + e <= Len(u)
        BY <2>1
      <3>2. \A j \in 1..Len(v) : j <= e => v[j] = u[c + j]
        BY <2>2
      <3> HIDE DEF e
      <3>3. SubSeq(v, a, e) = SubSeq(u, c + a, c + e)
        BY <1>1, <2>1, <3>1, <3>2, SameSubText
      <3> QED
        BY <3>3 DEF e
    <2>5. SubSeq(v, a, b - 1) = SubSeq(u, c + p + 1, (c + b) - 1)
      BY <2>3, <2>4
    <2> QED
      BY <2>5 DEF a, p
  <1> HIDE DEF k
  <1>10. Lines(u)[k + i] = SubSeq(u, LastBreak(u, c + b) + 1, (c + b) - 1)
    <2>1. \A d \in 1..Cardinality(Breaks(u)) :
             Lines(u)[d] = SubSeq(u, LastBreak(u, NthBreak(u, d)) + 1, NthBreak(u, d) - 1)
      BY DEF Lines
    <2> QED
      BY <1>5, <1>6, <2>1
  <1>11. Lines(v)[i] = SubSeq(v, LastBreak(v, b) + 1, b - 1)
    BY DEF Lines, b
  <1>12. k + i \in 1..Cardinality(Breaks(u)) /\ Lines(u)[k + i] = Lines(v)[i]
    BY <1>5, <1>7, <1>9, <1>10, <1>11
  <1> QED
    BY <1>12 DEF k


LEMMA LinesType ==
    ASSUME NEW s \in Text
    PROVE  Lines(s) \in Seq(Text) /\ Len(Lines(s)) = Cardinality(Breaks(s))
  <1> DEFINE k == Cardinality(Breaks(s))
  <1>1. k \in Nat
    BY BreaksFinite
  <1>2. ASSUME NEW i \in 1..k
        PROVE  SubSeq(s, LastBreak(s, NthBreak(s, i)) + 1, NthBreak(s, i) - 1) \in Text
    <2> DEFINE b == NthBreak(s, i)
    <2>1. b \in Breaks(s)
      BY NthBreakIs
    <2> HIDE DEF b, k
    <2>2. b \in Nat \ {0} /\ b - 1 \in Nat /\ b - 1 <= Len(s)
      BY <2>1, BreaksNat
    <2>3. LastBreak(s, b) \in {0} \cup Breaks(s)
      BY <2>2, LastBreakIs
    <2>4. LastBreak(s, b) + 1 \in Nat \ {0}
      BY <2>3, BreaksNat
    <2>5. SubSeq(s, LastBreak(s, b) + 1, b - 1) \in Text
      BY <2>2, <2>4, SubText
    <2> QED
      BY <2>5 DEF b
  <1>3. Lines(s) \in [1..k -> Text]
    BY <1>2 DEF Lines
  <1> HIDE DEF k
  <1>4. Lines(s) \in Seq(Text)
    BY <1>1, <1>3, SeqDef
  <1>5. Len(Lines(s)) = k
    BY <1>1, <1>3, <1>4, LenProperties
  <1> QED
    BY <1>4, <1>5 DEF k

(* The lines of a text are those of its two parts, and what follows the    *)
(* last break of the second part is what follows the last of the text.     *)
LEMMA CutLines ==
    ASSUME NEW u, NEW c, NEW w, NEW v, CutAt(u, c, w, v)
    PROVE  Lines(u) = Lines(w) \o Lines(v)
  <1> DEFINE k == Cardinality(Breaks(w))
             n == Cardinality(Breaks(v))
             x == Lines(u)
             y == Lines(w)
             z == Lines(v)
  <1>1. w \in Text /\ u \in Text /\ v \in Text
    BY CutFacts
  <1>2. x \in Seq(Text) /\ Len(x) = Cardinality(Breaks(u))
    BY <1>1, LinesType
  <1>3. y \in Seq(Text) /\ Len(y) = k /\ k \in Nat
    BY <1>1, LinesType, BreaksFinite
  <1>4. z \in Seq(Text) /\ Len(z) = n /\ n \in Nat
    BY <1>1, LinesType, BreaksFinite
  <1>5. Cardinality(Breaks(u)) = k + n
    BY CutRanks
  <1>6. \A i \in 1..k : x[i] = y[i]
    BY CutFront
  <1>7. \A i \in 1..n : x[k + i] = z[i]
    BY CutBack
  <1> HIDE DEF x, y, z, k, n
  <1>8. /\ y \o z \in Seq(Text) /\ Len(y \o z) = k + n
        /\ \A i \in 1..(k + n) : (y \o z)[i] = IF i <= k THEN y[i] ELSE z[i - k]
    BY <1>3, <1>4, ConcatProperties
  <1>9. ASSUME NEW i \in 1..(k + n) PROVE x[i] = (y \o z)[i]
    <2>1. CASE i <= k
      BY <1>3, <1>4, <1>6, <1>8, <2>1
    <2>2. CASE ~(i <= k)
      <3>1. i - k \in 1..n /\ k + (i - k) = i
        BY <1>3, <1>4, <2>2
      <3>2. x[i] = z[i - k]
        BY <1>7, <3>1
      <3> QED
        BY <1>8, <2>2, <3>2
    <2> QED
      BY <2>1, <2>2
  <1>10. x = y \o z
    BY <1>2, <1>5, <1>8, <1>9, SeqEqual
  <1> QED
    BY <1>10 DEF x, y, z

LEMMA RemainderIs ==
    ASSUME NEW s \in Text
    PROVE  /\ LastBreak(s, Len(s) + 1) \in {0} \cup Breaks(s)
           /\ LastBreak(s, Len(s) + 1) \in Nat /\ LastBreak(s, Len(s) + 1) <= Len(s)
           /\ \A j \in Breaks(s) : j <= LastBreak(s, Len(s) + 1)
           /\ CutAt(s, LastBreak(s, Len(s) + 1), SubSeq(s, 1, LastBreak(s, Len(s) + 1)), Remainder(s))
           /\ Remainder(s) \in Text /\ Breaks(Remainder(s)) = {}
  <1> DEFINE c == LastBreak(s, Len(s) + 1)
             n == Len(s) + 1
  <1>1. Len(s) \in Nat /\ n \in Nat \ {0} /\ \A j \in Breaks(s) : j \in Nat /\ j <= Len(s)
    BY BreaksNat
  <1>2. c \in {0} \cup Breaks(s) /\ c < n /\ \A j \in Breaks(s) : j < n => j <= c
    <2> HIDE DEF n
    <2>1. /\ LastBreak(s, n) \in {0} \cup Breaks(s) /\ LastBreak(s, n) < n
          /\ \A j \in Breaks(s) : j < n => j <= LastBreak(s, n)
      BY <1>1, LastBreakIs
    <2> QED
      BY <2>1 DEF n
  <1>3. c \in Nat /\ c <= Len(s) /\ \A j \in Breaks(s) : j <= c
    <2> HIDE DEF c
    <2> QED
      BY <1>1, <1>2
  <1>4. CutAt(s, c, SubSeq(s, 1, c), Remainder(s))
    BY <1>2 DEF CutAt, Remainder
  <1> HIDE DEF c, n
  <1>5. Remainder(s) \in Text
    BY <1>4, CutFacts
  <1>6. Breaks(Remainder(s)) = {}
    <2>1. \A i \in Nat \ {0} : i \in Breaks(Remainder(s)) => c + i \in Breaks(s)
      BY <1>4, CutFacts
    <2>2. Breaks(Remainder(s)) \in SUBSET (Nat \ {0})
      BY <1>5, BreaksNat
    <2>3. ASSUME NEW i \in Breaks(Remainder(s)) PROVE FALSE
      <3>1. i \in Nat \ {0} /\ c + i \in Breaks(s)
        BY <2>1, <2>2
      <3>2. c + i <= c
        BY <1>3, <3>1
      <3> QED
        BY <1>3, <3>1, <3>2
    <2> QED
      BY <2>3
  <1>7. /\ c \in {0} \cup Breaks(s) /\ c \in Nat /\ c <= Len(s) /\ \A j \in Breaks(s) : j <= c
        /\ CutAt(s, c, SubSeq(s, 1, c), Remainder(s))
        /\ Remainder(s) \in Text /\ Breaks(Remainder(s)) = {}
    BY <1>2, <1>3, <1>4, <1>5, <1>6
  <1> QED
    BY <1>7, Zenon DEF c


LEMMA EmptyText ==
    /\ <<>> \in Text /\ Breaks(<<>>) = {} /\ Lines(<<>>) = <<>> /\ Remainder(<<>>) = <<>>
  <1>1. <<>> \in Text /\ Len(<<>>) = 0
    BY EmptySeq DEF Text
  <1>2. Breaks(<<>>) = {}
    BY <1>1, BreaksFinite
  <1>3. Lines(<<>>) = <<>>
    <2>1. Lines(<<>>) \in Seq(Text) /\ Len(Lines(<<>>)) = 0
      BY <1>1, <1>2, LinesType, FS_EmptySet
    <2> QED
      BY <2>1, EmptySeq
  <1>4. Remainder(<<>>) = <<>>
    <2>1. Remainder(<<>>) \in Text /\ Len(Remainder(<<>>)) = 0 - LastBreak(<<>>, 0 + 1)
      BY <1>1, RemainderIs, CutFacts
    <2>2. LastBreak(<<>>, 0 + 1) = 0
      BY <1>1, <1>2, RemainderIs
    <2>3. Remainder(<<>>) \in Seq(Char) /\ Len(Remainder(<<>>)) = 0
      BY <2>1, <2>2 DEF Text
    <2> QED
      BY <2>3, EmptySeq
  <1> QED
    BY <1>1, <1>2, <1>3, <1>4

LEMMA ConcatText ==
    ASSUME NEW s \in Text, NEW t \in Text
    PROVE  /\ s \o t \in Text /\ Len(s \o t) = Len(s) + Len(t)
           /\ \A i \in 1..Len(s) : (s \o t)[i] = s[i]
           /\ \A i \in 1..Len(t) : (s \o t)[Len(s) + i] = t[i]
  <1>1. /\ s \o t \in Text /\ Len(s \o t) = Len(s) + Len(t)
        /\ \A i \in 1..(Len(s) + Len(t)) :
              (s \o t)[i] = IF i <= Len(s) THEN s[i] ELSE t[i - Len(s)]
    BY ConcatProperties DEF Text
  <1>2. Len(s) \in Nat /\ Len(t) \in Nat
    BY BreaksNat
  <1>3. \A i \in 1..Len(s) : i \in 1..(Len(s) + Len(t)) /\ i <= Len(s)
    BY <1>2
  <1>4. \A i \in 1..Len(t) : /\ Len(s) + i \in 1..(Len(s) + Len(t)) /\ ~(Len(s) + i <= Len(s))
                             /\ (Len(s) + i) - Len(s) = i
    BY <1>2
  <1>5. \A i \in 1..Len(s) : (s \o t)[i] = s[i]
    BY <1>1, <1>3
  <1>6. \A i \in 1..Len(t) : (s \o t)[Len(s) + i] = t[i]
    BY <1>1, <1>4
  <1> QED
    BY <1>1, <1>5, <1>6

(* Behind the last break of what was read, more output makes the same      *)
(* difference as behind all of it.                                         *)
LEMMA MoreIsCut ==
    ASSUME NEW s \in Text, NEW t \in Text
    PROVE  CutAt(s \o t, LastBreak(s, Len(s) + 1), SubSeq(s, 1, LastBreak(s, Len(s) + 1)),
                 Remainder(s) \o t)
  <1> DEFINE c == LastBreak(s, Len(s) + 1)
             u == s \o t
             w == SubSeq(s, 1, c)
             r == Remainder(s)
             v == SubSeq(u, c + 1, Len(u))
  <1>1. c \in {0} \cup Breaks(s) /\ c \in Nat /\ c <= Len(s) /\ CutAt(s, c, w, r) /\ r \in Text
    BY RemainderIs, Zenon
  <1>2. Len(s) \in Nat
    BY BreaksNat
  <1>3. Len(t) \in Nat
    BY BreaksNat
  <1>4. u \in Text /\ Len(u) = Len(s) + Len(t)
    BY ConcatText
  <1>5. \A i \in 1..Len(s) : u[i] = s[i]
    BY ConcatText
  <1>6. \A i \in 1..Len(t) : u[Len(s) + i] = t[i]
    BY ConcatText
  <1> HIDE DEF c, u, r
  <1>7. c \in {0} \cup Breaks(u)
    <2>1. CASE c = 0
      BY <2>1
    <2>2. CASE c \in Breaks(s)
      <3>1. c \in 1..Len(s) /\ s[c] = "NL"
        BY <2>2, BreakIs
      <3>2. c \in 1..Len(u) /\ u[c] = "NL"
        BY <1>2, <1>3, <1>4, <1>5, <3>1
      <3> QED
        BY <1>4, <3>2, BreakIs
    <2> QED
      BY <1>1, <2>1, <2>2
  <1>8. SubSeq(u, 1, c) = w
    <2>1. 1 \in Nat \ {0} /\ 0 + c <= Len(u) /\ 0 + c = c /\ 0 + 1 = 1
      BY <1>1, <1>2, <1>3, <1>4
    <2>2. \A i \in 1..Len(s) : i <= c => s[i] = u[0 + i]
      BY <1>2, <1>5
    <2>3. SubSeq(s, 1, c) = SubSeq(u, 0 + 1, 0 + c)
      BY <1>1, <1>4, <2>1, <2>2, SameSubText
    <2> QED
      BY <2>1, <2>3
  <1>9. CutAt(u, c, w, v)
    BY <1>4, <1>7, <1>8 DEF CutAt
  <1> HIDE DEF v, w
  <1>10. v \in Text /\ Len(v) = Len(u) - c /\ \A i \in 1..Len(v) : v[i] = u[c + i]
    BY <1>9, CutFacts
  <1>11. Len(r) = Len(s) - c /\ \A i \in 1..Len(r) : r[i] = s[c + i]
    BY <1>1, CutFacts
  <1>12. r \o t \in Text /\ Len(r \o t) = Len(r) + Len(t)
    BY <1>1, ConcatText
  <1>13. \A i \in 1..Len(r) : (r \o t)[i] = r[i]
    BY <1>1, ConcatText
  <1>14. \A i \in 1..Len(t) : (r \o t)[Len(r) + i] = t[i]
    BY <1>1, ConcatText
  <1>15. Len(v) = Len(r \o t) /\ Len(r) \in Nat /\ Len(v) \in Nat
    BY <1>1, <1>2, <1>3, <1>4, <1>10, <1>11, <1>12
  <1>16. ASSUME NEW i \in 1..Len(v) PROVE v[i] = (r \o t)[i]
    <2>1. CASE i <= Len(r)
      <3>1. i \in 1..Len(r) /\ c + i \in 1..Len(s)
        BY <1>1, <1>2, <1>11, <1>15, <2>1
      <3> QED
        BY <1>5, <1>10, <1>11, <1>13, <3>1
    <2>2. CASE ~(i <= Len(r))
      <3>1. i - Len(r) \in 1..Len(t) /\ Len(r) + (i - Len(r)) = i
                                     /\ Len(s) + (i - Len(r)) = c + i
        BY <1>1, <1>2, <1>3, <1>11, <1>12, <1>15, <2>2
      <3>2. (r \o t)[i] = t[i - Len(r)]
        BY <1>14, <3>1
      <3>3. u[c + i] = t[i - Len(r)]
        BY <1>6, <3>1
      <3> QED
        BY <1>10, <3>2, <3>3
    <2> QED
      BY <2>1, <2>2
  <1>17. v = r \o t
    BY <1>10, <1>12, <1>15, <1>16, SeqEqual DEF Text
  <1>18. CutAt(u, c, w, r \o t)
    BY <1>9, <1>17
  <1> QED
    BY <1>18, Zenon DEF u, c, w, r

(* One read more: its lines are those of the remainder and the read, and   *)
(* so is what is left.                                                     *)
LEMMA ReadOn ==
    ASSUME NEW s \in Text, NEW t \in Text
    PROVE  /\ Lines(s \o t) = Lines(s) \o Lines(Remainder(s) \o t)
           /\ Remainder(s \o t) = Remainder(Remainder(s) \o t)
  <1> DEFINE c == LastBreak(s, Len(s) + 1)
             u == s \o t
             w == SubSeq(s, 1, c)
             r == Remainder(s)
             v == r \o t
  <1>1. CutAt(u, c, w, v)
    BY MoreIsCut, Zenon
  <1>2. CutAt(s, c, w, r) /\ r \in Text /\ Breaks(r) = {}
    BY RemainderIs, Zenon
  <1>3. Lines(s) = Lines(w)
    <2> HIDE DEF c, w, r
    <2>1. Lines(r) \in Seq(Text) /\ Len(Lines(r)) = 0
      BY <1>2, LinesType, FS_EmptySet
    <2>2. Lines(r) = <<>>
      BY <2>1, EmptySeq
    <2>3. w \in Text
      BY <1>2, CutFacts
    <2>4. Lines(w) \in Seq(Text)
      BY <2>3, LinesType
    <2>5. Lines(s) = Lines(w) \o Lines(r)
      BY <1>2, CutLines
    <2> QED
      BY <2>2, <2>4, <2>5, ConcatEmptySeq
  <1>4. Lines(u) = Lines(s) \o Lines(v)
    <2> HIDE DEF u, c, w, r, v
    <2>1. Lines(u) = Lines(w) \o Lines(v)
      BY <1>1, CutLines
    <2> QED
      BY <1>3, <2>1
  <1>5. Remainder(u) = Remainder(v)
    <2> HIDE DEF u, c, w, r, v
    <2> DEFINE n == Len(v) + 1
               p == LastBreak(v, Len(v) + 1)
    <2>1. u \in Text /\ v \in Text /\ c \in Nat /\ Len(v) = Len(u) - c
                     /\ \A i \in 1..Len(v) : v[i] = u[c + i]
      BY <1>1, CutFacts
    <2>2. Len(u) \in Nat
      BY <2>1, BreaksNat
    <2>3. Len(v) \in Nat
      BY <2>1, BreaksNat
    <2>4. n \in Nat \ {0} /\ c + n = Len(u) + 1 /\ c + Len(v) = Len(u)
      BY <2>1, <2>2, <2>3
    <2>5. p \in Nat
      BY <2>1, RemainderIs
    <2>6. LastBreak(u, c + n) = c + LastBreak(v, n)
      <3> HIDE DEF n
      <3> QED
        BY <1>1, <2>4, CutLast
    <2>7. LastBreak(u, Len(u) + 1) = c + p
      BY <2>4, <2>6
    <2> HIDE DEF n, p
    <2>8. SubSeq(v, p + 1, Len(v)) = SubSeq(u, c + (p + 1), c + Len(v))
      <3> DEFINE a == p + 1
                 e == Len(v)
      <3>1. a \in Nat \ {0} /\ e \in Nat /\ e <= Len(v) /\ c + e <= Len(u)
        BY <2>2, <2>3, <2>4, <2>5
      <3>2. \A i \in 1..Len(v) : i <= e => v[i] = u[c + i]
        BY <2>1
      <3> HIDE DEF a, e
      <3>3. SubSeq(v, a, e) = SubSeq(u, c + a, c + e)
        BY <2>1, <3>1, <3>2, SameSubText
      <3> QED
        BY <3>3 DEF a, e
    <2>9. c + (p + 1) = (c + p) + 1
      BY <2>1, <2>5
    <2>10. Remainder(v) = SubSeq(v, p + 1, Len(v))
      BY DEF Remainder, p
    <2>11. Remainder(u) = SubSeq(u, (c + p) + 1, Len(u))
      BY <2>7 DEF Remainder
    <2> QED
      BY <2>4, <2>8, <2>9, <2>10, <2>11
  <1> QED
    BY <1>4, <1>5, Zenon DEF u, v, r


-----------------------------------------------------------------------------
(* The capture of one workload. *)

Outputs == [cap : {"none", "spawned", "on", "ended"}, all : Text, read : Nat,
            rem : Text, shown : Seq(Text)]

(* What was read of the output. *)
Seen(o) == SubSeq(o.all, 1, o.read)

OutOK(o) ==
    /\ o \in Outputs /\ o.read <= Len(o.all) /\ Breaks(o.rem) = {}
    /\ o.cap \in {"none", "spawned"} => o.read = 0 /\ o.rem = <<>> /\ o.shown = <<>>
    /\ o.cap = "on" => o.rem = Remainder(Seen(o)) /\ o.shown = Lines(Seen(o))

LEMMA NoOutputOK == OutOK(NoOutput)
  <1>1. <<>> \in Text /\ Breaks(<<>>) = {} /\ <<>> \in Seq(Text) /\ Len(<<>>) = 0
    BY EmptyText, EmptySeq
  <1> QED
    BY <1>1 DEF OutOK, NoOutput, Outputs

LEMMA SpawnOK ==
    ASSUME NEW o, OutOK(o), o.cap = "none"
    PROVE  OutOK([o EXCEPT !.cap = "spawned"])
  BY DEF OutOK, Outputs

LEMMA OnOK ==
    ASSUME NEW o, OutOK(o), o.cap = "spawned"
    PROVE  OutOK([o EXCEPT !.cap = "on"])
  <1> DEFINE p == [o EXCEPT !.cap = "on"]
  <1>1. /\ p \in Outputs /\ p.all = o.all /\ p.read = 0 /\ p.rem = <<>> /\ p.shown = <<>>
        /\ p.cap = "on" /\ p.all \in Text
    BY DEF OutOK, Outputs
  <1> HIDE DEF p
  <1>2. p.read <= Len(p.all) /\ Breaks(p.rem) = {}
    BY <1>1, EmptyText, BreaksNat
  <1>3. Seen(p) = <<>>
    <2>1. SubSeq(p.all, 1, 0) = <<>>
      BY SubSeqEmpty
    <2> QED
      BY <1>1, <2>1 DEF Seen
  <1>4. OutOK(p)
    BY <1>1, <1>2, <1>3, EmptyText DEF OutOK
  <1> QED
    BY <1>4 DEF p

LEMMA WriteOK ==
    ASSUME NEW o, OutOK(o), NEW c \in Char
    PROVE  OutOK([o EXCEPT !.all = Append(@, c)])
  <1> DEFINE a == Append(o.all, c)
             p == [o EXCEPT !.all = Append(@, c)]
  <1>0. /\ o \in Outputs /\ o.all \in Text /\ o.read \in Nat /\ o.read <= Len(o.all)
        /\ Len(o.all) \in Nat
    BY BreaksNat DEF OutOK, Outputs
  <1>1. a \in Text /\ Len(a) = Len(o.all) + 1 /\ \A i \in 1..Len(o.all) : a[i] = o.all[i]
    BY <1>0, AppendProperties DEF Text
  <1>2. p = [o EXCEPT !.all = a]
    OBVIOUS
  <1> HIDE DEF a, p
  <1>3. /\ p \in Outputs /\ p.all = a /\ p.cap = o.cap /\ p.read = o.read /\ p.rem = o.rem
        /\ p.shown = o.shown
    BY <1>0, <1>1, <1>2 DEF Outputs
  <1>4. Seen(p) = Seen(o)
    <2>1. 1 \in Nat \ {0} /\ 0 + o.read <= Len(a) /\ 0 + o.read = o.read /\ 0 + 1 = 1
      BY <1>0, <1>1
    <2>2. \A i \in 1..Len(o.all) : i <= o.read => o.all[i] = a[0 + i]
      BY <1>0, <1>1
    <2>3. SubSeq(o.all, 1, o.read) = SubSeq(a, 0 + 1, 0 + o.read)
      BY <1>0, <1>1, <2>1, <2>2, SameSubText
    <2> QED
      BY <1>3, <2>1, <2>3 DEF Seen
  <1>5. p.read <= Len(p.all)
    BY <1>0, <1>1, <1>3
  <1>6. OutOK(p)
    BY <1>3, <1>4, <1>5 DEF OutOK
  <1> QED
    BY <1>6 DEF p

LEMMA ReadOK ==
    ASSUME NEW o, OutOK(o), o.cap = "on", NEW n \in 1..(Len(o.all) - o.read), NEW chunk,
           chunk = o.rem \o SubSeq(o.all, o.read + 1, o.read + n)
    PROVE  OutOK([o EXCEPT !.read = @ + n, !.rem = Remainder(chunk),
                           !.shown = @ \o Lines(chunk)])
  <1> DEFINE s == Seen(o)
             t == SubSeq(o.all, o.read + 1, o.read + n)
             k == o.read + n
             m == Remainder(chunk)
             h == o.shown \o Lines(chunk)
             p == [o EXCEPT !.read = @ + n, !.rem = Remainder(chunk),
                            !.shown = @ \o Lines(chunk)]
  <1>0. /\ o \in Outputs /\ o.all \in Text /\ o.read \in Nat /\ o.read <= Len(o.all)
        /\ o.shown \in Seq(Text) /\ o.rem = Remainder(s) /\ o.shown = Lines(s)
    BY DEF OutOK, Outputs
  <1>1. Len(o.all) \in Nat
    BY <1>0, BreaksNat
  <1>2. n \in Nat /\ k \in Nat /\ k <= Len(o.all) /\ o.read + 1 \in Nat \ {0} /\ o.read <= k
    <2>1. \A x, y \in Nat : \A j \in 1..(x - y) :
             /\ j \in Nat /\ y + j \in Nat /\ y + j <= x /\ y <= y + j
             /\ y + 1 \in Nat \ {0}
      OBVIOUS
    <2>2. o.read \in Nat
      BY <1>0
    <2> QED
      BY <1>1, <2>1, <2>2
  <1>3. s \in Text
    BY <1>0, SubText DEF Seen
  <1>4. t \in Text
    BY <1>0, <1>1, <1>2, SubText
  <1>5. SubSeq(o.all, 1, k) = s \o t
    <2> DEFINE a == o.all
               d == o.read
    <2>1. /\ a \in Seq(Char) /\ 1 \in 1..(Len(a) + 1) /\ d \in (1 - 1)..Len(a)
          /\ k \in d..Len(a)
      <3>1. a \in Seq(Char) /\ d \in Nat /\ d <= Len(a)
        BY <1>0 DEF Text
      <3>2. Len(a) \in Nat /\ k \in Nat /\ k <= Len(a) /\ d <= k
        BY <1>1, <1>2
      <3> HIDE DEF a, d, k
      <3> QED
        BY <3>1, <3>2
    <2> HIDE DEF a, d, k
    <2>2. SubSeq(a, 1, d) \o SubSeq(a, d + 1, k) = SubSeq(a, 1, k)
      BY <2>1, ConcatAdjacentSubSeq
    <2> QED
      BY <2>2 DEF a, d, k, Seen
  <1>6. chunk = Remainder(s) \o t
    BY <1>0
  <1>7. p = [o EXCEPT !.read = k, !.rem = m, !.shown = h]
    OBVIOUS
  <1> HIDE DEF s, t, k, p
  <1>8. Lines(s \o t) = Lines(s) \o Lines(chunk) /\ Remainder(s \o t) = Remainder(chunk)
    BY <1>3, <1>4, <1>6, ReadOn
  <1>9. Remainder(s) \in Text
    BY <1>3, RemainderIs
  <1>10. chunk \in Text
    BY <1>4, <1>6, <1>9, ConcatText
  <1>11. m \in Text /\ Breaks(m) = {}
    BY <1>10, RemainderIs
  <1>12. h \in Seq(Text)
    <2>1. Lines(chunk) \in Seq(Text)
      BY <1>10, LinesType
    <2> QED
      BY <1>0, <2>1, ConcatProperties
  <1>13. m = Remainder(SubSeq(o.all, 1, k)) /\ h = Lines(SubSeq(o.all, 1, k))
    BY <1>0, <1>5, <1>8
  <1> HIDE DEF m, h
  <1>14. /\ p \in Outputs /\ p.all = o.all /\ p.cap = "on" /\ p.read = k /\ p.rem = m
         /\ p.shown = h
    BY <1>0, <1>2, <1>7, <1>11, <1>12 DEF Outputs
  <1>15. OutOK(p)
    BY <1>2, <1>11, <1>13, <1>14 DEF OutOK, Seen
  <1> QED
    BY <1>15 DEF p

LEMMA EndOK ==
    ASSUME NEW o, OutOK(o), NEW last \in Seq(Text)
    PROVE  OutOK([o EXCEPT !.cap = "ended", !.shown = @ \o last])
  <1> DEFINE h == o.shown \o last
  <1>1. h \in Seq(Text)
    BY ConcatProperties DEF OutOK, Outputs
  <1>2. [o EXCEPT !.cap = "ended", !.shown = @ \o last] = [o EXCEPT !.cap = "ended", !.shown = h]
    OBVIOUS
  <1> HIDE DEF h
  <1>3. OutOK([o EXCEPT !.cap = "ended", !.shown = h])
    BY <1>1 DEF OutOK, Outputs
  <1> QED
    BY <1>2, <1>3

LEMMA LastLineType ==
    ASSUME NEW s \in Text
    PROVE  LastLine(s) \in Seq(Text)
  BY DEF LastLine


-----------------------------------------------------------------------------
(* The captures of all workloads.  A start that has not come to the log    *)
(* end has no capture: Settle spawns it only once.                         *)

Early == {"none", "fork", "shake", "recv", "settle"}

OutInv ==
    /\ out = [l \in Launch |-> out[l]]
    /\ \A l \in Launch : OutOK(out[l]) /\ (pc[l] \in Early => out[l].cap = "none")

LEMMA OutFrame ==
    ASSUME OutInv, UNCHANGED out, \A l \in Launch : pc'[l] \in Early => pc[l] \in Early
    PROVE  OutInv'
  BY DEF OutInv

LEMMA OutSet ==
    ASSUME OutInv, NEW l \in Launch, NEW o, OutOK(o), out' = [out EXCEPT ![l] = o],
           pc'[l] \in Early => o.cap = "none", \A k \in Launch \ {l} : pc'[k] = pc[k]
    PROVE  OutInv'
  <1>1. out' = [k \in Launch |-> IF k = l THEN o ELSE out[k]]
    BY DEF OutInv
  <1> HIDE DEF OutInv
  <1>2. out' = [k \in Launch |-> out'[k]]
    BY <1>1
  <1>3. ASSUME NEW k \in Launch PROVE OutOK(out'[k]) /\ (pc'[k] \in Early => out'[k].cap = "none")
    <2>1. CASE k = l
      BY <1>1, <2>1
    <2>2. CASE k # l
      BY <1>1, <2>2 DEF OutInv
    <2> QED
      BY <2>1, <2>2
  <1> QED
    BY <1>2, <1>3 DEF OutInv

LEMMA OutStart ==
    ASSUME OutInv, StageInv, NEW l \in Launch, StartStep(l)
    PROVE  OutInv'
  <1>0. \A q : Set(pc, l, q) = [k \in Launch |-> IF k = l THEN q ELSE pc[k]]
    BY DEF StageInv, Set
  <1>1. CASE Fork(l)
    BY <1>0, <1>1, OutFrame DEF Fork, Early
  <1>2. CASE Shake(l)
    BY <1>0, <1>2, OutFrame DEF Shake, Early
  <1>3. CASE Finalize(l)
    BY <1>0, <1>3, OutFrame DEF Finalize, Early
  <1>4. CASE Reinsert(l)
    BY <1>0, <1>4, OutFrame DEF Reinsert, Early
  <1>5. CASE Settle(l)
    <2>1. /\ pc[l] = "settle" /\ pc'[l] \notin Early
          /\ \A k \in Launch \ {l} : pc'[k] = pc[k]
      BY <1>0, <1>5 DEF Settle, Early
    <2>2. CASE Captured(l)
      <3> DEFINE o == [out[l] EXCEPT !.cap = "spawned"]
      <3>1. out' = [out EXCEPT ![l] = o]
        BY <1>5, <2>2 DEF Settle
      <3>2. OutOK(o)
        <4>1. OutOK(out[l]) /\ out[l].cap = "none"
          BY <2>1 DEF OutInv, Early
        <4> QED
          BY <4>1, SpawnOK
      <3> HIDE DEF o
      <3> QED
        BY <2>1, <3>1, <3>2, OutSet
    <2>3. CASE ~Captured(l)
      <3>1. UNCHANGED out
        BY <1>5, <2>3 DEF Settle
      <3> QED
        BY <2>1, <3>1, OutFrame
    <2> QED
      BY <2>2, <2>3
  <1> QED
    BY <1>1, <1>2, <1>3, <1>4, <1>5 DEF StartStep

LEMMA OutCapture ==
    ASSUME OutInv, NEW l \in Launch,
           CaptureStep(l) \/ \E c \in Char : WorkloadWrites(l, c)
    PROVE  OutInv'
  <1>1. OutOK(out[l]) /\ (pc[l] \in Early => out[l].cap = "none")
    BY DEF OutInv
  <1>2. CASE CaptureStarts(l)
    <2> DEFINE o == [out[l] EXCEPT !.cap = "on"]
    <2>1. /\ out' = [out EXCEPT ![l] = o] /\ out[l].cap = "spawned" /\ UNCHANGED pc
      BY <1>2 DEF CaptureStarts, supervisor
    <2>2. OutOK(o)
      BY <1>1, <2>1, OnOK
    <2> HIDE DEF o
    <2> QED
      BY <1>1, <2>1, <2>2, OutSet
  <1>3. CASE \E n \in 1..MaxBytes : CaptureReads(l, n)
    <2>1. PICK n \in 1..MaxBytes : CaptureReads(l, n)
      BY <1>3
    <2> DEFINE chunk == out[l].rem \o SubSeq(out[l].all, out[l].read + 1, out[l].read + n)
               o == [out[l] EXCEPT !.read = @ + n, !.rem = Remainder(chunk),
                                   !.shown = @ \o Lines(chunk)]
    <2>2. /\ out' = [out EXCEPT ![l] = o] /\ out[l].cap = "on" /\ UNCHANGED pc
          /\ n \in 1..(Len(out[l].all) - out[l].read)
      BY <2>1 DEF CaptureReads, supervisor, Set
    <2>3. OutOK(o)
      BY <1>1, <2>2, ReadOK
    <2> HIDE DEF o
    <2> QED
      BY <1>1, <2>2, <2>3, OutSet
  <1>4. CASE CaptureEnds(l)
    <2> DEFINE last == LastLine(out[l].rem)
               o == [out[l] EXCEPT !.cap = "ended", !.shown = @ \o last]
    <2>1. /\ out' = [out EXCEPT ![l].cap = "ended", ![l].shown = @ \o last]
          /\ out[l].cap = "on" /\ UNCHANGED pc
      BY <1>4 DEF CaptureEnds, supervisor
    <2>2. last \in Seq(Text)
      <3>1. out[l].rem \in Text
        BY <1>1 DEF OutOK, Outputs
      <3> QED
        BY <3>1, LastLineType
    <2> HIDE DEF last
    <2>3. out' = [out EXCEPT ![l] = o]
      BY <2>1 DEF OutInv
    <2>4. OutOK(o)
      BY <1>1, <2>2, EndOK
    <2> HIDE DEF o
    <2> QED
      BY <1>1, <2>1, <2>3, <2>4, OutSet
  <1>5. CASE \E c \in Char : WorkloadWrites(l, c)
    <2>1. PICK c \in Char : WorkloadWrites(l, c)
      BY <1>5
    <2> DEFINE o == [out[l] EXCEPT !.all = Append(@, c)]
    <2>2. /\ out' = [out EXCEPT ![l] = o] /\ UNCHANGED pc
      BY <2>1 DEF WorkloadWrites, supervisor
    <2>3. OutOK(o)
      BY <1>1, WriteOK
    <2>4. o.cap = out[l].cap
      BY <1>1 DEF OutOK, Outputs
    <2> HIDE DEF o
    <2> QED
      BY <1>1, <2>2, <2>3, <2>4, OutSet
  <1> QED
    BY <1>2, <1>3, <1>4, <1>5 DEF CaptureStep

LEMMA OutInit == Init => OutInv
  <1> SUFFICES ASSUME Init PROVE OutInv
    OBVIOUS
  <1>1. out = [l \in Launch |-> NoOutput]
    BY DEF Init
  <1>2. NoOutput.cap = "none"
    BY DEF NoOutput
  <1> QED
    BY <1>1, <1>2, NoOutputOK DEF OutInv

LEMMA OutStep == OutInv /\ StageInv /\ [Next]_vars => OutInv'
  <1> SUFFICES ASSUME OutInv, StageInv, [Next]_vars PROVE OutInv'
    OBVIOUS
  <1>1. CASE UNCHANGED vars
    BY <1>1, OutFrame DEF vars, supervisor
  <1>2. CASE Exit
    <2>1. out' = [l \in Launch |-> NoOutput]
      BY <1>2 DEF Exit
    <2>2. NoOutput.cap = "none"
      BY DEF NoOutput
    <2> QED
      BY <2>1, <2>2, NoOutputOK DEF OutInv
  <1>3. ASSUME NEW l \in Launch, NEW k, NEW r, Create(l, k, r) PROVE OutInv'
    <2>1. \A m \in Launch : pc'[m] = IF m = l THEN "fork" ELSE pc[m]
      BY <1>3 DEF Create, StageInv, Set
    <2>2. pc[l] = "none" /\ UNCHANGED out
      BY <1>3 DEF Create
    <2> QED
      BY <2>1, <2>2, OutFrame DEF Early
  <1>4. ASSUME NEW l \in Launch, InitStep(l) PROVE OutInv'
    BY <1>4, OutFrame DEF InitStep, ForkWorkload, WaitWorkload, Released, supervisor
  <1>5. ASSUME NEW l \in Launch, SetupStep(l) \/ WorkloadExits(l) PROVE OutInv'
    <2>1. UNCHANGED <<supervisor, supEnds, init, initEnds, freed, out>>
      BY <1>5
      DEF SetupStep, WorkloadExits, StatBusybox, OpenBusybox, WriteBusybox, CopyFails, RemoveLink,
          MakeLink, MakeOld, OnDisk, PivotRoot, UnmountOld, RemoveOldRoot, ApplyCapabilities,
          Exec, Beside
    <2> QED
      BY <2>1, OutFrame DEF supervisor
  <1>6. ASSUME NEW l \in Launch, KillWorkload(l) \/ KillInit(l) \/ Reap(l) PROVE OutInv'
    BY <1>6, OutFrame DEF KillWorkload, KillInit, Reap, supervisor
  <1> QED
    BY <1>1, <1>2, <1>3, <1>4, <1>5, <1>6, OutStart, OutCapture DEF Next

\* However a workload's output is cut into reads, whatever the output is and
\* however many containers write, the lines sent to the logger are those of
\* the output read so far (logger.go 173 to 192).
THEOREM CapturedLinesWhole == Spec => []LinesWhole
  <1>1. OutInv => LinesWhole
    BY DEF OutInv, OutOK, Seen, LinesWhole
  <1> QED
    BY <1>1, OutInit, OutStep, InvInit, InvStep, PTL DEF Spec


-----------------------------------------------------------------------------
(* The remaining types. *)

TableInv ==
    /\ sup \in {"up", "gone"}
    /\ pc \in [Launch -> {"none", "fork", "shake", "recv", "settle", "store", "done"}]
    /\ table \in [Launch -> {"none", "created", "running"}]
    /\ init \in [Launch -> {"none", "boot", "go", "wait", "hold", "exited"}]
    /\ supEnds \subseteq {"keep", "log"} \X Launch
    /\ reaped \subseteq Launch /\ freed \subseteq Launch

LEMMA TableFrame ==
    TableInv /\ UNCHANGED <<sup, pc, table, init, supEnds, reaped, freed>> => TableInv'
  BY DEF TableInv

LEMMA FreeEnds ==
    ASSUME TableInv, NEW S \in SUBSET Launch, FreeKeepAlive(S)
    PROVE  supEnds' \subseteq {"keep", "log"} \X Launch /\ freed' \subseteq Launch
  BY DEF TableInv, FreeKeepAlive

LEMMA TableStart ==
    ASSUME TableInv, NEW l \in Launch, StartStep(l)
    PROVE  TableInv'
  <1>1. CASE Fork(l)
    BY <1>1 DEF Fork, TableInv, Set
  <1>2. CASE Shake(l)
    BY <1>2 DEF Shake, Insert, TableInv, Set
  <1>3. CASE Finalize(l)
    BY <1>3 DEF Finalize, Insert, TableInv, Set, process
  <1>4. CASE Settle(l)
    <2>1. supEnds' \subseteq {"keep", "log"} \X Launch /\ freed' \subseteq Launch
      <3>1. CASE Captured(l)
        BY <1>4, <3>1, FreeEnds DEF Settle
      <3>2. CASE ~Captured(l)
        BY <1>4, <3>2 DEF Settle, TableInv
      <3> QED
        BY <3>1, <3>2
    <2> QED
      BY <1>4, <2>1 DEF Settle, TableInv, Set
  <1>5. CASE Reinsert(l)
    BY <1>5 DEF Reinsert, Insert, TableInv, Set, process
  <1> QED
    BY <1>1, <1>2, <1>3, <1>4, <1>5 DEF StartStep

LEMMA TableKill ==
    ASSUME TableInv, NEW l \in Launch, KillWorkload(l) \/ KillInit(l) \/ Reap(l)
    PROVE  TableInv'
  <1>1. CASE KillWorkload(l)
    <2> DEFINE S == {r \in {l} : IsRoot(r) /\ Keep(r) \in supEnds /\ Others(r) = {}}
    <2>1. S \in SUBSET Launch /\ FreeKeepAlive(S)
      BY <1>1 DEF KillWorkload
    <2> HIDE DEF S
    <2>2. supEnds' \subseteq {"keep", "log"} \X Launch /\ freed' \subseteq Launch
      BY <2>1, FreeEnds
    <2> QED
      BY <1>1, <2>2 DEF KillWorkload, TableInv, supervisor
  <1>2. CASE KillInit(l)
    BY <1>2 DEF KillInit, TableInv, supervisor, Set
  <1>3. CASE Reap(l)
    <2> DEFINE S == {r \in {of[l]} \cap Launch :
          table[l] # "none" /\ table[r] = "running" /\ Keep(r) \in supEnds /\ Others(r) = {l}}
    <2>1. S \in SUBSET Launch /\ FreeKeepAlive(S)
      BY <1>3 DEF Reap
    <2> HIDE DEF S
    <2>2. supEnds' \subseteq {"keep", "log"} \X Launch /\ freed' \subseteq Launch
      BY <2>1, FreeEnds
    <2> QED
      BY <1>3, <2>2 DEF Reap, TableInv, Set
  <1> QED
    BY <1>1, <1>2, <1>3

LEMMA TableStep == TableInv /\ [Next]_vars => TableInv'
  <1> SUFFICES ASSUME TableInv, [Next]_vars PROVE TableInv'
    OBVIOUS
  <1>1. CASE UNCHANGED vars
    BY <1>1, TableFrame DEF vars, supervisor, process
  <1>2. CASE Exit
    BY <1>2 DEF Exit, TableInv
  <1>3. ASSUME NEW l \in Launch, NEW k, NEW r, Create(l, k, r) PROVE TableInv'
    BY <1>3 DEF Create, TableInv, Set, Keep, Log, process
  <1>4. ASSUME NEW l \in Launch, InitStep(l) PROVE TableInv'
    <2>1. \E q \in {"wait", "hold", "exited"} : init' = Set(init, l, q)
      BY <1>4 DEF InitStep, ForkWorkload, WaitWorkload, Released
    <2>2. UNCHANGED <<sup, pc, table, supEnds, reaped, freed>>
      BY <1>4 DEF InitStep, ForkWorkload, WaitWorkload, Released, supervisor
    <2> QED
      BY <2>1, <2>2 DEF TableInv, Set
  <1>5. ASSUME NEW l \in Launch, SetupStep(l) \/ WorkloadExits(l) PROVE TableInv'
    <2>1. UNCHANGED <<supervisor, supEnds, init, initEnds, freed, out>>
      BY <1>5
      DEF SetupStep, WorkloadExits, StatBusybox, OpenBusybox, WriteBusybox, CopyFails, RemoveLink,
          MakeLink, MakeOld, OnDisk, PivotRoot, UnmountOld, RemoveOldRoot, ApplyCapabilities,
          Exec, Beside
    <2> QED
      BY <2>1, TableFrame DEF supervisor
  <1>6. ASSUME NEW l \in Launch, CaptureStep(l) \/ \E c \in Char : WorkloadWrites(l, c)
        PROVE  TableInv'
    <2>1. supEnds' \subseteq supEnds
      BY <1>6 DEF CaptureStep, CaptureStarts, CaptureReads, CaptureEnds, WorkloadWrites,
                  WriteEndClosed
    <2>2. UNCHANGED <<sup, pc, table, init, reaped, freed>>
      BY <1>6 DEF CaptureStep, CaptureStarts, CaptureReads, CaptureEnds, WorkloadWrites,
                  supervisor, process
    <2> QED
      BY <2>1, <2>2 DEF TableInv
  <1> QED
    BY <1>1, <1>2, <1>3, <1>4, <1>5, <1>6, TableStart, TableKill DEF Next

LEMMA SetupTyped ==
    ASSUME NEW c \in CapState, NEW S \in SUBSET Cap
    PROVE  SetupCapabilities(c, S) \in CapState
  <1>1. ASSUME NEW d \in CapState, NEW p \in SUBSET Cap, NEW e \in SUBSET Cap,
               NEW i \in SUBSET Cap
        PROVE  capset(d, p, e, i) \in CapState
    BY DEF capset, CapState
  <1>2. SetCapabilities(c, S) \in CapState
    BY <1>1 DEF SetCapabilities, CapState
  <1>3. ASSUME NEW d \in CapState PROVE AddInheritable(d, S) \in CapState
    BY <1>1 DEF AddInheritable, CapState
  <1>4. ASSUME NEW d \in CapState PROVE DropAllExcept(d, S) \in CapState
    BY DEF DropAllExcept, CapState
  <1>5. ASSUME NEW d \in CapState PROVE RaiseAmbient(d, S) \in CapState
    BY DEF RaiseAmbient, CapState
  <1> QED
    BY <1>2, <1>3, <1>4, <1>5 DEF SetupCapabilities

LEMMA CapsTyped ==
    ASSUME CapsInv
    PROVE  \A l \in Launch : caps[l] \in CapState
  <1>1. FullCaps \in CapState
    BY DEF FullCaps, CapState
  <1>2. Done \in CapState
    BY <1>1, SetupTyped, ProcessesAssumption DEF Done
  <1>3. execve(Done) \in CapState
    BY <1>2 DEF execve, CapState
  <1> QED
    BY <1>1, <1>2, <1>3 DEF CapsInv, CapsAt

\* Every variable of the processes keeps its type, and what a capture carries
\* over to its next read never holds a line break (logger.go 174 to 191).
THEOREM ProcessesTypeCorrect == Spec => []TypeOK
  <1>1. Init => TableInv
    BY DEF Init, TableInv
  <1>2. CapsInv /\ StageInv /\ WhoInv /\ FilesInv /\ OutInv /\ TableInv => TypeOK
    <2> SUFFICES ASSUME CapsInv, WhoInv, FilesInv, OutInv, TableInv PROVE TypeOK
      OBVIOUS
    <2>1. at \in [Launch -> Over \cup Before \cup Running]
      BY DEF CapsInv, Stages
    <2>2. /\ kind \in [Launch -> {"none", "root", "batch", "joiner"}]
          /\ of \in [Launch -> 0..MaxLaunch]
      BY DEF WhoInv, KindInv
    <2>3. fs \in FS /\ mnt \in [Launch -> {"none", "on", "off"}]
      BY DEF FilesInv, BusyboxInv, MountInv
    <2>4. \A l \in Launch : /\ out[l].cap \in {"none", "spawned", "on", "ended"}
                            /\ Breaks(out[l].rem) = {}
      BY DEF OutInv, OutOK, Outputs
    <2> QED
      BY <2>1, <2>2, <2>3, <2>4, CapsTyped DEF TypeOK, TableInv
  <1> QED
    BY <1>1, <1>2, InvInit, InvStep, FilesInit, FilesStep, OutInit, OutStep, TableStep, PTL
    DEF Spec


-----------------------------------------------------------------------------
(* The end of a capture.                                                   *)

(* Who holds the write end of a log: the supervisor until its capture, the *)
(* init until it has forked, the workload as long as it is there.  So none *)
(* of them is left, or comes back, when the end of the stream is seen.     *)
Starting == {"fork", "shake", "recv", "settle"}
Forking == {"boot", "go"}

EndsAt(l) ==
    /\ sup = "up" /\ pc[l] \in Starting => Log(l) \in supEnds
    /\ init[l] \in Forking => Log(l) \in initEnds[l]
    /\ at[l] \notin Over => Log(l) \in workEnds[l]
    /\ out[l].cap = "ended" => at[l] \in Over /\ init[l] \notin Forking

EndsInv ==
    /\ initEnds = [l \in Launch |-> initEnds[l]] /\ workEnds = [l \in Launch |-> workEnds[l]]
    /\ \A l \in Launch : EndsAt(l)

(* The text ends with its remainder. *)
LEMMA NoRemainder ==
    ASSUME NEW s \in Text, Remainder(s) = <<>>
    PROVE  Terminated(s) = s
  <1> DEFINE c == LastBreak(s, Len(s) + 1)
  <1>1. c \in {0} \cup Breaks(s) /\ c \in Nat /\ CutAt(s, c, SubSeq(s, 1, c), Remainder(s))
    BY RemainderIs, Zenon
  <1> HIDE DEF c
  <1>2. Len(s) \in Nat /\ Len(<<>>) = 0
    BY BreaksNat
  <1>3. Len(Remainder(s)) = Len(s) - c
    BY <1>1, CutFacts
  <1>4. c = Len(s)
    BY <1>1, <1>2, <1>3
  <1>5. s # <<>> => Len(s) # 0
    BY EmptySeq DEF Text
  <1>6. s # <<>> => s[Len(s)] = "NL"
    BY <1>1, <1>4, <1>5, BreakIs
  <1> QED
    BY <1>6 DEF Terminated

LEMMA SomeRemainder ==
    ASSUME NEW s \in Text, Remainder(s) # <<>>
    PROVE  Terminated(s) = s \o <<"NL">>
  <1> DEFINE c == LastBreak(s, Len(s) + 1)
  <1>1. /\ c \in Nat /\ CutAt(s, c, SubSeq(s, 1, c), Remainder(s)) /\ Remainder(s) \in Text
        /\ \A j \in Breaks(s) : j <= c
    BY RemainderIs, Zenon
  <1> HIDE DEF c
  <1>2. Len(s) \in Nat
    BY BreaksNat
  <1>3. Len(Remainder(s)) = Len(s) - c
    BY <1>1, CutFacts
  <1>4. Len(Remainder(s)) \in Nat \ {0}
    BY <1>1, EmptySeq DEF Text
  <1>5. c < Len(s)
    BY <1>1, <1>2, <1>3, <1>4
  <1>6. Len(s) \notin Breaks(s)
    BY <1>1, <1>2, <1>5
  <1>7. s # <<>>
    BY <1>1, <1>5, EmptySeq
  <1>8. s[Len(s)] # "NL"
    <2>1. Len(s) \in 1..Len(s)
      BY <1>1, <1>2, <1>5
    <2> QED
      BY <1>6, <2>1, BreakIs
  <1>9. Append(s, "NL") = s \o <<"NL">>
    BY AppendIsConcat DEF Text, Char
  <1> QED
    BY <1>7, <1>8, <1>9 DEF Terminated

(* A line and its break. *)
LEMMA OneLine ==
    ASSUME NEW r \in Text, Breaks(r) = {}
    PROVE  Lines(r \o <<"NL">>) = <<r>>
  <1> DEFINE n == <<"NL">>
             u == r \o n
             b == Len(r) + 1
  <1>1. n \in Text /\ Len(n) = 1 /\ n[1] = "NL"
    BY DEF Text, Char
  <1> HIDE DEF n
  <1>2. u \in Text /\ Len(u) = b /\ Len(r) \in Nat
    <2>1. Len(r) \in Nat
      BY BreaksNat
    <2>2. u \in Text /\ Len(u) = Len(r) + Len(n)
      BY <1>1, ConcatText
    <2> QED
      BY <1>1, <2>1, <2>2
  <1>3. \A i \in 1..Len(r) : u[i] = r[i]
    BY <1>1, ConcatText
  <1>4. u[b] = "NL"
    <2>1. \A i \in 1..Len(n) : u[Len(r) + i] = n[i]
      BY <1>1, ConcatText
    <2> QED
      BY <1>1, <2>1
  <1> HIDE DEF u
  <1>5. Breaks(u) = {b}
    <2>1. b \in Breaks(u)
      BY <1>2, <1>4, BreakIs
    <2>2. ASSUME NEW j \in Breaks(u), j # b PROVE FALSE
      <3>1. j \in 1..Len(u) /\ u[j] = "NL"
        BY <1>2, BreakIs
      <3>2. j \in 1..Len(r)
        BY <1>2, <2>2, <3>1
      <3>3. j \in Breaks(r)
        BY <1>3, <3>1, <3>2, BreakIs
      <3> QED
        BY <3>3
    <2> HIDE DEF b
    <2> QED
      BY <2>1, <2>2
  <1>6. b \in Nat \ {0} /\ b - 1 = Len(r) /\ b - 1 \in Nat /\ b - 1 <= Len(u)
    BY <1>2
  <1> HIDE DEF b
  <1>7. Cardinality(Breaks(u)) = 1
    BY <1>5, FS_Singleton
  <1>8. NthBreak(u, 1) = b
    <2>1. 1 \in 1..Cardinality(Breaks(u))
      BY <1>7
    <2>2. NthBreak(u, 1) \in Breaks(u)
      BY <1>2, <2>1, NthBreakIs
    <2> QED
      BY <1>5, <2>2
  <1>9. LastBreak(u, b) = 0
    <2>1. LastBreak(u, b) \in {0} \cup Breaks(u) /\ LastBreak(u, b) < b
      BY <1>2, <1>6, LastBreakIs
    <2> QED
      BY <1>5, <1>6, <2>1
  <1>10. SubSeq(u, 0 + 1, b - 1) = r
    <2> DEFINE e == b - 1
    <2>1. e \in Nat /\ e = Len(r) /\ e <= Len(u)
      BY <1>6
    <2> HIDE DEF e
    <2>2. /\ SubSeq(u, 1, e) \in Text /\ Len(SubSeq(u, 1, e)) = IF 1 <= e THEN e - 1 + 1 ELSE 0
          /\ \A i \in 1..(e - 1 + 1) : SubSeq(u, 1, e)[i] = u[1 + i - 1]
      BY <1>2, <2>1, SubText
    <2>3. Len(SubSeq(u, 1, e)) = Len(r)
      BY <2>1, <2>2
    <2>4. \A i \in 1..Len(r) : i \in 1..(e - 1 + 1) /\ 1 + i - 1 = i
      BY <2>1
    <2>5. \A i \in 1..Len(r) : SubSeq(u, 1, e)[i] = r[i]
      BY <1>3, <2>2, <2>4
    <2>6. SubSeq(u, 1, e) = r
      BY <2>2, <2>3, <2>5, SeqEqual DEF Text
    <2> QED
      BY <2>6 DEF e
  <1>11. Lines(u) = [i \in 1..1 |->
            SubSeq(u, LastBreak(u, NthBreak(u, i)) + 1, NthBreak(u, i) - 1)]
    BY <1>7 DEF Lines
  <1>12. Lines(u)[1] = r
    BY <1>8, <1>9, <1>10, <1>11
  <1>13. Lines(u) \in Seq(Text) /\ Len(Lines(u)) = 1
    BY <1>2, <1>7, LinesType
  <1>14. Lines(u) = <<r>>
    <2>1. <<r>> \in Seq(Text) /\ Len(<<r>>) = 1 /\ <<r>>[1] = r
      OBVIOUS
    <2> QED
      BY <1>12, <1>13, <2>1, SeqEqual
  <1> QED
    BY <1>14, Zenon DEF u, n

(* The lines and the last one are those of the output, ended if need be. *)
LEMMA EndedLines ==
    ASSUME NEW s \in Text
    PROVE  Lines(s) \o LastLine(Remainder(s)) = Lines(Terminated(s))
  <1>1. CASE Remainder(s) = <<>>
    <2>1. Lines(s) \in Seq(Text)
      BY LinesType
    <2> QED
      BY <1>1, <2>1, NoRemainder, ConcatEmptySeq DEF LastLine
  <1>2. CASE Remainder(s) # <<>>
    <2>1. <<"NL">> \in Text
      BY DEF Text, Char
    <2>2. Lines(s \o <<"NL">>) = Lines(s) \o Lines(Remainder(s) \o <<"NL">>)
      BY <2>1, ReadOn
    <2>3. Lines(Remainder(s) \o <<"NL">>) = <<Remainder(s)>>
      BY RemainderIs, OneLine
    <2> QED
      BY <1>2, <2>2, <2>3, SomeRemainder DEF LastLine
  <1> QED
    BY <1>1, <1>2


LEMMA EndsFrame ==
    EndsInv /\ UNCHANGED <<sup, pc, supEnds, initEnds, workEnds, init, at, out>> => EndsInv'
  BY DEF EndsInv, EndsAt

(* KeepAlive and log ends are different ones. *)
LEMMA LogStays ==
    ASSUME NEW S, FreeKeepAlive(S), NEW k
    PROVE  Log(k) \in supEnds => Log(k) \in supEnds'
  BY DEF FreeKeepAlive, Log, Keep

LEMMA EndsCreate ==
    ASSUME EndsInv, StageInv, NEW l \in Launch, NEW j, NEW r, Create(l, j, r)
    PROVE  EndsInv'
  <1>1. /\ \A k \in Launch : pc'[k] = IF k = l THEN "fork" ELSE pc[k]
        /\ Log(l) \in supEnds' /\ supEnds \subseteq supEnds'
    BY DEF Create, StageInv, Set
  <1>2. UNCHANGED <<sup, initEnds, workEnds, init, at, out>>
    BY DEF Create, process
  <1> QED
    BY <1>1, <1>2 DEF EndsInv, EndsAt

LEMMA EndsStart ==
    ASSUME EndsInv, StageInv, OutInv, NEW l \in Launch, StartStep(l)
    PROVE  EndsInv'
  <1>0. /\ \A q, k : k \in Launch => Set(pc, l, q)[k] = IF k = l THEN q ELSE pc[k]
        /\ \A q, k : k \in Launch => Set(init, l, q)[k] = IF k = l THEN q ELSE init[k]
        /\ \A q, k : k \in Launch => Set(initEnds, l, q)[k] = IF k = l THEN q ELSE initEnds[k]
    BY DEF StageInv, EndsInv, Set
  <1>00. \A k \in Launch : EndsAt(k)
    BY DEF EndsInv
  <1>1. CASE Fork(l)
    <2>1. /\ sup = "up" /\ pc[l] = "fork" /\ pc' = Set(pc, l, "shake")
          /\ init' = Set(init, l, "boot") /\ initEnds' = Set(initEnds, l, supEnds)
          /\ UNCHANGED <<sup, supEnds, workEnds, at, out>>
      BY <1>1 DEF Fork
    <2>2. out[l].cap # "ended"
      BY <2>1 DEF OutInv, Early
    <2>3. Log(l) \in supEnds
      BY <1>00, <2>1 DEF EndsAt, Starting
    <2>4. ASSUME NEW k \in Launch PROVE EndsAt(k)'
      <3>1. CASE k = l
        BY <1>0, <1>00, <2>1, <2>2, <2>3, <3>1 DEF EndsAt, Starting, Forking
      <3>2. CASE k # l
        BY <1>0, <1>00, <2>1, <3>2 DEF EndsAt
      <3> QED
        BY <3>1, <3>2
    <2> QED
      BY <2>1, <2>4 DEF EndsInv, Set
  <1>2. CASE Shake(l)
    <2>1. /\ sup = "up" /\ pc[l] = "shake" /\ pc' = Set(pc, l, "recv")
          /\ init' = Set(init, l, "go") \/ UNCHANGED init
          /\ UNCHANGED <<sup, supEnds, initEnds, workEnds, at, out>>
      BY <1>2 DEF Shake
    <2>2. init[l] = "boot"
      BY <2>1 DEF StageInv, StageOK
    <2>3. out[l].cap # "ended"
      BY <2>1 DEF OutInv, Early
    <2>4. ASSUME NEW k \in Launch PROVE EndsAt(k)'
      <3>1. CASE k = l
        BY <1>0, <1>00, <2>1, <2>2, <2>3, <3>1 DEF EndsAt, Starting, Forking
      <3>2. CASE k # l
        BY <1>0, <1>00, <2>1, <3>2 DEF EndsAt
      <3> QED
        BY <3>1, <3>2
    <2> QED
      BY <2>1, <2>4 DEF EndsInv
  <1>3. CASE Finalize(l) \/ Reinsert(l)
    <2>1. /\ \E q : pc' = Set(pc, l, q) /\ (q \in Starting => pc[l] \in Starting)
          /\ UNCHANGED <<sup, supEnds, initEnds, workEnds, init, at, out>>
      BY <1>3 DEF Finalize, Reinsert, process, Starting
    <2>2. ASSUME NEW k \in Launch PROVE EndsAt(k)'
      BY <1>0, <1>00, <2>1 DEF EndsAt
    <2> QED
      BY <2>1, <2>2 DEF EndsInv
  <1>4. CASE Settle(l)
    <2>1. /\ pc' = Set(pc, l, IF IsRoot(l) THEN "store" ELSE "done")
          /\ pc[l] = "settle" /\ UNCHANGED <<sup, initEnds, workEnds, init, at>>
      BY <1>4 DEF Settle
    <2>2. \A k \in Launch \ {l} : Log(k) \in supEnds => Log(k) \in supEnds'
      <3>1. CASE Captured(l)
        BY <1>4, <3>1, LogStays DEF Settle
      <3>2. CASE ~Captured(l)
        BY <1>4, <3>2 DEF Settle, Log
      <3> QED
        BY <3>1, <3>2
    <2>3. \A k \in Launch : out'[k].cap = "ended" => out[k].cap = "ended"
      <3>1. CASE Captured(l)
        <4>1. out' = [out EXCEPT ![l].cap = "spawned"]
          BY <1>4, <3>1 DEF Settle
        <4>2. out'[l].cap = "spawned"
          BY <4>1 DEF OutInv, OutOK, Outputs
        <4>3. \A k \in Launch \ {l} : out'[k] = out[k]
          BY <4>1 DEF OutInv
        <4> QED
          BY <4>2, <4>3
      <3>2. CASE ~Captured(l)
        BY <1>4, <3>2 DEF Settle
      <3> QED
        BY <3>1, <3>2
    <2>4. ASSUME NEW k \in Launch PROVE EndsAt(k)'
      BY <1>0, <1>00, <2>1, <2>2, <2>3 DEF EndsAt, Starting
    <2> QED
      BY <2>1, <2>4 DEF EndsInv
  <1> QED
    BY <1>1, <1>2, <1>3, <1>4 DEF StartStep

LEMMA EndsInitStep ==
    ASSUME EndsInv, StageInv, NEW l \in Launch, InitStep(l)
    PROVE  EndsInv'
  <1>0. /\ \A q, k : k \in Launch => Set(init, l, q)[k] = IF k = l THEN q ELSE init[k]
        /\ \A q, k : k \in Launch => Set(at, l, q)[k] = IF k = l THEN q ELSE at[k]
        /\ \A q, k : k \in Launch => Set(initEnds, l, q)[k] = IF k = l THEN q ELSE initEnds[k]
        /\ \A q, k : k \in Launch => Set(workEnds, l, q)[k] = IF k = l THEN q ELSE workEnds[k]
    BY DEF StageInv, EndsInv, Set
  <1>00. \A k \in Launch : EndsAt(k)
    BY DEF EndsInv
  <1>1. CASE ForkWorkload(l)
    <2>1. /\ init[l] = "go" /\ init' = Set(init, l, "wait")
          /\ \E q : at' = Set(at, l, q)
          /\ workEnds' = Set(workEnds, l, initEnds[l])
          /\ \E q : initEnds' = Set(initEnds, l, q)
          /\ UNCHANGED <<sup, pc, supEnds, out>>
      BY <1>1 DEF ForkWorkload, supervisor
    <2>2. out[l].cap # "ended" /\ Log(l) \in initEnds[l]
      BY <1>00, <2>1 DEF EndsAt, Forking
    <2>3. ASSUME NEW k \in Launch PROVE EndsAt(k)'
      <3>1. CASE k = l
        BY <1>0, <1>00, <2>1, <2>2, <3>1 DEF EndsAt, Forking
      <3>2. CASE k # l
        BY <1>0, <1>00, <2>1, <3>2 DEF EndsAt
      <3> QED
        BY <3>1, <3>2
    <2> QED
      BY <2>1, <2>3 DEF EndsInv, Set
  <1>2. CASE WaitWorkload(l) \/ Released(l)
    <2>1. /\ \E q \in {"hold", "exited"} : init' = Set(init, l, q)
          /\ \E q : initEnds' = Set(initEnds, l, q)
          /\ UNCHANGED <<sup, pc, supEnds, workEnds, at, out>>
      BY <1>2 DEF WaitWorkload, Released, supervisor
    <2>2. ASSUME NEW k \in Launch PROVE EndsAt(k)'
      BY <1>0, <1>00, <2>1 DEF EndsAt, Forking
    <2> QED
      BY <2>1, <2>2 DEF EndsInv, Set
  <1> QED
    BY <1>1, <1>2 DEF InitStep

(* A workload that takes a step is not over, so its capture has not ended. *)
LEMMA EndsWorkload ==
    ASSUME EndsInv, StageInv, NEW l \in Launch, SetupStep(l) \/ WorkloadExits(l)
    PROVE  EndsInv'
  <1>1. /\ at[l] \notin Over
        /\ \E q : at' = Set(at, l, q)
                  /\ (UNCHANGED workEnds \/ (q \in Over /\ workEnds' = Set(workEnds, l, {})))
    <2> USE DEF Over
    <2>1. CASE StatBusybox(l)
      BY <2>1 DEF StatBusybox, Goto
    <2>2. CASE OpenBusybox(l)
      BY <2>2 DEF OpenBusybox, Goto
    <2>3. CASE WriteBusybox(l) \/ CopyFails(l) \/ RemoveLink(l) \/ MakeLink(l) \/ MakeOld(l)
      BY <2>3 DEF WriteBusybox, CopyFails, RemoveLink, MakeLink, MakeOld, OnDisk, Goto
    <2>4. CASE PivotRoot(l)
      BY <2>4 DEF PivotRoot, Ends, Lives
    <2>5. CASE UnmountOld(l)
      BY <2>5 DEF UnmountOld, Ends, Lives
    <2>6. CASE RemoveOldRoot(l)
      BY <2>6 DEF RemoveOldRoot, Goto
    <2>7. CASE ApplyCapabilities(l)
      BY <2>7 DEF ApplyCapabilities, Goto
    <2>8. CASE Exec(l)
      BY <2>8 DEF Exec, Ends, Lives
    <2>9. CASE WorkloadExits(l)
      BY <2>9 DEF WorkloadExits, Ends, Running
    <2> QED
      BY <2>1, <2>2, <2>3, <2>4, <2>5, <2>6, <2>7, <2>8, <2>9 DEF SetupStep
  <1>2. UNCHANGED <<supervisor, supEnds, init, initEnds, freed, out>>
    BY DEF SetupStep, WorkloadExits, StatBusybox, OpenBusybox, WriteBusybox, CopyFails, RemoveLink,
           MakeLink, MakeOld, OnDisk, PivotRoot, UnmountOld, RemoveOldRoot, ApplyCapabilities,
           Exec, Beside
  <1>3. UNCHANGED <<sup, pc, supEnds, initEnds, init, out>>
    BY <1>2 DEF supervisor
  <1>4. \A k \in Launch : EndsAt(k)
    BY DEF EndsInv
  <1>5. out[l].cap # "ended"
    BY <1>1, <1>4 DEF EndsAt
  <1>6. PICK q : /\ at' = Set(at, l, q)
                 /\ UNCHANGED workEnds \/ (q \in Over /\ workEnds' = Set(workEnds, l, {}))
    BY <1>1
  <1>7. /\ \A k \in Launch : at'[k] = IF k = l THEN q ELSE at[k]
        /\ \A k \in Launch \ {l} : workEnds'[k] = workEnds[k]
        /\ q \notin Over => workEnds'[l] = workEnds[l]
        /\ workEnds' = [k \in Launch |-> workEnds'[k]]
    BY <1>6 DEF StageInv, EndsInv, Set
  <1>8. ASSUME NEW k \in Launch PROVE EndsAt(k)'
    <2>1. CASE k = l
      BY <1>1, <1>3, <1>4, <1>5, <1>7, <2>1 DEF EndsAt
    <2>2. CASE k # l
      BY <1>3, <1>4, <1>7, <2>2 DEF EndsAt
    <2> QED
      BY <2>1, <2>2
  <1> QED
    BY <1>3, <1>7, <1>8 DEF EndsInv


LEMMA KilledEnds ==
    ASSUME EndsInv, NEW S \in SUBSET Launch, Killed(S)
    PROVE  /\ workEnds' = [k \in Launch |-> workEnds'[k]]
           /\ \A k \in Launch : /\ at'[k] \notin Over => at[k] \notin Over /\ Log(k) \in workEnds'[k]
                                /\ at[k] \in Over => at'[k] \in Over
  <1> DEFINE K == {l \in S : at[l] \notin Over}
  <1>1. /\ at' = [l \in Launch |-> IF l \in K THEN "dead" ELSE at[l]]
        /\ workEnds' = [l \in Launch |-> IF l \in K THEN {} ELSE workEnds[l]]
    BY DEF Killed
  <1>2. "dead" \in Over
    BY DEF Over
  <1> QED
    BY <1>1, <1>2 DEF EndsInv, EndsAt

LEMMA EndsKill ==
    ASSUME EndsInv, StageInv, NEW l \in Launch, KillWorkload(l) \/ KillInit(l) \/ Reap(l)
    PROVE  EndsInv'
  <1>0. \A k \in Launch : EndsAt(k)
    BY DEF EndsInv
  <1>1. CASE KillWorkload(l)
    <2>1. /\ Killed({l}) /\ \E S : FreeKeepAlive(S)
          /\ UNCHANGED <<sup, pc, init, initEnds, out>>
      BY <1>1 DEF KillWorkload, supervisor
    <2>2. \A k \in Launch : Log(k) \in supEnds => Log(k) \in supEnds'
      BY <2>1, LogStays
    <2>3. /\ workEnds' = [k \in Launch |-> workEnds'[k]]
          /\ \A k \in Launch : /\ at'[k] \notin Over => Log(k) \in workEnds'[k]
                               /\ at[k] \in Over => at'[k] \in Over
      BY <2>1, KilledEnds
    <2>4. ASSUME NEW k \in Launch PROVE EndsAt(k)'
      BY <1>0, <2>1, <2>2, <2>3 DEF EndsAt
    <2> QED
      BY <2>1, <2>3, <2>4 DEF EndsInv
  <1>2. CASE KillInit(l)
    <2>1. /\ init' = Set(init, l, "exited") /\ initEnds' = Set(initEnds, l, {})
          /\ UNCHANGED <<sup, pc, supEnds, workEnds, at, out>>
      BY <1>2 DEF KillInit, supervisor
    <2>2. /\ \A k \in Launch : init'[k] = IF k = l THEN "exited" ELSE init[k]
          /\ \A k \in Launch \ {l} : initEnds'[k] = initEnds[k]
          /\ initEnds' = [k \in Launch |-> initEnds'[k]]
      BY <2>1 DEF StageInv, EndsInv, Set
    <2>3. ASSUME NEW k \in Launch PROVE EndsAt(k)'
      BY <1>0, <2>1, <2>2 DEF EndsAt, Forking
    <2> QED
      BY <2>1, <2>2, <2>3 DEF EndsInv
  <1>3. CASE Reap(l)
    <2>1. (\E S : FreeKeepAlive(S)) /\ UNCHANGED <<sup, pc, init, initEnds, at, workEnds, out>>
      BY <1>3 DEF Reap
    <2>2. \A k \in Launch : Log(k) \in supEnds => Log(k) \in supEnds'
      BY <2>1, LogStays
    <2>3. ASSUME NEW k \in Launch PROVE EndsAt(k)'
      BY <1>0, <2>1, <2>2 DEF EndsAt
    <2> QED
      BY <2>1, <2>3 DEF EndsInv
  <1> QED
    BY <1>1, <1>2, <1>3

LEMMA EndsExit ==
    ASSUME EndsInv, StageInv, Exit
    PROVE  EndsInv'
  <1> DEFINE R == {l \in Launch : table[l] = "running"}
             I == {l \in Launch : table[l] = "created" /\ init[l] # "none"}
  <1>0. \A k \in Launch : EndsAt(k)
    BY DEF EndsInv
  <1>1. /\ sup' = "gone" /\ Killed(R)
        /\ init' = [l \in Launch |-> IF l \in I THEN "exited" ELSE init[l]]
        /\ initEnds' = [l \in Launch |-> IF l \in I THEN {} ELSE initEnds[l]]
        /\ out' = [l \in Launch |-> NoOutput]
    BY DEF Exit, ExitTargets
  <1>2. /\ workEnds' = [k \in Launch |-> workEnds'[k]]
        /\ \A k \in Launch : at'[k] \notin Over => Log(k) \in workEnds'[k]
    BY <1>1, KilledEnds
  <1>3. \A k \in Launch : out'[k].cap = "none"
    BY <1>1 DEF NoOutput
  <1> HIDE DEF R, I
  <1>4. ASSUME NEW k \in Launch PROVE EndsAt(k)'
    BY <1>0, <1>1, <1>2, <1>3 DEF EndsAt, Forking
  <1> QED
    BY <1>1, <1>2, <1>4 DEF EndsInv

LEMMA EndsCapture ==
    ASSUME EndsInv, OutInv, NEW l \in Launch,
           CaptureStep(l) \/ \E c \in Char : WorkloadWrites(l, c)
    PROVE  EndsInv'
  <1>0. \A k \in Launch : EndsAt(k)
    BY DEF EndsInv
  <1>1. UNCHANGED <<sup, pc, initEnds, workEnds, init, at>>
    BY DEF CaptureStep, CaptureStarts, CaptureReads, CaptureEnds, WorkloadWrites, supervisor,
           process
  <1>2. \A k \in Launch : sup = "up" /\ pc[k] \in Starting => Log(k) \in supEnds'
    <2>1. CASE CaptureStarts(l)
      <3>1. pc[l] \notin Starting /\ supEnds' = supEnds \ {Log(l)}
        BY <2>1 DEF CaptureStarts, WriteEndClosed, OutInv, Starting, Early
      <3> QED
        BY <1>0, <3>1 DEF EndsAt, Log
    <2>2. CASE UNCHANGED supEnds
      BY <1>0, <2>2 DEF EndsAt
    <2> QED
      BY <2>1, <2>2 DEF CaptureStep, CaptureReads, CaptureEnds, WorkloadWrites
  <1>3. \A k \in Launch : out'[k].cap = "ended" =>
           \/ out[k].cap = "ended"
           \/ k = l /\ CaptureEnds(l)
    <2>1. \A k \in Launch \ {l} : out'[k] = out[k]
      BY DEF CaptureStep, CaptureStarts, CaptureReads, CaptureEnds, WorkloadWrites, OutInv, Set
    <2>2. out'[l].cap = "ended" => out[l].cap = "ended" \/ CaptureEnds(l)
      <3>0. out[l] \in Outputs /\ \A v : [out EXCEPT ![l] = v][l] = v
        BY DEF OutInv, OutOK
      <3>1. CASE CaptureStarts(l)
        <4>1. out' = [out EXCEPT ![l] = [out[l] EXCEPT !.cap = "on"]]
          BY <3>1 DEF CaptureStarts
        <4> QED
          BY <3>0, <4>1 DEF Outputs
      <3>2. CASE \E n \in 1..MaxBytes : CaptureReads(l, n)
        <4>1. \E x, y, z : out' = [out EXCEPT ![l] =
                 [out[l] EXCEPT !.read = x, !.rem = y, !.shown = z]]
          BY <3>2 DEF CaptureReads, Set
        <4>2. PICK x, y, z : out' = [out EXCEPT ![l] =
                 [out[l] EXCEPT !.read = x, !.rem = y, !.shown = z]]
          BY <4>1
        <4> QED
          BY <3>0, <4>2 DEF Outputs
      <3>3. CASE \E c \in Char : WorkloadWrites(l, c)
        <4>1. PICK c \in Char : out' = [out EXCEPT ![l] = [out[l] EXCEPT !.all = Append(@, c)]]
          BY <3>3 DEF WorkloadWrites
        <4> QED
          BY <3>0, <4>1 DEF Outputs
      <3> QED
        BY <3>1, <3>2, <3>3 DEF CaptureStep
    <2> QED
      BY <2>1, <2>2
  <1>4. CaptureEnds(l) => at[l] \in Over /\ init[l] \notin Forking
    <2> SUFFICES ASSUME CaptureEnds(l) PROVE at[l] \in Over /\ init[l] \notin Forking
      OBVIOUS
    <2>1. Log(l) \notin initEnds[l] /\ Log(l) \notin workEnds[l]
      BY DEF CaptureEnds, Closed
    <2> QED
      BY <1>0, <2>1 DEF EndsAt
  <1>5. ASSUME NEW k \in Launch PROVE EndsAt(k)'
    BY <1>0, <1>1, <1>2, <1>3, <1>4 DEF EndsAt
  <1> QED
    BY <1>1, <1>5 DEF EndsInv

LEMMA EndsInit == Init => EndsInv
  <1> SUFFICES ASSUME Init PROVE EndsInv
    OBVIOUS
  <1>1. /\ initEnds = [l \in Launch |-> {}] /\ workEnds = [l \in Launch |-> {}]
        /\ \A l \in Launch : /\ pc[l] = "none" /\ init[l] = "none" /\ at[l] = "none"
                             /\ out[l].cap = "none"
    BY DEF Init, NoOutput
  <1> QED
    BY <1>1 DEF EndsInv, EndsAt, Starting, Forking, Over

LEMMA EndsStep == EndsInv /\ StageInv /\ OutInv /\ [Next]_vars => EndsInv'
  <1> SUFFICES ASSUME EndsInv, StageInv, OutInv, [Next]_vars PROVE EndsInv'
    OBVIOUS
  <1>1. CASE UNCHANGED vars
    BY <1>1, EndsFrame DEF vars, supervisor, process
  <1> QED
    BY <1>1, EndsExit, EndsCreate, EndsStart, EndsInitStep, EndsWorkload, EndsCapture, EndsKill
    DEF Next

(* The last read is the one that shows the rest. *)
LEMMA ShownAtEnd ==
    ASSUME OutInv, NEW l \in Launch, CaptureEnds(l)
    PROVE  out'[l].shown = Lines(Terminated(out'[l].all))
  <1> DEFINE o == out[l]
             p == out'[l]
             h == o.shown \o LastLine(o.rem)
  <1>1. o \in Outputs /\ OutOK(o) /\ o.cap = "on" /\ o.read = Len(o.all)
    BY DEF OutInv, OutOK, CaptureEnds
  <1>2. out' = [out EXCEPT ![l] = [o EXCEPT !.cap = "ended", !.shown = h]]
    BY DEF CaptureEnds, OutInv
  <1>3. p = [o EXCEPT !.cap = "ended", !.shown = h]
    BY <1>2 DEF OutInv
  <1> HIDE DEF o, p, h
  <1>4. p.shown = h /\ p.all = o.all
    BY <1>1, <1>3 DEF Outputs
  <1>5. o.all \in Text
    BY <1>1 DEF Outputs
  <1>6. Seen(o) = o.all
    BY <1>1, <1>5, SubSeqFull DEF Seen, Text
  <1>7. o.rem = Remainder(o.all) /\ o.shown = Lines(o.all)
    BY <1>1, <1>6 DEF OutOK
  <1>8. h = Lines(Terminated(o.all))
    BY <1>5, <1>7, EndedLines DEF h
  <1>9. p.shown = Lines(Terminated(p.all))
    BY <1>4, <1>8
  <1> QED
    BY <1>9 DEF p

LEMMA ShownStep == ShownToTheEnd /\ EndsInv /\ OutInv /\ [Next]_vars => ShownToTheEnd'
  <1> SUFFICES ASSUME ShownToTheEnd, EndsInv, OutInv, [Next]_vars,
                      NEW k \in Launch, out'[k].cap = "ended"
               PROVE  out'[k].shown = Lines(Terminated(out'[k].all))
    BY DEF ShownToTheEnd
  <1>1. CASE out'[k] = out[k]
    BY <1>1 DEF ShownToTheEnd
  <1>2. CASE CaptureEnds(k)
    BY <1>2, ShownAtEnd
  <1>3. out'[k] = out[k] \/ CaptureEnds(k)
    <2> SUFFICES ASSUME out'[k] # out[k] PROVE CaptureEnds(k)
      OBVIOUS
    <2>0. out[k] \in Outputs /\ \A v : [out EXCEPT ![k] = v][k] = v
      BY DEF OutInv, OutOK
    <2>1. ~Exit
      <3> SUFFICES ASSUME Exit PROVE FALSE
        OBVIOUS
      <3>1. out' = [l \in Launch |-> NoOutput]
        BY DEF Exit
      <3>2. NoOutput.cap = "none"
        BY DEF NoOutput
      <3> QED
        BY <3>1, <3>2
    <2>2. ASSUME NEW l \in Launch, NEW j, NEW r, Create(l, j, r) PROVE FALSE
      BY <2>2 DEF Create
    <2>3. ASSUME NEW l \in Launch, StartStep(l) PROVE FALSE
      <3>1. out' = [out EXCEPT ![l].cap = "spawned"]
        BY <2>3 DEF StartStep, Fork, Shake, Finalize, Settle, Reinsert
      <3>2. l = k
        BY <3>1 DEF OutInv
      <3>3. out' = [out EXCEPT ![k] = [out[k] EXCEPT !.cap = "spawned"]]
        BY <3>1, <3>2
      <3>4. out'[k].cap = "spawned"
        BY <2>0, <3>3 DEF Outputs
      <3> QED
        BY <3>4
    <2>4. ASSUME NEW l \in Launch, InitStep(l) PROVE FALSE
      BY <2>4 DEF InitStep, ForkWorkload, WaitWorkload, Released
    <2>5. ASSUME NEW l \in Launch, SetupStep(l) \/ WorkloadExits(l) PROVE FALSE
      <3>1. UNCHANGED <<supervisor, supEnds, init, initEnds, freed, out>>
        BY <2>5
        DEF SetupStep, WorkloadExits, StatBusybox, OpenBusybox, WriteBusybox, CopyFails, RemoveLink,
            MakeLink, MakeOld, OnDisk, PivotRoot, UnmountOld, RemoveOldRoot,
            ApplyCapabilities, Exec, Beside
      <3> QED
        BY <3>1
    <2>6. ASSUME NEW l \in Launch, KillWorkload(l) \/ KillInit(l) \/ Reap(l) PROVE FALSE
      BY <2>6 DEF KillWorkload, KillInit, Reap
    <2>7. ASSUME NEW l \in Launch, CaptureStarts(l) PROVE FALSE
      <3>1. out' = [out EXCEPT ![l].cap = "on"]
        BY <2>7 DEF CaptureStarts
      <3>2. l = k
        BY <3>1 DEF OutInv
      <3>3. out' = [out EXCEPT ![k] = [out[k] EXCEPT !.cap = "on"]]
        BY <3>1, <3>2
      <3>4. out'[k].cap = "on"
        BY <2>0, <3>3 DEF Outputs
      <3> QED
        BY <3>4
    <2>8. ASSUME NEW l \in Launch, NEW n, CaptureReads(l, n) PROVE FALSE
      <3>1. \E x, y, z : out' = [out EXCEPT ![l] =
               [out[l] EXCEPT !.read = x, !.rem = y, !.shown = z]]
        BY <2>8 DEF CaptureReads, Set
      <3>2. PICK x, y, z : out' = [out EXCEPT ![l] =
               [out[l] EXCEPT !.read = x, !.rem = y, !.shown = z]]
        BY <3>1
      <3>3. l = k /\ out[l].cap = "on"
        BY <2>8, <3>2 DEF OutInv, CaptureReads
      <3>4. out'[k].cap = "on"
        BY <2>0, <3>2, <3>3 DEF Outputs
      <3> QED
        BY <3>4
    <2>9. ASSUME NEW l \in Launch, NEW c \in Char, WorkloadWrites(l, c) PROVE FALSE
      <3>1. out' = [out EXCEPT ![l] = [out[l] EXCEPT !.all = Append(@, c)]]
        BY <2>9 DEF WorkloadWrites
      <3>2. l = k /\ at[l] \in Running
        BY <2>9, <3>1 DEF OutInv, WorkloadWrites
      <3>3. out'[k].cap = out[k].cap
        BY <2>0, <3>1, <3>2 DEF Outputs
      <3>4. at[k] \in Over
        BY <3>3 DEF EndsInv, EndsAt
      <3> QED
        BY <3>2, <3>4, Distinct
    <2>10. ASSUME NEW l \in Launch, CaptureEnds(l) PROVE CaptureEnds(k)
      <3>1. l = k
        BY <2>10 DEF CaptureEnds, OutInv
      <3> QED
        BY <2>10, <3>1
    <2>11. ~UNCHANGED vars
      BY DEF vars
    <2>12. PICK l \in Launch :
             \/ \E j \in {"root", "batch", "joiner"}, r \in 0..MaxLaunch : Create(l, j, r)
             \/ StartStep(l) \/ InitStep(l) \/ SetupStep(l) \/ CaptureStep(l)
             \/ WorkloadExits(l) \/ \E c \in Char : WorkloadWrites(l, c)
             \/ KillWorkload(l) \/ KillInit(l) \/ Reap(l)
      BY <2>1, <2>11 DEF Next
    <2>13. CaptureStep(l)
      BY <2>2, <2>3, <2>4, <2>5, <2>6, <2>9, <2>12
    <2> QED
      BY <2>7, <2>8, <2>10, <2>13 DEF CaptureStep
  <1> QED
    BY <1>1, <1>2, <1>3

\* A capture that has ended showed the whole output of its workload, an unended
\* last line too, for any number of containers and whatever pipe ends they
\* inherited from one another: the end of the stream is seen only when nobody
\* can write any more (logger.go 173 to 207, workload.go 105).
THEOREM CapturedToTheEnd == Spec => []ShownToTheEnd
  <1>1. Init => ShownToTheEnd
    BY DEF Init, NoOutput, ShownToTheEnd
  <1> QED
    BY <1>1, InvInit, InvStep, OutInit, OutStep, EndsInit, EndsStep, ShownStep, PTL DEF Spec
=============================================================================

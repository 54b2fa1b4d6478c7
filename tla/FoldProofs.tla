----------------------------- MODULE FoldProofs -----------------------------
(***************************************************************************)
(* Induction for the folds and recursive functions of the models.  The     *)
(* induction theorems of the library are about predicates (P(_)); those    *)
(* here are about sets.  They rest on the library's theorem that the       *)
(* strict inclusion of finite sets is well founded.                        *)
(***************************************************************************)
EXTENDS Integers, FiniteSets, SequencesExt, FiniteSetTheorems, WellFoundedInduction,
        SequenceTheorems,
        TLAPS

\* Every set of natural numbers that is not empty has a smallest element.
LEMMA LeastElement ==
  ASSUME NEW T \in SUBSET Nat, T # {}
  PROVE  \E x \in T : \A y \in T : ~(y < x)
<1> DEFINE Below == {1..n : n \in T}
<1>1. IsWellFoundedOn(StrictSubsetOrdering(Nat), FiniteSubsetsOf(Nat))
  BY FS_StrictSubsetOrderingWellFounded, Zenon
<1>2. Below \subseteq FiniteSubsetsOf(Nat)
  <2> SUFFICES ASSUME NEW n \in T PROVE 1..n \in FiniteSubsetsOf(Nat)
    OBVIOUS
  <2>1. IsFiniteSet(1..n) /\ 1..n \subseteq Nat
    BY FS_Interval
  <2> QED
    BY <2>1 DEF FiniteSubsetsOf
<1>3. PICK s \in Below :
        \A t \in Below : ~(<<t, s>> \in StrictSubsetOrdering(Nat))
  <2>1. Below # {}
    OBVIOUS
  <2> QED
    BY <1>1, <1>2, <2>1, WFMin, Zenon
<1>4. PICK n \in T : s = 1..n
  OBVIOUS
<1>5. ASSUME NEW m \in T, m < n PROVE FALSE
  <2>1. n \in 1..n /\ n \notin 1..m
    BY <1>5
  <2>2. /\ 1..m \in SUBSET Nat /\ 1..n \in SUBSET Nat
        /\ 1..m \subseteq 1..n /\ 1..m # 1..n
    BY <1>5, <2>1
  <2>3. <<1..m, 1..n>> \in StrictSubsetOrdering(Nat)
    BY <2>2 DEF StrictSubsetOrdering
  <2> QED
    BY <2>3, <1>3, <1>4
<1> QED
  BY <1>5

\* Induction: a set with 0 and the successor of each of its numbers has all.
LEMMA SetInduction ==
  ASSUME NEW S, 0 \in S, \A n \in Nat : n \in S => n + 1 \in S
  PROVE  Nat \subseteq S
<1> SUFFICES ASSUME NEW k \in Nat, k \notin S PROVE FALSE
  OBVIOUS
<1> DEFINE T == {n \in Nat : n \notin S}
<1>1. PICK n \in T : \A m \in T : ~(m < n)
  BY LeastElement
<1>2. n - 1 \in Nat /\ n - 1 \in S
  BY <1>1
<1>3. (n - 1) + 1 \in S
  BY <1>2
<1> QED
  BY <1>3

\* The largest element of an interval that starts at 1, which the folds take
\* first.
LEMMA MaxOfInterval ==
  ASSUME NEW k \in Nat \ {0}
  PROVE  Max(1..k) = k /\ (1..k) \ {k} = 1..(k - 1)
<1>1. k \in 1..k /\ \A y \in 1..k : k >= y
  OBVIOUS
<1>2. \A x \in 1..k : (\A y \in 1..k : x >= y) => x = k
  OBVIOUS
<1>3. Max(1..k) = k
  BY <1>1, <1>2 DEF Max
<1> QED
  BY <1>3

LEMMA MaxOfFinite ==
  ASSUME NEW n \in Nat, NEW s \in SUBSET (1..n), s # {}
  PROVE  Max(s) \in s /\ \A y \in s : y <= Max(s)
<1> DEFINE T == {n - x : x \in s}
<1>1. T \in SUBSET Nat /\ T # {}
  <2>1. \A x \in s : x \in Nat /\ n - x \in Nat
    OBVIOUS
  <2> QED
    BY <2>1
<1>2. PICK d \in T : \A y \in T : ~(y < d)
  BY <1>1, LeastElement
<1>3. PICK m \in s : d = n - m
  OBVIOUS
<1>4. ASSUME NEW y \in s PROVE m >= y
  <2>1. n - y \in T
    OBVIOUS
  <2>2. ~(n - y < n - m)
    BY <2>1, <1>2, <1>3
  <2>3. y \in Int /\ m \in Int
    OBVIOUS
  <2> QED
    BY <2>2, <2>3
<1>5. \A y \in s : y \in Int
  OBVIOUS
<1>6. PICK x \in s : x = Max(s) /\ \A y \in s : x >= y
  BY <1>4, Zenon DEF Max
<1> QED
  BY <1>5, <1>6

\* What a fold over 1..n starts with, and keeps from step to step, it ends
\* with: G[k] is what is known after k steps.
LEMMA FoldInduction ==
  ASSUME NEW n \in Nat, NEW G, NEW h, h[{}] \in G[0],
         \A k \in 1..n :
           h[(1..k) \ {Max(1..k)}] \in G[k - 1] => h[1..k] \in G[k]
  PROVE  h[1..n] \in G[n]
<1> DEFINE S == {k \in Nat : k <= n => h[1..k] \in G[k]}
<1>1. 0 \in S
  <2>1. 1..0 = {}
    OBVIOUS
  <2> QED
    BY <2>1
<1>2. ASSUME NEW k \in Nat, k \in S PROVE k + 1 \in S
  <2>1. (1..(k + 1)) \ {Max(1..(k + 1))} = 1..k
    BY MaxOfInterval
  <2>2. ASSUME k + 1 <= n PROVE h[1..(k + 1)] \in G[k + 1]
    <3>1. k + 1 \in 1..n /\ (k + 1) - 1 = k /\ k <= n
      BY <2>2
    <3>2. h[1..k] \in G[(k + 1) - 1]
      BY <1>2, <3>1
    <3> QED
      BY <2>1, <3>1, <3>2
  <2> QED
    BY <2>2
<1>3. Nat \subseteq S
  <2> HIDE DEF S
  <2> QED
    BY <1>1, <1>2, SetInduction
<1> QED
  BY <1>3

\* The recursive function that a fold over 1..n is defined by, for a step (the
\* values of f) that stays in the set F.
FoldFrom(g, F, n, f, w) ==
  /\ g \in [SUBSET (1..n) -> F]
  /\ \A s \in SUBSET (1..n) :
       /\ g[s] = IF s = {} THEN w ELSE f[<<g[s \ {Max(s)}], Max(s)>>]
       /\ s # {} => g[s \ {Max(s)}] \in F /\ Max(s) \in 1..n

\* It exists.
LEMMA FoldExists ==
  ASSUME NEW F, NEW n \in Nat, NEW f \in [F \X (1..n) -> F], NEW w \in F
  PROVE  \E g : FoldFrom(g, F, n, f, w)
<1> DEFINE Next(g, s) == f[<<g[s \ {Max(s)}], Max(s)>>]
           Eqn(g, k) == \A s \in SUBSET (1..k) :
                          g[s] = IF s = {} THEN w ELSE Next(g, s)
           Has(k) == \E g \in [SUBSET (1..k) -> F] : Eqn(g, k)
<1>1. Has(0)
  <2>1. 1..0 = {}
    OBVIOUS
  <2> DEFINE g == [s \in SUBSET (1..0) |-> w]
  <2>2. g \in [SUBSET (1..0) -> F]
    OBVIOUS
  <2>3. Eqn(g, 0)
    BY <2>1
  <2> QED
    BY <2>2, <2>3
<1>2. ASSUME NEW k \in Nat, k + 1 <= n, Has(k) PROVE Has(k + 1)
  <2>1. PICK g \in [SUBSET (1..k) -> F] : Eqn(g, k)
    BY <1>2
  <2> DEFINE h == [s \in SUBSET (1..(k + 1)) |->
                     IF s \in SUBSET (1..k) THEN g[s]
                     ELSE f[<<g[s \ {Max(s)}], Max(s)>>]]
  <2>2. ASSUME NEW s \in SUBSET (1..(k + 1)), s # {}
        PROVE  /\ Max(s) \in s
               /\ s \ {Max(s)} \in SUBSET (1..k)
    <3>1. Max(s) \in s /\ \A y \in s : y <= Max(s)
      <4>1. k + 1 \in Nat
        OBVIOUS
      <4> HIDE DEF h
      <4> QED
        BY <2>2, <4>1, MaxOfFinite
    <3>2. \A y \in s \ {Max(s)} : y \in 1..k
      <4> SUFFICES ASSUME NEW y \in s, y # Max(s) PROVE y \in 1..k
        OBVIOUS
      <4>1. y \in 1..(k + 1) /\ Max(s) \in 1..(k + 1) /\ y <= Max(s)
        BY <3>1
      <4> QED
        BY <4>1
    <3> QED
      BY <3>1, <3>2
  <2>3. ASSUME NEW s \in SUBSET (1..(k + 1)), s # {}
        PROVE  h[s] = f[<<h[s \ {Max(s)}], Max(s)>>]
    <3>1. h[s \ {Max(s)}] = g[s \ {Max(s)}]
      BY <2>2, <2>3
    <3>2. CASE s \in SUBSET (1..k)
      BY <2>1, <2>3, <3>1, <3>2
    <3>3. CASE s \notin SUBSET (1..k)
      BY <3>1, <3>3
    <3> QED
      BY <3>2, <3>3
  <2>4. h[{}] = w
    <3>1. {} \in SUBSET (1..k) /\ {} \in SUBSET (1..(k + 1))
      OBVIOUS
    <3>2. g[{}] = w
      BY <2>1, <3>1
    <3> QED
      BY <3>1, <3>2
  <2>5. h \in [SUBSET (1..(k + 1)) -> F]
    <3> SUFFICES ASSUME NEW s \in SUBSET (1..(k + 1))
                 PROVE  (IF s \in SUBSET (1..k) THEN g[s]
                         ELSE f[<<g[s \ {Max(s)}], Max(s)>>]) \in F
      OBVIOUS
    <3>1. CASE s \in SUBSET (1..k)
      BY <3>1
    <3>2. CASE s \notin SUBSET (1..k)
      <4>1. s # {}
        BY <3>2
      <4>2. g[s \ {Max(s)}] \in F
        BY <2>2, <4>1
      <4>3. Max(s) \in 1..n
        <5>1. Max(s) \in 1..(k + 1)
          BY <2>2, <4>1
        <5> QED
          BY <5>1, <1>2
      <4> QED
        BY <3>2, <4>2, <4>3
    <3> QED
      BY <3>1, <3>2
  <2>6. Eqn(h, k + 1)
    <3> HIDE DEF h
    <3> QED
      BY <2>3, <2>4
  <2> QED
    BY <2>5, <2>6
<1>3. Has(n)
  <2> DEFINE S == {k \in Nat : k <= n => Has(k)}
  <2> HIDE DEF Has
  <2>1. 0 \in S
    BY <1>1
  <2>2. ASSUME NEW k \in Nat, k \in S PROVE k + 1 \in S
    <3>1. k + 1 <= n => k <= n
      OBVIOUS
    <3> QED
      BY <1>2, <2>2, <3>1
  <2>3. Nat \subseteq S
    <3> HIDE DEF S
    <3> QED
      BY <2>1, <2>2, SetInduction
  <2> QED
    BY <2>3
<1>4. PICK g \in [SUBSET (1..n) -> F] : Eqn(g, n)
  BY <1>3
<1>5. ASSUME NEW s \in SUBSET (1..n), s # {}
      PROVE  g[s \ {Max(s)}] \in F /\ Max(s) \in 1..n
  <2>1. Max(s) \in s
    BY <1>5, MaxOfFinite
  <2> QED
    BY <2>1
<1> HIDE DEF Next
<1>6. \A s \in SUBSET (1..n) : g[s] = IF s = {} THEN w ELSE Next(g, s)
  BY <1>4
<1> QED
  BY <1>4, <1>5, <1>6 DEF FoldFrom, Next

\* And what it is at the end, whichever function the definition takes.
LEMMA FoldEnds ==
  ASSUME NEW F, NEW n \in Nat, NEW f \in [F \X (1..n) -> F], NEW h, h[{}] \in F,
         \A s \in SUBSET (1..n) :
           s # {} /\ h[s \ {Max(s)}] \in F => h[s] = f[<<h[s \ {Max(s)}], Max(s)>>]
  PROVE  h[1..n] \in F
<1> DEFINE G == [k \in 0..n |-> F]
<1>1. h[{}] \in G[0]
  OBVIOUS
<1>2. ASSUME NEW k \in 1..n, h[(1..k) \ {Max(1..k)}] \in G[k - 1]
      PROVE  h[1..k] \in G[k]
  <2>1. Max(1..k) = k
    BY MaxOfInterval
  <2>2. 1..k \in SUBSET (1..n) /\ 1..k # {} /\ h[(1..k) \ {Max(1..k)}] \in F
    <3>1. k - 1 \in 0..n /\ k \in 1..k /\ 1..k \subseteq 1..n
      OBVIOUS
    <3>2. G[k - 1] = F
      BY <3>1
    <3> QED
      BY <1>2, <3>1, <3>2
  <2> DEFINE before == h[(1..k) \ {Max(1..k)}]
  <2>3. h[1..k] = f[<<before, k>>]
    <3>1. h[1..k] = f[<<before, Max(1..k)>>]
      <4> HIDE DEF G
      <4> QED
        BY <2>2
    <3> QED
      BY <2>1, <3>1
  <2>4. before \in F
    BY <2>2
  <2>5. f[<<before, k>>] \in F
    <3> HIDE DEF before
    <3> QED
      BY <2>4
  <2> QED
    BY <2>3, <2>5
<1>3. h[1..n] \in G[n]
  <2> HIDE DEF G
  <2> QED
    BY <1>1, <1>2, FoldInduction
<1> QED
  BY <1>3
=============================================================================

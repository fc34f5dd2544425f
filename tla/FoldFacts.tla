------------------------------ MODULE FoldFacts ------------------------------
(***************************************************************************)
(* Induction over numbers and folds over sequences, stated with sets and   *)
(* functions, for proofs about definitions that use FoldLeft.              *)
(***************************************************************************)
EXTENDS Naturals, SequencesExt, TLAPS, FiniteSetTheorems

\* A set of numbers has a least one: intervals are well-founded under inclusion.
LEMMA LeastElement ==
  ASSUME NEW T \in SUBSET Nat, T # {}
  PROVE  \E m \in T : \A n \in T : m <= n
  <1> DEFINE Up(n) == 1 .. n
             Ups == {Up(n) : n \in T}
  <1>1. Ups \subseteq FiniteSubsetsOf(Nat) /\ Ups # {}
    <2>1. ASSUME NEW n \in Nat PROVE IsFiniteSet(1 .. n) /\ 1 .. n \in SUBSET Nat
      BY FS_Interval
    <2>2. \A n \in T : Up(n) \in SUBSET Nat /\ IsFiniteSet(Up(n))
      BY <2>1
    <2> HIDE DEF Up
    <2> QED BY <2>2 DEF FiniteSubsetsOf
  <1>2. PICK u \in Ups : \A w \in Ups : <<w, u>> \notin StrictSubsetOrdering(Nat)
    <2> DEFINE R == StrictSubsetOrdering(Nat)
               S == FiniteSubsetsOf(Nat)
    <2>1. IsWellFoundedOn(R, S)
      BY FS_StrictSubsetOrderingWellFounded
    <2> HIDE DEF Ups, R, S
    <2>2. \E u \in Ups : \A w \in Ups : ~(<<w, u>> \in R)
      <3>1. Ups \subseteq S /\ Ups # {}
        BY <1>1 DEF S
      <3> QED BY <2>1, <3>1, WFMin, Zenon
    <2> QED BY <2>2 DEF R
  <1>3. PICK m \in T : u = Up(m)
    OBVIOUS
  <1>4. ASSUME NEW n \in T PROVE m <= n
    <2> SUFFICES ASSUME n < m PROVE FALSE
      OBVIOUS
    <2>1. Up(n) \in Ups /\ Up(n) \subseteq Up(m) /\ m \in Up(m) /\ m \notin Up(n)
      OBVIOUS
    <2>2. Up(n) \in SUBSET Nat /\ Up(m) \in SUBSET Nat
      OBVIOUS
    <2>3. <<Up(n), Up(m)>> \in StrictSubsetOrdering(Nat)
      <3> HIDE DEF Up
      <3> QED BY <2>1, <2>2 DEF StrictSubsetOrdering
    <2> QED BY <1>2, <1>3, <2>1, <2>3
  <1> QED BY <1>4

\* Induction: a set of numbers up to n that has 0 and each next one is 0 .. n.
LEMMA UpTo ==
  ASSUME NEW n \in Nat, NEW T, 0 \in T, \A k \in 0 .. n - 1 : k \in T => k + 1 \in T
  PROVE  0 .. n \subseteq T
  <1> SUFFICES ASSUME ~(0 .. n \subseteq T) PROVE FALSE
    OBVIOUS
  <1> DEFINE Bad == {k \in 0 .. n : k \notin T}
  <1>1. Bad # {} /\ Bad \in SUBSET Nat
    OBVIOUS
  <1>2. PICK m \in Bad : \A k \in Bad : m <= k
    <2> HIDE DEF Bad
    <2> QED BY <1>1, LeastElement
  <1>3. m \in 1 .. n
    OBVIOUS
  <1>4. m - 1 \in 0 .. n - 1 /\ ~(m <= m - 1) /\ (m - 1) + 1 = m
    BY <1>3
  <1>5. m - 1 \in T
    BY <1>2, <1>4
  <1> QED BY <1>4, <1>5

\* The recursion of a fold over 1 .. n has a solution: op[<<a, i>>] takes the
\* i-th element to what has been folded before it, a.
Folded(g, A, base, op, n) ==
  /\ g \in [SUBSET (1 .. n) -> A]
  /\ \A s \in SUBSET (1 .. n) : g[s] = IF s = {} THEN base ELSE op[<<g[s \ {Max(s)}], Max(s)>>]

LEMMA MaxIs ==
  ASSUME NEW n \in Nat, NEW s \in SUBSET (1 .. n), n \in s
  PROVE  Max(s) = n
  <1>1. \A y \in s : n >= y
    OBVIOUS
  <1>2. \A x \in s : (\A y \in s : x >= y) => x = n
    OBVIOUS
  <1> QED BY <1>1, <1>2 DEF Max

LEMMA FoldedUpTo ==
  ASSUME NEW A, NEW base \in A, NEW n \in Nat, NEW op \in [A \X (1 .. n) -> A]
  PROVE  \E g : Folded(g, A, base, op, n)
  <1> DEFINE T == {k \in 0 .. n : \E g : Folded(g, A, base, op, k)}
  <1>1. 0 \in T
    <2> DEFINE g == [s \in SUBSET (1 .. 0) |-> base]
    <2>1. Folded(g, A, base, op, 0)
      BY DEF Folded
    <2> QED BY <2>1
  <1>2. ASSUME NEW k \in 0 .. n - 1, k \in T PROVE k + 1 \in T
    <2>1. PICK g : Folded(g, A, base, op, k)
      BY <1>2
    <2> DEFINE h == [s \in SUBSET (1 .. k + 1) |->
                       IF k + 1 \in s THEN op[<<g[s \ {k + 1}], k + 1>>] ELSE g[s]]
    <2>2. \A s \in SUBSET (1 .. k + 1) : /\ s \ {k + 1} \in SUBSET (1 .. k)
                                         /\ k + 1 \notin s => s \in SUBSET (1 .. k)
      OBVIOUS
    <2>3. h \in [SUBSET (1 .. k + 1) -> A]
      <3>1. ASSUME NEW s \in SUBSET (1 .. k + 1) PROVE h[s] \in A
        <4>1. k + 1 \in 1 .. n
          BY <1>2
        <4>2. g[s \ {k + 1}] \in A /\ (k + 1 \notin s => g[s] \in A)
          BY <2>1, <2>2 DEF Folded
        <4> QED BY <4>1, <4>2
      <3> QED BY <3>1
    <2>4. ASSUME NEW s \in SUBSET (1 .. k + 1), s # {}
          PROVE  h[s] = op[<<h[s \ {Max(s)}], Max(s)>>]
      <3>1. s \ {Max(s)} \in SUBSET (1 .. k + 1)
        OBVIOUS
      <3>2. CASE k + 1 \in s
        <4>1. Max(s) = k + 1
          BY <3>2, MaxIs
        <4>2. h[s \ {k + 1}] = g[s \ {k + 1}]
          BY <2>2
        <4> QED BY <3>2, <4>1, <4>2
      <3>3. CASE k + 1 \notin s
        <4>1. s \in SUBSET (1 .. k) /\ h[s] = g[s] /\ h[s \ {Max(s)}] = g[s \ {Max(s)}]
          BY <2>2, <3>1, <3>3
        <4> QED BY <2>1, <2>4, <4>1 DEF Folded
      <3> QED BY <3>2, <3>3
    <2>5. h[{}] = base
      <3>1. {} \in SUBSET (1 .. k + 1) /\ {} \in SUBSET (1 .. k) /\ k + 1 \notin {}
        OBVIOUS
      <3> QED BY <2>1, <3>1 DEF Folded
    <2>6. Folded(h, A, base, op, k + 1)
      <3> HIDE DEF h
      <3> QED BY <2>3, <2>4, <2>5 DEF Folded
    <2> QED BY <2>6
  <1>3. 0 .. n \subseteq T
    <2> HIDE DEF T
    <2> QED BY <1>1, <1>2, UpTo
  <1> QED BY <1>3

\* A set of numbers up to n has a greatest one.
LEMMA GreatestIn ==
  ASSUME NEW n \in Nat, NEW s \in SUBSET (1 .. n), s # {}
  PROVE  Max(s) \in s /\ \A k \in s : Max(s) >= k
  <1> DEFINE T == {m \in 0 .. n : n - m \in s}
  <1>1. T \in SUBSET Nat /\ \A k \in s : n - k \in T
    OBVIOUS
  <1>2. PICK m \in T : \A k \in T : m <= k
    <2> HIDE DEF T
    <2> QED BY <1>1, LeastElement
  <1>3. n - m \in s /\ \A k \in s : n - m >= k
    BY <1>1, <1>2
  <1> QED BY <1>3 DEF Max

\* The segments 1 .. k are what a fold over 1 .. n goes through.
LEMMA Segment ==
  ASSUME NEW n \in Nat, NEW k \in 1 .. n
  PROVE  /\ 1 .. k \in SUBSET (1 .. n) /\ 1 .. k # {}
         /\ Max(1 .. k) = k /\ (1 .. k) \ {Max(1 .. k)} = 1 .. k - 1
  <1>1. k \in Nat /\ 1 .. k \in SUBSET (1 .. k) /\ k \in 1 .. k
    OBVIOUS
  <1>2. Max(1 .. k) = k
    BY <1>1, MaxIs
  <1> QED BY <1>2
-----------------------------------------------------------------------------
(* The values a fold goes through.  A fold with a defined operator Op over  *)
(* s is f[1 .. Len(s)] for the chosen f of its recursion; it is related to  *)
(* the trace of op, which is Op restricted to a set A that Op keeps.        *)

Data(A, S, base, op, s) == base \in A /\ op \in [A \X S -> A] /\ s \in Seq(S)

Trace(h, A, S, base, op, s) ==
  /\ h \in [0 .. Len(s) -> A]
  /\ h[0] = base /\ \A i \in 1 .. Len(s) : h[i] = op[<<h[i - 1], s[i]>>]

\* The recursion of MapThenFoldSet, with Op by its values on A.
Recursion(f, A, base, op, s) ==
  \A t \in SUBSET (1 .. Len(s)) :
    /\ t = {} => f[t] = base
    /\ t # {} /\ f[t \ {Max(t)}] \in A => f[t] = op[<<f[t \ {Max(t)}], s[Max(t)]>>]

\* A solution of it with values in A.
Solution(g, A, S, base, op, s) ==
  /\ g \in [SUBSET (1 .. Len(s)) -> A]
  /\ \A t \in SUBSET (1 .. Len(s)) :
       /\ t # {} => t \ {Max(t)} \in SUBSET (1 .. Len(s)) /\ s[Max(t)] \in S
       /\ g[t] = IF t = {} THEN base ELSE op[<<g[t \ {Max(t)}], s[Max(t)]>>]

LEMMA FoldExists ==
  ASSUME NEW A, NEW S, NEW base, NEW op, NEW s, Data(A, S, base, op, s)
  PROVE  \E g : Solution(g, A, S, base, op, s)
  <1> USE DEF Data
  <1> DEFINE n == Len(s)
             opn == [p \in A \X (1 .. n) |-> op[<<p[1], s[p[2]]>>]]
  <1>1. n \in Nat /\ \A i \in 1 .. n : s[i] \in S
    OBVIOUS
  <1>2. opn \in [A \X (1 .. n) -> A]
    BY <1>1
  <1>3. PICK g : Folded(g, A, base, opn, n)
    <2> HIDE DEF opn, n
    <2> QED BY <1>1, <1>2, FoldedUpTo
  <1>4. ASSUME NEW t \in SUBSET (1 .. n), t # {}
        PROVE  /\ t \ {Max(t)} \in SUBSET (1 .. n) /\ Max(t) \in 1 .. n
               /\ g[t] = op[<<g[t \ {Max(t)}], s[Max(t)]>>]
    <2>1. t \ {Max(t)} \in SUBSET (1 .. n)
      OBVIOUS
    <2>2. Max(t) \in 1 .. n
      <3> HIDE DEF n
      <3>1. Max(t) \in t
        BY <1>1, <1>4, GreatestIn
      <3> QED BY <3>1
    <2>3. g[t] = opn[<<g[t \ {Max(t)}], Max(t)>>] /\ g[t \ {Max(t)}] \in A
      BY <1>3, <1>4, <2>1 DEF Folded
    <2> QED BY <2>1, <2>2, <2>3
  <1>5. g \in [SUBSET (1 .. n) -> A] /\ g[{}] = base
    BY <1>3 DEF Folded
  <1> HIDE DEF opn
  <1> QED BY <1>1, <1>4, <1>5 DEF Solution

LEMMA FoldIsTrace ==
  ASSUME NEW A, NEW S, NEW base, NEW op, NEW s, NEW f,
         Data(A, S, base, op, s), Recursion(f, A, base, op, s)
  PROVE  \E h : Trace(h, A, S, base, op, s) /\ f[1 .. Len(s)] = h[Len(s)]
  <1> USE DEF Data
  <1> DEFINE n == Len(s)
             T == {k \in 0 .. n : f[1 .. k] \in A}
             h == [k \in 0 .. n |-> f[1 .. k]]
  <1>1. n \in Nat /\ \A i \in 1 .. n : s[i] \in S
    OBVIOUS
  <1>2. f[1 .. 0] = base
    <2>1. {} \in SUBSET (1 .. Len(s)) /\ 1 .. 0 = {}
      OBVIOUS
    <2> QED BY <2>1 DEF Recursion
  <1>3. ASSUME NEW k \in 1 .. n, f[1 .. k - 1] \in A
        PROVE  f[1 .. k] = op[<<f[1 .. k - 1], s[k]>>]
    <2> HIDE DEF T, h
    <2>1. /\ 1 .. k \in SUBSET (1 .. n) /\ 1 .. k # {}
          /\ Max(1 .. k) = k /\ (1 .. k) \ {Max(1 .. k)} = 1 .. k - 1
      <3> HIDE DEF n
      <3> QED BY <1>1, Segment
    <2> QED BY <1>3, <2>1 DEF Recursion
  <1>4. 0 .. n \subseteq T
    <2>1. 0 \in T
      BY <1>1, <1>2
    <2>2. ASSUME NEW k \in 0 .. n - 1, k \in T PROVE k + 1 \in T
      <3>1. k + 1 \in 1 .. n /\ (k + 1) - 1 = k
        BY <1>1
      <3>2. f[1 .. k + 1] = op[<<f[1 .. k], s[k + 1]>>]
        BY <1>3, <2>2, <3>1
      <3> QED BY <1>1, <2>2, <3>1, <3>2
    <2> HIDE DEF T, n
    <2> QED BY <1>1, <2>1, <2>2, UpTo
  <1>5. \A i \in 1 .. n : i - 1 \in 0 .. n /\ h[i] = op[<<h[i - 1], s[i]>>]
    <2> SUFFICES ASSUME NEW i \in 1 .. n PROVE i - 1 \in 0 .. n /\ h[i] = op[<<h[i - 1], s[i]>>]
      OBVIOUS
    <2>1. i - 1 \in 0 .. n /\ i \in 0 .. n
      BY <1>1
    <2>2. h[i] = f[1 .. i] /\ h[i - 1] = f[1 .. i - 1] /\ f[1 .. i - 1] \in A
      BY <1>4, <2>1
    <2> HIDE DEF T, h
    <2> QED BY <1>3, <2>1, <2>2
  <1>6. h \in [0 .. n -> A] /\ h[0] = base /\ h[n] = f[1 .. n]
    BY <1>1, <1>2, <1>4
  <1> HIDE DEF h, T
  <1>7. Trace(h, A, S, base, op, s)
    BY <1>5, <1>6 DEF Trace
  <1> QED BY <1>6, <1>7

\* Two sequences that begin alike have traces that begin alike.
LEMMA TracesAgree ==
  ASSUME NEW A, NEW S, NEW base, NEW op, NEW s, NEW t, NEW g, NEW h,
         Data(A, S, base, op, s), Data(A, S, base, op, t),
         Trace(g, A, S, base, op, s), Trace(h, A, S, base, op, t),
         NEW n \in Nat, n <= Len(s), n <= Len(t), \A i \in 1 .. n : s[i] = t[i]
  PROVE  g[n] = h[n]
  <1> DEFINE T == {k \in 0 .. n : g[k] = h[k]}
  <1>1. 0 \in T
    BY DEF Trace
  <1>2. ASSUME NEW k \in 0 .. n - 1, k \in T PROVE k + 1 \in T
    <2>1. s \in Seq(S) /\ t \in Seq(S)
      BY DEF Data
    <2>2. k + 1 \in 1 .. Len(s) /\ k + 1 \in 1 .. Len(t) /\ k + 1 \in 1 .. n /\ (k + 1) - 1 = k
      BY <2>1
    <2>3. g[k + 1] = op[<<g[k], s[k + 1]>>] /\ h[k + 1] = op[<<h[k], t[k + 1]>>]
      BY <2>2 DEF Trace
    <2> QED BY <1>2, <2>2, <2>3
  <1>3. 0 .. n \subseteq T
    <2> HIDE DEF T
    <2> QED BY <1>1, <1>2, UpTo
  <1> QED BY <1>3
=============================================================================

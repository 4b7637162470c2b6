----------------------------- MODULE Inductions -----------------------------
(***************************************************************************)
(* Induction over the numbers for a set instead of a predicate, and what a *)
(* function that is defined recursively over 0..n comes to: the lemmas the *)
(* proofs about files, logs and properties share.                          *)
(***************************************************************************)
EXTENDS Naturals, Sequences, SequenceTheorems, WellFoundedInduction, TLAPS

\* A set of numbers with anything in it has a least member.
LEMMA LeastNumber ==
    ASSUME NEW T \in SUBSET Nat, T # {}
    PROVE  \E x \in T : \A y \in T : x <= y
  <1> DEFINE R == OpToRel(<, Nat)
  <1>1. IsWellFoundedOn(R, Nat)
    BY NatLessThanWellFounded
  <1>2. \A x, y \in Nat : <<y, x>> \in R <=> y < x
    BY DEF OpToRel
  <1> HIDE DEF R
  <1>3. PICK x \in T : \A y \in T : ~(<<y, x>> \in R)
    BY <1>1, WFMin
  <1>4. \A y \in T : ~(y < x)
    BY <1>2, <1>3
  <1>5. \A y \in T : x <= y
    <2>1. \A a, b \in Nat : ~(b < a) => a <= b
      OBVIOUS
    <2> QED BY <1>4, <2>1
  <1> QED BY <1>5

\* A set of numbers closed under successor up to n holds every number up to n.
LEMMA Numbers ==
    ASSUME NEW n \in Nat, NEW T, 0 \in T, \A i \in T : i \in 0..n /\ i < n => i + 1 \in T
    PROVE  0..n \subseteq T
  <1> DEFINE Missing == {i \in 0..n : i \notin T}
  <1> SUFFICES ASSUME Missing # {} PROVE FALSE
    OBVIOUS
  <1>1. Missing \in SUBSET Nat
    OBVIOUS
  <1>2. PICK x \in Missing : \A y \in Missing : x <= y
    <2> HIDE DEF Missing
    <2> QED BY <1>1, LeastNumber
  <1>3. x \in 0..n /\ x \notin T /\ x # 0
    BY <1>2
  <1>4. x - 1 \in 0..n /\ x - 1 < n /\ (x - 1) + 1 = x
    BY <1>3
  <1>5. x - 1 \notin T
    BY <1>3, <1>4
  <1>6. x - 1 \in Missing
    BY <1>4, <1>5
  <1>7. x <= x - 1
    <2> HIDE DEF Missing
    <2> QED BY <1>2, <1>6
  <1> QED BY <1>3, <1>7

-----------------------------------------------------------------------------
(* Recursive functions *)

\* The steps 1..n as functions on Q, and the values they lead to from the first.
StepsOn(F, n, Q) == F \in [1..n -> [Q -> Q]]
IsFold(f, F, n, Q, base) ==
    f \in [0..n -> Q] /\ f[0] = base /\ \A i \in 1..n : f[i] = F[i][f[i - 1]]

\* Each step given as a function on Q, the function with these steps is there.
LEMMA FoldExists ==
    ASSUME NEW n \in Nat, NEW Q, NEW base \in Q, NEW F, StepsOn(F, n, Q)
    PROVE  \E f : IsFold(f, F, n, Q, base)
  <1> USE DEF StepsOn, IsFold
  <1> DEFINE Good(f, k) == /\ f \in [0..k -> Q] /\ f[0] = base
                           /\ \A i \in 1..k : f[i] = F[i][f[i - 1]]
             T == {k \in 0..n : \E f : Good(f, k)}
  <1>2. 0 \in T
    <2> DEFINE g == [i \in 0..0 |-> base]
    <2>1. g \in [0..0 -> Q] /\ g[0] = base /\ 1..0 = {}
      OBVIOUS
    <2> HIDE DEF g
    <2>3. Good(g, 0)
      BY <2>1
    <2> QED BY <2>3
  <1>3. ASSUME NEW k \in T, k < n
        PROVE  k + 1 \in T
    <2>1. k \in 0..n /\ k + 1 \in 1..n
      BY <1>3
    <2>2. PICK f : Good(f, k)
      OBVIOUS
    <2> DEFINE g == [i \in 0..(k + 1) |-> IF i <= k THEN f[i] ELSE F[k + 1][f[k]]]
    <2>3. F[k + 1] \in [Q -> Q] /\ f[k] \in Q
      BY <2>1, <2>2
    <2>4. F[k + 1][f[k]] \in Q
      BY <2>3
    <2>5. g \in [0..(k + 1) -> Q] /\ g[0] = base
      BY <2>1, <2>2, <2>4
    <2>6. ASSUME NEW i \in 1..(k + 1)
          PROVE  g[i] = F[i][g[i - 1]]
      <3>1. CASE i <= k
        BY <2>1, <2>2, <3>1
      <3>2. CASE i = k + 1
        BY <2>1, <3>2
      <3> QED BY <2>1, <3>1, <3>2
    <2> HIDE DEF g
    <2>7. Good(g, k + 1)
      BY <2>5, <2>6
    <2>8. \E h : Good(h, k + 1)
      <3> HIDE DEF Good
      <3> QED BY <2>7
    <2>9. k + 1 \in 0..n
      BY <2>1
    <2> HIDE DEF Good
    <2> QED BY <2>8, <2>9
  <1>4. n \in T
    <2>1. \A i \in T : i \in 0..n /\ i < n => i + 1 \in T
      BY <1>3
    <2> HIDE DEF T
    <2>2. 0..n \subseteq T
      BY <1>2, <2>1, Numbers
    <2> QED BY <2>2
  <1> QED BY <1>4

\* What holds of the first value and is kept by each step holds of every value.
LEMMA FoldKeeps ==
    ASSUME NEW n \in Nat, NEW Q, NEW f, f[0] \in Q,
           \A i \in 1..n : f[i - 1] \in Q => f[i] \in Q
    PROVE  \A i \in 0..n : f[i] \in Q
  <1> DEFINE T == {i \in 0..n : f[i] \in Q}
  <1>1. 0 \in T
    OBVIOUS
  <1>2. ASSUME NEW i \in T, i < n
        PROVE  i + 1 \in T
    <2>1. i + 1 \in 1..n /\ (i + 1) - 1 = i /\ f[i] \in Q /\ i + 1 \in 0..n
      BY <1>2
    <2>2. f[i + 1] \in Q
      BY <2>1
    <2> QED BY <2>1, <2>2
  <1>3. 0..n \subseteq T
    <2>1. \A i \in T : i \in 0..n /\ i < n => i + 1 \in T
      BY <1>2
    <2> HIDE DEF T
    <2> QED BY <1>1, <2>1, Numbers
  <1> QED BY <1>3

-----------------------------------------------------------------------------
(* Sequences put together, under a name the provers can match *)

Joined(p, q) == p \o q

\* Putting together is associative, and nothing put to a sequence leaves it.
LEMMA JoinedFacts ==
    \A R : /\ \A p, q \in Seq(R) : Joined(p, q) \in Seq(R) /\ Len(Joined(p, q)) = Len(p) + Len(q)
           /\ \A p, q, r \in Seq(R) : Joined(Joined(p, q), r) = Joined(p, Joined(q, r))
           /\ \A p \in Seq(R) : Joined(p, <<>>) = p /\ Joined(<<>>, p) = p
  <1> TAKE R
  <1>1. \A p, q \in Seq(R) : p \o q \in Seq(R) /\ Len(p \o q) = Len(p) + Len(q)
    BY ConcatProperties
  <1>2. \A p, q, r \in Seq(R) : (p \o q) \o r = p \o (q \o r)
    BY ConcatAssociative
  <1>3. \A p \in Seq(R) : p \o <<>> = p /\ <<>> \o p = p
    BY ConcatEmptySeq
  <1> QED BY <1>1, <1>2, <1>3 DEF Joined
=============================================================================

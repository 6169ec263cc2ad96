------------------------------ MODULE Counting ------------------------------
(***************************************************************************)
(* Arguments by counting, on finite sets: actors that have decided on an   *)
(* insert or a grant and leave one by one, sets of one size; what follows  *)
(* by counting up to n, such as least and greatest numbers and functions   *)
(* defined by recursion on 0..n.                                           *)
(***************************************************************************)
EXTENDS Integers, FiniteSets, FiniteSetTheorems, TLAPS

(* Q is no larger than P, and smaller if an actor has left.                 *)
LEMMA Fewer ==
  ASSUME NEW S, IsFiniteSet(S), NEW P \in SUBSET S, NEW Q \in SUBSET P
  PROVE  /\ Cardinality(S) \in Nat
         /\ Cardinality(P) \in Nat /\ Cardinality(Q) \in Nat
         /\ Cardinality(Q) <= Cardinality(P)
         /\ Cardinality(P) <= Cardinality(S)
         /\ \A p \in P \ Q : Cardinality(Q) + 1 <= Cardinality(P)
<1>1. IsFiniteSet(P) /\ Cardinality(P) <= Cardinality(S)
  BY FS_Subset
<1>2. IsFiniteSet(Q) /\ Cardinality(Q) <= Cardinality(P)
  BY <1>1, FS_Subset
<1>3. /\ Cardinality(P) \in Nat /\ Cardinality(Q) \in Nat
      /\ Cardinality(S) \in Nat
  BY <1>1, <1>2, FS_CardinalityType
<1>4. ASSUME NEW p \in P \ Q PROVE Cardinality(Q) + 1 <= Cardinality(P)
  <2>1. Q \in SUBSET (P \ {p})
    BY <1>4
  <2>2. /\ IsFiniteSet(P \ {p})
        /\ Cardinality(P \ {p}) = Cardinality(P) - 1
    BY <1>1, <1>4, FS_RemoveElement
  <2>3. Cardinality(Q) <= Cardinality(P \ {p})
    BY <2>1, <2>2, FS_Subset
  <2> QED
    BY <1>3, <2>2, <2>3
<1> QED
  BY <1>1, <1>2, <1>3, <1>4

(* A set whose members are all equal has at most one.                       *)
LEMMA AtMostOne ==
  ASSUME NEW S, \A x, y \in S : x = y
  PROVE  IsFiniteSet(S) /\ Cardinality(S) \in Nat /\ Cardinality(S) <= 1
<1>1. CASE S = {}
  BY <1>1, FS_EmptySet
<1>2. CASE S # {}
  <2>1. PICK x : S = {x}
    BY <1>2
  <2> QED BY <2>1, FS_Singleton
<1> QED BY <1>1, <1>2

(* Sets between which there is a bijection are equally large.               *)
LEMMA SameSize ==
  ASSUME NEW S, IsFiniteSet(S), NEW T, NEW f \in [S -> T],
         \A x, y \in S : f[x] = f[y] => x = y,
         \A z \in T : \E x \in S : f[x] = z
  PROVE  IsFiniteSet(T) /\ Cardinality(T) = Cardinality(S)
<1>1. f \in Bijection(S, T)
  BY DEF Bijection, Injection, Surjection, IsInjective
<1> QED BY <1>1, FS_Bijection DEF ExistsBijection

(* Two sets that share nothing count as much as both together.              *)
LEMMA Disjoint ==
  ASSUME NEW S, IsFiniteSet(S), NEW T, IsFiniteSet(T), S \intersect T = {}
  PROVE  /\ IsFiniteSet(S \union T)
         /\ Cardinality(S) \in Nat /\ Cardinality(T) \in Nat
         /\ Cardinality(S \union T) = Cardinality(S) + Cardinality(T)
<1>1. Cardinality(S) \in Nat /\ Cardinality(T) \in Nat
  BY FS_CardinalityType
<1>2. Cardinality(S \intersect T) = 0
  BY FS_EmptySet
<1>3. /\ IsFiniteSet(S \union T)
      /\ Cardinality(S \union T)
           = Cardinality(S) + Cardinality(T) - Cardinality(S \intersect T)
  BY FS_Union
<1> QED BY <1>1, <1>2, <1>3

(* Induction up to n: a finite set of numbers that are not in S, with all   *)
(* numbers above it, would be as large without its greatest number as with  *)
(* it.                                                                      *)
LEMMA UpTo ==
  ASSUME NEW n \in Nat, NEW S, 0 \in S,
         \A i \in 0..(n - 1) : i \in S => i + 1 \in S
  PROVE  0..n \subseteq S
<1> DEFINE D == {d \in 0..n : \E b \in 0..n : b \notin S /\ b <= d}
           f == [d \in D |-> d - 1]
<1>0. IsFiniteSet(D)
  <2>1. IsFiniteSet(0..n) /\ D \in SUBSET (0..n)
    BY FS_Interval
  <2> HIDE DEF D
  <2> QED BY <2>1, FS_Subset
<1> SUFFICES ASSUME NEW m \in 0..n, m \notin S PROVE FALSE
  OBVIOUS
<1>1. n \in D
  OBVIOUS
<1>2. ASSUME NEW d \in D PROVE d - 1 \in D \ {n}
  <2>1. PICK b \in 0..n : b \notin S /\ b <= d
    OBVIOUS
  <2>2. b # 0 /\ b - 1 \notin S /\ b - 1 \in 0..n
    <3>1. b # 0
      BY <2>1
    <3>2. b - 1 \in 0..(n - 1) /\ (b - 1) + 1 = b
      BY <3>1
    <3> QED BY <2>1, <3>1, <3>2
  <2>3. d - 1 \in 0..n /\ b - 1 <= d - 1 /\ d - 1 # n
    BY <2>1, <2>2
  <2> QED BY <2>2, <2>3
<1>3. f \in Injection(D, D \ {n})
  <2>1. \A c, d \in D : f[c] = f[d] => c = d
    OBVIOUS
  <2>2. f \in [D -> D \ {n}]
    BY <1>2
  <2> QED BY <2>1, <2>2 DEF Injection, IsInjective
<1>4. IsFiniteSet(D \ {n}) /\ Cardinality(D \ {n}) = Cardinality(D) - 1
  BY <1>0, <1>1, FS_RemoveElement
<1>5. Cardinality(D) <= Cardinality(D \ {n}) /\ Cardinality(D) \in Nat
  <2> HIDE DEF D, f
  <2> QED BY <1>0, <1>3, <1>4, FS_Injection, FS_CardinalityType
<1> HIDE DEF D
<1> QED BY <1>4, <1>5

(* The least and the greatest of some numbers.                              *)
LEMMA Least ==
  ASSUME NEW n \in Nat, NEW S \in SUBSET (0..n), S # {}
  PROVE  \E l \in S : \A x \in S : l <= x
<1> SUFFICES ASSUME ~ \E l \in S : \A x \in S : l <= x PROVE FALSE
  OBVIOUS
<1> DEFINE T == {i \in 0..n : \A x \in S : i < x}
<1>1. 0 \in T
  <2>1. 0 \notin S
    OBVIOUS
  <2> QED BY <2>1
<1>2. ASSUME NEW i \in 0..(n - 1), i \in T PROVE i + 1 \in T
  <2>1. \A x \in S : i + 1 <= x
    BY <1>2
  <2>2. i + 1 \notin S
    BY <2>1
  <2> QED BY <2>1, <2>2
<1> HIDE DEF T
<1>3. 0..n \subseteq T
  BY <1>1, <1>2, UpTo
<1>4. PICK x \in S : TRUE
  OBVIOUS
<1> QED BY <1>3, <1>4 DEF T

LEMMA Greatest ==
  ASSUME NEW n \in Nat, NEW S \in SUBSET (0..n), S # {}
  PROVE  \E g \in S : \A x \in S : x <= g
<1> DEFINE T == {n - x : x \in S}
<1>1. T \in SUBSET (0..n) /\ T # {}
  <2>1. ASSUME NEW x \in S PROVE n - x \in 0..n
    <3>1. x \in 0..n
      OBVIOUS
    <3> QED BY <3>1
  <2>2. PICK x \in S : TRUE
    OBVIOUS
  <2> QED BY <2>1, <2>2
<1>2. PICK l \in T : \A y \in T : l <= y
  BY <1>1, Least
<1>3. PICK g \in S : l = n - g
  OBVIOUS
<1>4. \A x \in S : x <= g
  <2> SUFFICES ASSUME NEW x \in S PROVE x <= g
    OBVIOUS
  <2>1. n - g <= n - x
    BY <1>2, <1>3
  <2> QED BY <2>1
<1> QED BY <1>4

(* A recursive definition along 1..n has a solution.                        *)
Solves(f, n, R, base, step) ==
  /\ f \in [0..n -> R] /\ f[0] = base
  /\ \A i \in 1..n : f[i] = step[<<i, f[i - 1]>>]

LEMMA Recursion ==
  ASSUME NEW n \in Nat, NEW R, NEW base \in R, NEW step \in [(1..n) \X R -> R]
  PROVE  \E f : Solves(f, n, R, base, step)
<1> DEFINE S == {k \in 0..n : \E f : Solves(f, k, R, base, step)}
<1>1. 0 \in S
  <2>1. Solves([i \in 0..0 |-> base], 0, R, base, step)
    BY DEF Solves
  <2> QED BY <2>1
<1>2. ASSUME NEW k \in 0..(n - 1), k \in S PROVE k + 1 \in S
  <2>1. PICK f : Solves(f, k, R, base, step)
    BY <1>2
  <2> DEFINE g == [i \in 0..(k + 1) |->
                     IF i = k + 1 THEN step[<<k + 1, f[k]>>] ELSE f[i]]
  <2>2. f[k] \in R /\ k + 1 \in 1..n
    BY <2>1 DEF Solves
  <2>3. step[<<k + 1, f[k]>>] \in R
    BY <2>2
  <2>4. /\ g[k + 1] = step[<<k + 1, f[k]>>]
        /\ \A i \in 0..k : i # k + 1 /\ g[i] = f[i]
    OBVIOUS
  <2>5. \A i \in 0..(k + 1) : g[i] \in R
    BY <2>1, <2>3 DEF Solves
  <2>6. g \in [0..(k + 1) -> R]
    BY <2>5
  <2> HIDE DEF g
  <2>7. \A i \in 1..(k + 1) : g[i] = step[<<i, g[i - 1]>>]
    <3> SUFFICES ASSUME NEW i \in 1..(k + 1) PROVE g[i] = step[<<i, g[i - 1]>>]
      OBVIOUS
    <3>1. CASE i = k + 1
      <4>1. i - 1 = k /\ k \in 0..k
        BY <3>1
      <4> QED BY <2>4, <3>1, <4>1
    <3>2. CASE i # k + 1
      <4>1. i \in 1..k /\ i \in 0..k /\ i - 1 \in 0..k
        BY <3>2
      <4> QED BY <2>1, <2>4, <4>1 DEF Solves
    <3> QED BY <3>1, <3>2
  <2>8. g[0] = base
    BY <2>1, <2>4 DEF Solves
  <2>9. Solves(g, k + 1, R, base, step)
    BY <2>6, <2>7, <2>8 DEF Solves
  <2> QED BY <2>9
<1> HIDE DEF S
<1>3. n \in S
  BY <1>1, <1>2, UpTo
<1> QED BY <1>3 DEF S

=============================================================================

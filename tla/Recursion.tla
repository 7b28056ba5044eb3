------------------------------ MODULE Recursion ------------------------------
(***************************************************************************)
(* Facts about the numbers and about functions defined by recursion on     *)
(* them, for the proofs about loops: a loop is written in these modules as *)
(* a function of the number of its rounds.                                 *)
(***************************************************************************)
EXTENDS Integers, WellFoundedInduction, TLAPS

\* Every set of numbers has a least one.
LEMMA LeastNumber ==
  ASSUME NEW S \in SUBSET Nat, S # {}
  PROVE  \E m \in S : \A k \in S : m <= k
<1> DEFINE R == OpToRel(<, Nat)
<1>1. IsWellFoundedOn(R, Nat)
  BY NatLessThanWellFounded
<1>2. \A x, y \in Nat : <<x, y>> \in R <=> x < y
  BY DEF OpToRel
<1> HIDE DEF R
<1>3. PICK m \in S : \A y \in S : ~(<<y, m>> \in R)
  BY <1>1, WFMin
<1>4. ASSUME NEW k \in S PROVE m <= k
  <2>1. k \in Nat /\ m \in Nat /\ ~(k < m)
    BY <1>2, <1>3
  <2> QED BY <2>1
<1> QED BY <1>4

\* A set of numbers that holds 0 and every successor of its members holds all.
LEMMA AllNumbers ==
  ASSUME NEW S \in SUBSET Nat, 0 \in S, \A n \in S : n + 1 \in S
  PROVE  S = Nat
<1> SUFFICES ASSUME Nat \ S # {} PROVE FALSE
  OBVIOUS
<1>1. PICK m \in Nat \ S : \A k \in Nat \ S : m <= k
  BY LeastNumber
<1>2. m # 0
  BY <1>1
<1>3. m - 1 \in S
  BY <1>1, <1>2
<1> QED BY <1>3, <1>1

\* The same for an interval: what holds of its first number, and of the next one
\* whenever it holds of one, holds of all.
LEMMA AllOfInterval ==
  ASSUME NEW a \in Int, NEW b \in Int, NEW S, a <= b => a \in S,
         \A n \in a..(b - 1) : n \in S => n + 1 \in S
  PROVE  a..b \subseteq S
<1> DEFINE T == {k \in Nat : a + k <= b => a + k \in S}
<1>1. T \in SUBSET Nat /\ 0 \in T
  OBVIOUS
<1>2. ASSUME NEW k \in T PROVE k + 1 \in T
  <2>1. k \in Nat /\ (a + k <= b => a + k \in S)
    OBVIOUS
  <2>2. a + (k + 1) <= b => a + (k + 1) \in S
    <3> SUFFICES ASSUME a + (k + 1) <= b PROVE a + (k + 1) \in S
      OBVIOUS
    <3>1. a + k \in a..(b - 1) /\ a + k \in S
      BY <2>1
    <3>2. (a + k) + 1 \in S
      BY <3>1
    <3>3. (a + k) + 1 = a + (k + 1)
      BY <2>1
    <3> QED BY <3>2, <3>3
  <2> QED BY <2>1, <2>2
<1> HIDE DEF T
<1>3. T = Nat
  BY <1>1, <1>2, AllNumbers
<1>4. ASSUME NEW n \in a..b PROVE n \in S
  <2>1. n - a \in Nat /\ a + (n - a) = n /\ n <= b
    OBVIOUS
  <2>2. n - a \in T
    BY <1>3, <2>1
  <2> QED BY <2>1, <2>2 DEF T
<1> QED BY <1>4

\* f has a first value, and each value after it follows from the one before.
Follows(f, a, b, V, first, next) ==
  /\ f \in [a..b -> V]
  /\ a <= b => f[a] = first
  /\ \A n \in (a + 1)..b : f[n] = next[n][f[n - 1]]

\* There is such a function.
LEMMA RecursiveFunction ==
  ASSUME NEW a \in Int, NEW b \in Int, NEW V, NEW first \in V,
         NEW next \in [a..b -> [V -> V]]
  PROVE  \E f : Follows(f, a, b, V, first, next)
<1> DEFINE upto(k) == \E f : Follows(f, a, k, V, first, next)
           S == {k \in a..b : upto(k)}
<1>1. ASSUME a <= b PROVE a \in S
  <2> DEFINE f == [n \in a..a |-> first]
  <2>1. f \in [a..a -> V]
    OBVIOUS
  <2>2. f[a] = first
    OBVIOUS
  <2> HIDE DEF f
  <2>3. upto(a)
    BY <2>1, <2>2 DEF Follows
  <2>4. a \in a..b
    BY <1>1
  <2> HIDE DEF upto
  <2> QED BY <2>3, <2>4
<1>2. ASSUME NEW k \in a..(b - 1), k \in S PROVE k + 1 \in S
  <2>1. PICK f : Follows(f, a, k, V, first, next)
    BY <1>2
  <2>2. f \in [a..k -> V] /\ next[k + 1] \in [V -> V] /\ f[k] \in V /\ k \in Int
    BY <2>1 DEF Follows
  <2> DEFINE g == [n \in a..(k + 1) |-> IF n = k + 1 THEN next[k + 1][f[k]] ELSE f[n]]
  <2>3. g \in [a..(k + 1) -> V]
    BY <2>2
  <2>4. g[a] = first
    <3>1. a \in a..(k + 1) /\ a # k + 1 /\ a <= k
      OBVIOUS
    <3> QED BY <2>1, <3>1 DEF Follows
  <2>5. ASSUME NEW n \in (a + 1)..(k + 1) PROVE g[n] = next[n][g[n - 1]]
    <3>1. n \in a..(k + 1) /\ n - 1 \in a..(k + 1) /\ n - 1 # k + 1
      BY <2>2
    <3>2. g[n - 1] = f[n - 1]
      BY <3>1
    <3>3. CASE n = k + 1
      <4>1. g[n] = next[k + 1][f[k]] /\ n - 1 = k
        BY <2>2, <3>1, <3>3
      <4> QED BY <3>2, <3>3, <4>1
    <3>4. CASE n # k + 1
      <4>1. n \in (a + 1)..k /\ g[n] = f[n]
        BY <2>2, <3>1, <3>4
      <4> QED BY <2>1, <3>2, <4>1 DEF Follows
    <3> QED BY <3>3, <3>4
  <2> HIDE DEF g
  <2>6. upto(k + 1)
    BY <2>3, <2>4, <2>5 DEF Follows
  <2>7. k + 1 \in a..b
    OBVIOUS
  <2> HIDE DEF upto
  <2> QED BY <2>6, <2>7
<1>3. CASE a <= b
  <2> HIDE DEF upto
  <2>1. a..b \subseteq S
    <3> HIDE DEF S
    <3> QED BY <1>1, <1>2, AllOfInterval
  <2>2. b \in a..b
    BY <1>3
  <2>3. upto(b)
    BY <2>1, <2>2
  <2> QED BY <2>3 DEF upto
<1>4. CASE ~(a <= b)
  <2> DEFINE f == [n \in a..b |-> first]
  <2>1. f \in [a..b -> V] /\ (a + 1)..b = {}
    BY <1>4
  <2> HIDE DEF f
  <2> QED BY <1>4, <2>1 DEF Follows
<1> QED BY <1>3, <1>4

\* It is the only one.
LEMMA FollowsOnly ==
  ASSUME NEW a \in Int, NEW b \in Int, NEW V, NEW first, NEW next, NEW f,
         Follows(f, a, b, V, first, next), NEW g, a <= b => g[a] = first,
         \A n \in (a + 1)..b : g[n - 1] \in V => g[n] = next[n][g[n - 1]]
  PROVE  \A n \in a..b : g[n] = f[n] /\ g[n] \in V
<1> DEFINE S == {n \in a..b : g[n] = f[n]}
<1>1. a <= b => a \in S
  BY DEF Follows
<1>2. ASSUME NEW n \in a..(b - 1), n \in S PROVE n + 1 \in S
  <2>1. n + 1 \in (a + 1)..b /\ n + 1 \in a..b /\ n \in a..b /\ (n + 1) - 1 = n
    OBVIOUS
  <2>2. f[n] \in V /\ g[n] = f[n]
    BY <1>2, <2>1 DEF Follows
  <2>3. g[n + 1] = next[n + 1][g[n]]
    BY <2>1, <2>2
  <2>4. f[n + 1] = next[n + 1][f[n]]
    BY <2>1 DEF Follows
  <2> QED BY <2>1, <2>2, <2>3, <2>4
<1> HIDE DEF S
<1>3. a..b \subseteq S
  BY <1>1, <1>2, AllOfInterval
<1>4. ASSUME NEW n \in a..b PROVE g[n] = f[n] /\ g[n] \in V
  <2>1. g[n] = f[n]
    BY <1>3 DEF S
  <2> QED BY <2>1 DEF Follows
<1> QED BY <1>4
==============================================================================

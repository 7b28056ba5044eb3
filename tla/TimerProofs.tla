----------------------------- MODULE TimerProofs -----------------------------
(***************************************************************************)
(* What the plugin does by itself while a level runs: CRPG_Timer's queue,  *)
(* and the upgrades Regen, Medic and Stealth, whose functions it calls.    *)
(*                                                                         *)
(* Timer, for every frame and level length: its types, that the list is    *)
(* whole and sorted, and that it implements TimerQueue.  The first part    *)
(* is about LinkedList's operations on any list: what each makes of the    *)
(* row of nodes that its links form.  Vitals, for every number of clients, *)
(* every increment and every maximum: its types, that nobody is healed     *)
(* beyond the maximum, and that healing does not hurt.                     *)
(*                                                                         *)
(* The passes of the sort, the creation of the timers and what the medics  *)
(* do to a client together are defined by recursion; Recursion says what   *)
(* such a definition means.                                                *)
(***************************************************************************)
EXTENDS Timer, Vitals, Recursion, FiniteSetTheorems

-----------------------------------------------------------------------------
(* Lists.                                                                  *)

\* A list, whatever its pointers say.
Links == [next : [Timers -> Timers \cup {NULL}], prev : [Timers -> Timers \cup {NULL}],
          first : Timers \cup {NULL}, last : Timers \cup {NULL}, count : Nat]

\* L links the n timers of s both ways, in this order.  Nothing is said of ll_last.
Chain(L, s, n) ==
  /\ L \in Links /\ n \in Nat /\ s \in [1..n -> Timers]
  /\ \A i, j \in 1..n : s[i] = s[j] => i = j
  /\ L.count = n
  /\ L.first = IF n = 0 THEN NULL ELSE s[1]
  /\ \A k \in 1..n : /\ L.prev[s[k]] = IF k = 1 THEN NULL ELSE s[k - 1]
                     /\ L.next[s[k]] = IF k = n THEN NULL ELSE s[k + 1]

\* Two neighbours in each other's place.
Swapped(s, j) == [s EXCEPT ![j - 1] = s[j], ![j] = s[j - 1]]

LEMMA Neighbours ==
  ASSUME NEW L, NEW s, NEW n, Chain(L, s, n), NEW j \in 2..n
  PROVE  LET a == s[j - 1]
             b == s[j]
             c == L.next[b]
             z == L.prev[a]
         IN /\ a \in Timers /\ b \in Timers /\ a # b
            /\ L.prev[b] = a /\ L.next[a] = b
            /\ \/ j = n /\ c = NULL
               \/ j < n /\ c = s[j + 1] /\ c \in Timers /\ c # a /\ c # b /\ L.prev[c] = b
            /\ \/ j = 2 /\ z = NULL /\ L.first = a
               \/ /\ j > 2 /\ z = s[j - 2] /\ z \in Timers /\ z # a /\ z # b /\ z # c
                  /\ L.next[z] = a
<1>1. j \in 1..n /\ j - 1 \in 1..n /\ n \in Nat /\ j # 1 /\ j - 1 # n /\ (j - 1) + 1 = j /\ j - 1 # j
  BY DEF Chain
<1>2. s[j - 1] \in Timers /\ s[j] \in Timers /\ s[j - 1] # s[j]
  BY <1>1 DEF Chain
<1>3. L.prev[s[j]] = s[j - 1] /\ L.next[s[j - 1]] = s[j]
  BY <1>1 DEF Chain
<1>4. CASE j < n
  <2>1. j + 1 \in 1..n /\ (j + 1) - 1 = j /\ j # n /\ j + 1 # 1
    BY <1>1, <1>4
  <2>2. L.next[s[j]] = s[j + 1] /\ s[j + 1] \in Timers /\ s[j + 1] # s[j] /\ s[j + 1] # s[j - 1]
        /\ L.prev[s[j + 1]] = s[j]
    BY <1>1, <2>1 DEF Chain
  <2>3. CASE j = 2
    BY <1>1, <1>2, <1>3, <1>4, <2>2, <2>3 DEF Chain
  <2>4. CASE j > 2
    <3>1. j - 2 \in 1..n /\ j - 2 # n /\ (j - 2) + 1 = j - 1 /\ (j - 1) - 1 = j - 2 /\ j - 1 # 1
      BY <1>1, <2>4
    <3>2. L.prev[s[j - 1]] = s[j - 2] /\ s[j - 2] \in Timers /\ L.next[s[j - 2]] = s[j - 1]
      BY <1>1, <3>1 DEF Chain
    <3>3. s[j - 2] # s[j - 1] /\ s[j - 2] # s[j] /\ s[j - 2] # s[j + 1]
      BY <1>1, <2>1, <3>1 DEF Chain
    <3> QED BY <1>2, <1>3, <1>4, <2>2, <2>4, <3>2, <3>3
  <2> QED BY <2>3, <2>4
<1>5. CASE j = n
  <2>1. L.next[s[j]] = NULL
    BY <1>1, <1>5 DEF Chain
  <2>3. CASE j = 2
    BY <1>1, <1>2, <1>3, <1>5, <2>1, <2>3 DEF Chain
  <2>4. CASE j > 2
    <3>1. j - 2 \in 1..n /\ j - 2 # n /\ (j - 2) + 1 = j - 1 /\ (j - 1) - 1 = j - 2 /\ j - 1 # 1
      BY <1>1, <2>4
    <3>2. L.prev[s[j - 1]] = s[j - 2] /\ s[j - 2] \in Timers /\ L.next[s[j - 2]] = s[j - 1]
      BY <1>1, <3>1 DEF Chain
    <3>3. s[j - 2] # s[j - 1] /\ s[j - 2] # s[j] /\ NULL \notin Timers
      BY <1>1, <3>1, TimerConstants DEF Chain
    <3> QED BY <1>2, <1>3, <1>5, <2>1, <2>4, <3>2, <3>3
  <2> QED BY <1>1, <2>3, <2>4
<1> QED BY <1>1, <1>4, <1>5

\* What ll_move_after does to the pointers when a node is moved over the one before it.
LEMMA MovedPointers ==
  ASSUME NEW L, NEW s, NEW n, Chain(L, s, n), NEW j \in 2..n
  PROVE  LET a == s[j - 1]
             b == s[j]
             c == L.next[b]
             z == L.prev[a]
             M == ll_move_after(L, b, z)
         IN /\ M \in Links
            /\ M.count = L.count
            /\ M.first = IF z = NULL THEN b ELSE L.first
            /\ \A x \in Timers :
                 /\ M.next[x] = IF x = a THEN c ELSE IF x = b THEN a ELSE IF x = z THEN b
                                ELSE L.next[x]
                 /\ M.prev[x] = IF x = a THEN b ELSE IF x = b THEN z ELSE IF x = c THEN a
                                ELSE L.prev[x]
<1> DEFINE a == s[j - 1]
           b == s[j]
           c == L.next[b]
           z == L.prev[a]
           M == ll_move_after(L, b, z)
           N1 == [L.next EXCEPT ![a] = c]
           P1 == IF c = NULL THEN L.prev ELSE [L.prev EXCEPT ![c] = a]
           U == Unlinked(L, b)
<1>1. NULL \notin Timers /\ L \in Links
  BY TimerConstants DEF Chain
<1>2. /\ a \in Timers /\ b \in Timers /\ a # b /\ L.prev[b] = a /\ L.next[a] = b
      /\ c = NULL \/ (c \in Timers /\ c # a /\ c # b /\ L.prev[c] = b)
      /\ (z = NULL /\ L.first = a) \/ (z \in Timers /\ z # a /\ z # b /\ z # c /\ L.next[z] = a)
  BY Neighbours
<1> HIDE DEF a, b
<1>3. /\ L.next \in [Timers -> Timers \cup {NULL}] /\ L.prev \in [Timers -> Timers \cup {NULL}]
      /\ L.first \in Timers \cup {NULL} /\ L.last \in Timers \cup {NULL} /\ L.count \in Nat
  BY <1>1 DEF Links
<1>4. /\ c \in Timers \cup {NULL} /\ z \in Timers \cup {NULL}
  BY <1>2
<1>5. U = [next |-> N1, prev |-> P1, first |-> L.first, last |-> L.last, count |-> L.count]
  <2>0. L = [next |-> L.next, prev |-> L.prev, first |-> L.first, last |-> L.last, count |-> L.count]
    BY <1>1 DEF Links
  <2>1. a # NULL
    BY <1>1, <1>2
  <2>2. [L EXCEPT !.next[a] = c] = [next |-> N1, prev |-> L.prev, first |-> L.first,
                                    last |-> L.last, count |-> L.count]
    BY <2>0
  <2>3. CASE c = NULL
    BY <1>2, <2>1, <2>2, <2>3 DEF Unlinked
  <2>4. CASE c # NULL
    <3>1. U = [[L EXCEPT !.next[a] = c] EXCEPT !.prev[c] = a]
      BY <1>2, <2>1, <2>4 DEF Unlinked
    <3> QED BY <2>2, <2>4, <3>1
  <2> QED BY <2>3, <2>4
<1> HIDE DEF U
<1>6. /\ N1 \in [Timers -> Timers \cup {NULL}] /\ P1 \in [Timers -> Timers \cup {NULL}]
      /\ N1[a] = c /\ \A x \in Timers : x # a => N1[x] = L.next[x]
      /\ \A x \in Timers : P1[x] = IF x = c THEN a ELSE L.prev[x]
  BY <1>1, <1>2, <1>3, <1>4
<1> HIDE DEF N1, P1, c, z
<1>7. CASE z = NULL
  <2> DEFINE F == [U EXCEPT !.prev = [@ EXCEPT ![b] = NULL, ![U.first] = b],
                            !.next[b] = U.first,
                            !.last = IF U.next[U.first] = NULL THEN U.first ELSE @,
                            !.first = b]
  <2>1. M = F
    BY <1>1, <1>2, <1>7, Zenon DEF ll_move_after, U
  <2>2. U.first = a /\ L.first = a
    BY <1>1, <1>2, <1>5, <1>7
  <2>3. F = [next |-> [N1 EXCEPT ![b] = a], prev |-> [P1 EXCEPT ![b] = NULL, ![a] = b],
             first |-> b, last |-> IF N1[a] = NULL THEN a ELSE L.last, count |-> L.count]
    <3>1. U.first = a /\ U.next = N1 /\ U.prev = P1 /\ U.last = L.last /\ U.count = L.count
      BY <1>5, <2>2
    <3> HIDE DEF N1, P1
    <3>2. F = [U EXCEPT !.prev = [P1 EXCEPT ![b] = NULL, ![a] = b], !.next = [N1 EXCEPT ![b] = a],
                        !.last = IF N1[a] = NULL THEN a ELSE L.last, !.first = b]
      BY <3>1
    <3> HIDE DEF F
    <3> QED BY <1>5, <3>2
  <2> HIDE DEF F, M
  <2>4. M \in Links
    BY <1>2, <1>3, <1>6, <2>1, <2>3 DEF Links
  <2>5. M.first = b /\ M.count = L.count
    BY <2>1, <2>3
  <2>6. ASSUME NEW x \in Timers
        PROVE  /\ M.next[x] = IF x = a THEN c ELSE IF x = b THEN a ELSE IF x = z THEN b
                              ELSE L.next[x]
               /\ M.prev[x] = IF x = a THEN b ELSE IF x = b THEN z ELSE IF x = c THEN a
                              ELSE L.prev[x]
    <3>1. M.next = [N1 EXCEPT ![b] = a] /\ M.prev = [P1 EXCEPT ![b] = NULL, ![a] = b]
      BY <2>1, <2>3
    <3> QED BY <1>1, <1>2, <1>6, <1>7, <3>1
  <2> QED BY <1>7, <2>4, <2>5, <2>6 DEF a, b, c, z, M
<1>8. CASE z # NULL
  <2>0. z \in Timers /\ z # a /\ z # b /\ z # c /\ L.next[z] = a
    BY <1>2, <1>8
  <2>1. U.next[z] = a /\ a # NULL /\ b # z
    BY <1>1, <1>2, <1>5, <1>6, <2>0
  <2> DEFINE F == [U EXCEPT !.prev[b] = z, !.next = [@ EXCEPT ![b] = a, ![z] = b]]
             G == [F EXCEPT !.prev[a] = b]
  <2>2. M = G
    BY <1>8, <2>1, Zenon DEF ll_move_after, U
  <2>3. F = [next |-> [N1 EXCEPT ![b] = a, ![z] = b], prev |-> [P1 EXCEPT ![b] = z],
             first |-> L.first, last |-> L.last, count |-> L.count]
    <3>1. U.next = N1 /\ U.prev = P1
      BY <1>5
    <3> HIDE DEF N1, P1
    <3>2. F = [U EXCEPT !.prev = [P1 EXCEPT ![b] = z], !.next = [N1 EXCEPT ![b] = a, ![z] = b]]
      BY <3>1
    <3> HIDE DEF F
    <3> QED BY <1>5, <3>2
  <2>4. G = [next |-> [N1 EXCEPT ![b] = a, ![z] = b],
             prev |-> [P1 EXCEPT ![b] = z, ![a] = b],
             first |-> L.first, last |-> L.last, count |-> L.count]
    <3>1. F.prev = [P1 EXCEPT ![b] = z]
      BY <2>3
    <3> HIDE DEF F
    <3>2. G = [F EXCEPT !.prev = [[P1 EXCEPT ![b] = z] EXCEPT ![a] = b]]
      BY <3>1
    <3> HIDE DEF G
    <3> QED BY <2>3, <3>2
  <2> HIDE DEF F, G, M
  <2>5. M \in Links
    BY <1>2, <1>3, <1>6, <2>0, <2>2, <2>4 DEF Links
  <2>6. M.first = L.first /\ M.count = L.count
    BY <2>2, <2>4
  <2>7. ASSUME NEW x \in Timers
        PROVE  /\ M.next[x] = IF x = a THEN c ELSE IF x = b THEN a ELSE IF x = z THEN b
                              ELSE L.next[x]
               /\ M.prev[x] = IF x = a THEN b ELSE IF x = b THEN z ELSE IF x = c THEN a
                              ELSE L.prev[x]
    <3>1. M.next = [N1 EXCEPT ![b] = a, ![z] = b] /\ M.prev = [P1 EXCEPT ![b] = z, ![a] = b]
      BY <2>2, <2>4
    <3> QED BY <1>2, <1>6, <2>0, <3>1
  <2> QED BY <1>8, <2>5, <2>6, <2>7 DEF a, b, c, z, M
<1> QED BY <1>7, <1>8

\* A node moved over the one before it changes places with it.
LEMMA MovedUp ==
  ASSUME NEW L, NEW s, NEW n, Chain(L, s, n), NEW j \in 2..n
  PROVE  Chain(ll_move_after(L, s[j], L.prev[s[j - 1]]), Swapped(s, j), n)
<1> DEFINE a == s[j - 1]
           b == s[j]
           c == L.next[b]
           z == L.prev[a]
           M == ll_move_after(L, b, z)
           t == Swapped(s, j)
<1>1. /\ n \in Nat /\ j \in 1..n /\ j - 1 \in 1..n /\ j - 1 # j /\ s \in [1..n -> Timers]
      /\ \A i, k \in 1..n : s[i] = s[k] => i = k
      /\ L.count = n /\ L.first = s[1] /\ j # 1
  BY DEF Chain
<1>2. /\ t \in [1..n -> Timers] /\ t[j - 1] = b /\ t[j] = a
      /\ \A k \in 1..n : k # j - 1 /\ k # j => t[k] = s[k]
  BY <1>1 DEF Swapped
<1>3. /\ a \in Timers /\ b \in Timers /\ a # b
      /\ \/ j = n /\ c = NULL
         \/ j < n /\ c = s[j + 1] /\ c \in Timers /\ c # a /\ c # b
      /\ \/ j = 2 /\ z = NULL /\ L.first = a
         \/ j > 2 /\ z = s[j - 2] /\ z \in Timers /\ z # a /\ z # b /\ z # c
  BY Neighbours
<1>4. /\ M \in Links /\ M.count = L.count /\ M.first = IF z = NULL THEN b ELSE L.first
      /\ \A x \in Timers :
           /\ M.next[x] = IF x = a THEN c ELSE IF x = b THEN a ELSE IF x = z THEN b
                          ELSE L.next[x]
           /\ M.prev[x] = IF x = a THEN b ELSE IF x = b THEN z ELSE IF x = c THEN a
                          ELSE L.prev[x]
  BY MovedPointers
<1>5. \A k \in 1..n : /\ L.prev[s[k]] = IF k = 1 THEN NULL ELSE s[k - 1]
                      /\ L.next[s[k]] = IF k = n THEN NULL ELSE s[k + 1]
  BY DEF Chain
<1> HIDE DEF M, t, c, z
<1>6. \A i, k \in 1..n : t[i] = t[k] => i = k
  BY <1>1, <1>2
<1>7. M.first = t[1]
  <2>1. CASE j = 2
    BY <1>1, <1>2, <1>3, <1>4, <2>1
  <2>2. CASE j > 2
    <3>1. 1 \in 1..n /\ 1 # j - 1 /\ 1 # j
      BY <1>1, <2>2
    <3> QED BY <1>1, <1>2, <1>3, <1>4, <2>2, <3>1, TimerConstants
  <2> QED BY <1>1, <2>1, <2>2
<1>8. ASSUME NEW k \in 1..n
      PROVE  /\ M.prev[t[k]] = IF k = 1 THEN NULL ELSE t[k - 1]
             /\ M.next[t[k]] = IF k = n THEN NULL ELSE t[k + 1]
  <2>1. CASE k = j - 1
    <3>1. M.next[t[k]] = a /\ k # n /\ k + 1 = j
      BY <1>1, <1>2, <1>3, <1>4, <2>1
    <3>2. M.prev[t[k]] = z
      BY <1>1, <1>2, <1>3, <1>4, <2>1
    <3>3. CASE j = 2
      BY <1>1, <1>2, <1>3, <2>1, <3>1, <3>2, <3>3
    <3>4. CASE j > 2
      <4>1. k # 1 /\ k - 1 = j - 2 /\ k - 1 \in 1..n /\ k - 1 # j - 1 /\ k - 1 # j /\ j # 2
        BY <1>1, <2>1, <3>4
      <4> QED BY <1>2, <1>3, <3>1, <3>2, <4>1
    <3> QED BY <1>1, <3>3, <3>4
  <2>2. CASE k = j
    <3>1. M.prev[t[k]] = b /\ k # 1 /\ k - 1 = j - 1
      BY <1>1, <1>2, <1>3, <1>4, <2>2
    <3>2. M.next[t[k]] = c
      BY <1>1, <1>2, <1>3, <1>4, <2>2
    <3>3. CASE j < n
      <4>1. k + 1 \in 1..n /\ k + 1 # j - 1 /\ k + 1 # j /\ k # n
        BY <1>1, <2>2, <3>3
      <4> QED BY <1>2, <1>3, <2>2, <3>1, <3>2, <3>3, <4>1
    <3> QED BY <1>2, <1>3, <2>2, <3>1, <3>2, <3>3
  <2>3. CASE k = j + 1
    <3>1. t[k] = s[k] /\ k # 1 /\ k - 1 = j /\ j < n
      BY <1>1, <1>2, <2>3
    <3>2. s[k] = c /\ c # a /\ c # b /\ c \in Timers /\ c # z
      BY <1>1, <1>3, <2>3, <3>1, TimerConstants
    <3>3. M.prev[t[k]] = a /\ M.next[t[k]] = L.next[s[k]]
      BY <1>4, <3>1, <3>2
    <3>4. k # n => k + 1 \in 1..n /\ k + 1 # j - 1 /\ k + 1 # j
      BY <1>1, <2>3
    <3> QED BY <1>2, <1>5, <3>1, <3>3, <3>4
  <2>4. CASE k = j - 2
    <3>1. t[k] = s[k] /\ k # n /\ k + 1 = j - 1 /\ j > 2 /\ j # 2
      BY <1>1, <1>2, <2>4
    <3>2. s[k] = z /\ z # a /\ z # b /\ z \in Timers /\ c # z
      BY <1>3, <2>4, <3>1
    <3>3. M.next[t[k]] = b /\ M.prev[t[k]] = L.prev[s[k]]
      BY <1>4, <3>1, <3>2
    <3>4. k # 1 => k - 1 \in 1..n /\ k - 1 # j - 1 /\ k - 1 # j
      BY <1>1, <2>4
    <3> QED BY <1>2, <1>5, <3>1, <3>3, <3>4
  <2>5. CASE k \notin {j - 2, j - 1, j, j + 1}
    <3>1. t[k] = s[k] /\ s[k] \in Timers /\ s[k] # a /\ s[k] # b
      BY <1>1, <1>2, <2>5
    <3>2. s[k] # c
      <4>1. j < n => j + 1 \in 1..n
        BY <1>1
      <4> QED BY <1>1, <1>3, <2>5, <3>1, <4>1, TimerConstants
    <3>3. s[k] # z
      <4>1. j > 2 => j - 2 \in 1..n
        BY <1>1
      <4> QED BY <1>1, <1>3, <2>5, <3>1, <4>1, TimerConstants
    <3>4. M.next[t[k]] = L.next[s[k]] /\ M.prev[t[k]] = L.prev[s[k]]
      BY <1>4, <3>1, <3>2, <3>3
    <3>5. k # 1 => k - 1 \in 1..n /\ k - 1 # j - 1 /\ k - 1 # j
      BY <1>1, <2>5
    <3>6. k # n => k + 1 \in 1..n /\ k + 1 # j - 1 /\ k + 1 # j
      BY <1>1, <2>5
    <3> QED BY <1>2, <1>5, <3>4, <3>5, <3>6
  <2> QED BY <2>1, <2>2, <2>3, <2>4, <2>5
<1>9. n # 0
  BY <1>1
<1> QED BY <1>1, <1>2, <1>4, <1>6, <1>7, <1>8, <1>9 DEF Chain, M, t, z

-----------------------------------------------------------------------------
(* Sorting.                                                                *)

Among(s, n) == {s[k] : k \in 1..n}

\* From the place lo on, whoever stands there comes after all before it.
Ordered(s, n, key, lo) == \A i, j \in 1..n : i < j /\ lo <= j => key[s[i]] <= key[s[j]]

\* Nobody before place k + 1 has a greater key than who stands there.
Topped(s, n, key, k) == k + 1 <= n => \A i \in 1..n : i <= k + 1 => key[s[i]] <= key[s[k + 1]]

\* The places j - 1 and j after they were compared.
Compared(s, j, key) == IF key[s[j]] < key[s[j - 1]] THEN Swapped(s, j) ELSE s

LEMMA SwappedAmong ==
  ASSUME NEW n \in Nat, NEW s \in [1..n -> Timers], NEW j \in 2..n
  PROVE  Among(Swapped(s, j), n) = Among(s, n)
<1>1. j \in 1..n /\ j - 1 \in 1..n /\ j - 1 # j
  OBVIOUS
<1> DEFINE t == Swapped(s, j)
<1>2. t[j - 1] = s[j] /\ t[j] = s[j - 1] /\ \A k \in 1..n : k # j - 1 /\ k # j => t[k] = s[k]
  BY <1>1 DEF Swapped
<1> HIDE DEF t
<1>3. \A k \in 1..n : (\E i \in 1..n : t[k] = s[i]) /\ (\E i \in 1..n : s[k] = t[i])
  BY <1>1, <1>2
<1>4. Among(t, n) = Among(s, n)
  <2>1. \A x : x \in Among(t, n) <=> \E k \in 1..n : x = t[k]
    BY DEF Among
  <2>2. \A x : x \in Among(s, n) <=> \E k \in 1..n : x = s[k]
    BY DEF Among
  <2> QED BY <1>3, <2>1, <2>2
<1> QED BY <1>4 DEF t

\* A comparison leaves what was in order, and brings the greatest so far one place on.
LEMMA Bubbled ==
  ASSUME NEW n \in Nat, NEW t \in [1..n -> Timers], NEW key \in [Timers -> Int],
         NEW lo \in 2..(n + 1), NEW k \in 0..(n - 2), Ordered(t, n, key, lo),
         Topped(t, n, key, k), lo - 1 <= k + 1 => Ordered(t, n, key, lo - 1)
  PROVE  LET u == Compared(t, k + 2, key)
         IN /\ Ordered(u, n, key, lo) /\ Topped(u, n, key, k + 1)
            /\ lo - 1 <= k + 2 => Ordered(u, n, key, lo - 1)
<1> DEFINE v == [i \in 1..n |-> key[t[i]]]
           u == Compared(t, k + 2, key)
           w == [i \in 1..n |-> key[u[i]]]
<1>1. k + 1 \in 1..n /\ k + 2 \in 1..n /\ (k + 2) - 1 = k + 1 /\ k + 1 < k + 2 /\ (k + 1) + 1 = k + 2
  OBVIOUS
<1>2. v \in [1..n -> Int]
  OBVIOUS
<1>3. /\ \A i, j \in 1..n : i < j /\ lo <= j => v[i] <= v[j]
      /\ \A i \in 1..n : i <= k + 1 => v[i] <= v[k + 1]
      /\ lo - 1 <= k + 1 => \A i, j \in 1..n : i < j /\ lo - 1 <= j => v[i] <= v[j]
  BY <1>1 DEF Ordered, Topped
<1>4. CASE key[t[k + 2]] < key[t[k + 1]]
  <2>1. u = Swapped(t, k + 2)
    BY <1>1, <1>4 DEF Compared
  <2>2. /\ u[k + 1] = t[k + 2] /\ u[k + 2] = t[k + 1]
        /\ \A i \in 1..n : i # k + 1 /\ i # k + 2 => u[i] = t[i]
    BY <1>1, <2>1 DEF Swapped
  <2> HIDE DEF u
  <2>3. /\ w[k + 1] = v[k + 2] /\ w[k + 2] = v[k + 1]
        /\ \A i \in 1..n : i # k + 1 /\ i # k + 2 => w[i] = v[i]
    BY <1>1, <2>2
  <2>4. v[k + 2] < v[k + 1]
    BY <1>1, <1>4
  <2>5. /\ Ordered(u, n, key, lo) <=> \A i, j \in 1..n : i < j /\ lo <= j => w[i] <= w[j]
        /\ Ordered(u, n, key, lo - 1) <=> \A i, j \in 1..n : i < j /\ lo - 1 <= j => w[i] <= w[j]
        /\ Topped(u, n, key, k + 1) <=> \A i \in 1..n : i <= k + 2 => w[i] <= w[k + 2]
    BY <1>1 DEF Ordered, Topped
  <2> HIDE DEF v, w
  <2>6. k + 2 < lo
    BY <1>1, <1>2, <1>3, <2>4
  <2>7. \A i, j \in 1..n : i < j /\ lo <= j => w[i] <= w[j]
    <3> TAKE i, j \in 1..n
    <3> HAVE i < j /\ lo <= j
    <3>1. w[j] = v[j]
      BY <2>3, <2>6
    <3>2. v[i] <= v[j] /\ v[k + 1] <= v[j] /\ v[k + 2] <= v[j]
      BY <1>1, <1>3, <2>6
    <3>3. w[i] \in {v[i], v[k + 1], v[k + 2]}
      BY <2>3
    <3> QED BY <3>1, <3>2, <3>3
  <2>8. \A i \in 1..n : i <= k + 2 => w[i] <= w[k + 2]
    <3> TAKE i \in 1..n
    <3> HAVE i <= k + 2
    <3>1. v[k + 1] \in Int /\ v[k + 2] \in Int
      BY <1>1, <1>2
    <3>2. CASE i = k + 2
      BY <2>3, <3>1, <3>2
    <3>3. CASE i = k + 1
      BY <2>3, <2>4, <3>1, <3>3
    <3>4. CASE i < k + 1
      BY <1>1, <1>3, <2>3, <3>4
    <3> QED BY <3>2, <3>3, <3>4
  <2>9. lo - 1 <= k + 2 => \A i, j \in 1..n : i < j /\ lo - 1 <= j => w[i] <= w[j]
    <3> SUFFICES ASSUME lo - 1 <= k + 2, NEW i \in 1..n, NEW j \in 1..n, i < j, lo - 1 <= j
                 PROVE  w[i] <= w[j]
      OBVIOUS
    <3>1. CASE lo <= j
      BY <2>7, <3>1
    <3>2. CASE ~(lo <= j)
      <4>1. j = k + 2 /\ i <= k + 2
        BY <2>6, <3>2
      <4> QED BY <2>8, <4>1
    <3> QED BY <3>1, <3>2
  <2>10. Ordered(u, n, key, lo) /\ Topped(u, n, key, k + 1)
         /\ (lo - 1 <= k + 2 => Ordered(u, n, key, lo - 1))
    BY <2>5, <2>7, <2>8, <2>9
  <2> QED BY <2>10 DEF u
<1>5. CASE ~(key[t[k + 2]] < key[t[k + 1]])
  <2>1. u = t
    BY <1>1, <1>5 DEF Compared
  <2> HIDE DEF u
  <2>2. v[k + 1] <= v[k + 2] /\ v[k + 1] \in Int /\ v[k + 2] \in Int
    <3>1. key[t[k + 2]] \in Int /\ key[t[k + 1]] \in Int
      BY <1>1
    <3> QED BY <1>1, <1>5, <3>1
  <2>3. /\ Ordered(t, n, key, lo - 1) <=> \A i, j \in 1..n : i < j /\ lo - 1 <= j => v[i] <= v[j]
        /\ Topped(t, n, key, k + 1) <=> \A i \in 1..n : i <= k + 2 => v[i] <= v[k + 2]
    BY <1>1 DEF Ordered, Topped
  <2> HIDE DEF v, w
  <2>4. \A i \in 1..n : i <= k + 2 => v[i] <= v[k + 2]
    <3> TAKE i \in 1..n
    <3> HAVE i <= k + 2
    <3>1. CASE i = k + 2
      BY <2>2, <3>1
    <3>2. CASE i <= k + 1
      <4>1. v[i] <= v[k + 1] /\ v[i] \in Int
        BY <1>2, <1>3, <3>2
      <4> QED BY <2>2, <4>1
    <3> QED BY <3>1, <3>2
  <2>5. lo - 1 <= k + 2 => \A i, j \in 1..n : i < j /\ lo - 1 <= j => v[i] <= v[j]
    <3> SUFFICES ASSUME lo - 1 <= k + 2, NEW i \in 1..n, NEW j \in 1..n, i < j, lo - 1 <= j
                 PROVE  v[i] <= v[j]
      OBVIOUS
    <3>1. CASE lo <= j
      BY <1>3, <3>1
    <3>2. CASE lo - 1 <= k + 1
      BY <1>3, <3>2
    <3>3. CASE ~(lo <= j) /\ ~(lo - 1 <= k + 1)
      <4>1. j = k + 2 /\ i <= k + 2
        BY <3>3
      <4> QED BY <2>4, <4>1
    <3> QED BY <3>1, <3>2, <3>3
  <2>6. Ordered(t, n, key, lo) /\ Topped(t, n, key, k + 1)
        /\ (lo - 1 <= k + 2 => Ordered(t, n, key, lo - 1))
    BY <2>3, <2>4, <2>5
  <2> QED BY <2>1, <2>6 DEF u
<1> QED BY <1>4, <1>5

\* One round of a pass, from w, the list and the node whose turn it is.
Stepped(w, key) ==
  LET p == w.list.prev[w.ptr]
  IN IF w.ptr = NULL THEN w
     ELSE [list |-> IF key[w.ptr] < key[p] THEN ll_move_after(w.list, w.ptr, w.list.prev[p])
                                           ELSE w.list,
           ptr  |-> w.list.next[w.ptr]]

Walks == [list : Links, ptr : Timers \cup {NULL}]

LEMMA Stepping ==
  ASSUME NEW L, NEW s, NEW n, Chain(L, s, n), NEW key \in [Timers -> Int],
         NEW j \in 2..n, NEW w, w.list = L, w.ptr = s[j]
  PROVE  LET v == Stepped(w, key)
             t == Compared(s, j, key)
         IN /\ v \in Walks /\ Chain(v.list, t, n)
            /\ v.ptr = IF j = n THEN NULL ELSE t[j + 1]
            /\ Among(t, n) = Among(s, n)
            /\ ~(key[s[j]] < key[s[j - 1]]) => v.list = L /\ t = s
<1> DEFINE v == Stepped(w, key)
           t == Compared(s, j, key)
<1>1. /\ n \in Nat /\ s \in [1..n -> Timers] /\ j \in 1..n /\ j - 1 \in 1..n /\ j # 1
      /\ L.prev[s[j]] = s[j - 1] /\ L.next[s[j]] = IF j = n THEN NULL ELSE s[j + 1]
      /\ s[j] \in Timers /\ L \in Links
  BY DEF Chain
<1>2. v = [list |-> IF key[s[j]] < key[s[j - 1]] THEN ll_move_after(L, s[j], L.prev[s[j - 1]])
                                                 ELSE L,
           ptr  |-> L.next[s[j]]]
  BY <1>1, TimerConstants DEF Stepped
<1>3. v.list = IF key[s[j]] < key[s[j - 1]] THEN ll_move_after(L, s[j], L.prev[s[j - 1]]) ELSE L
  BY <1>2
<1>4. Chain(v.list, t, n)
  BY <1>3, MovedUp DEF Compared
<1>5. j # n => t[j + 1] = s[j + 1]
  BY <1>1 DEF Compared, Swapped
<1>6. v.ptr = IF j = n THEN NULL ELSE t[j + 1]
  BY <1>1, <1>2, <1>5
<1>7. v \in Walks
  <2>1. v.list \in Links
    BY <1>4 DEF Chain
  <2>2. v.ptr \in Timers \cup {NULL}
    BY <1>1, <1>2 DEF Links
  <2>3. v = [list |-> v.list, ptr |-> v.ptr]
    BY <1>2
  <2> HIDE DEF v
  <2> QED BY <2>1, <2>2, <2>3 DEF Walks
<1>8. Among(t, n) = Among(s, n)
  BY <1>1, SwappedAmong DEF Compared
<1>9. ~(key[s[j]] < key[s[j - 1]]) => v.list = L /\ t = s
  BY <1>3 DEF Compared
<1> QED BY <1>4, <1>6, <1>7, <1>8, <1>9

\* A pass over a list that is in order from lo on leaves it in order from lo - 1 on,
\* and a list in order as it is.
LEMMA PassFacts ==
  ASSUME NEW L, NEW s, NEW n, Chain(L, s, n), n > 0, NEW key \in [Timers -> Int],
         NEW lo \in 2..(n + 1), Ordered(s, n, key, lo)
  PROVE  /\ \E t : /\ Chain(SortPass(L, key), t, n) /\ Among(t, n) = Among(s, n)
                   /\ Ordered(t, n, key, lo - 1)
         /\ Ordered(s, n, key, 1) => SortPass(L, key) = L
<1> DEFINE w0 == [list |-> L, ptr |-> L.next[L.first]]
           V == {w \in Walks : \E t : /\ Chain(w.list, t, n)
                                      /\ w.ptr = NULL \/ \E j \in 2..n : w.ptr = t[j]}
           next == [k \in 0..n |-> [w \in V |-> Stepped(w, key)]]
           walk[k \in 0..L.count] ==
             IF k = 0 THEN [list |-> L, ptr |-> L.next[L.first]]
             ELSE LET w == walk[k - 1]
                      p == w.list.prev[w.ptr]
                  IN IF w.ptr = NULL THEN w
                     ELSE [list |-> IF key[w.ptr] < key[p]
                                    THEN ll_move_after(w.list, w.ptr, w.list.prev[p])
                                    ELSE w.list,
                           ptr  |-> w.list.next[w.ptr]]
<1>1. /\ n \in Nat /\ n \in Int /\ 0 \in Int /\ 0 <= n /\ L.count = n /\ s \in [1..n -> Timers]
      /\ L \in Links /\ L.first = s[1] /\ L.next[s[1]] = IF n = 1 THEN NULL ELSE s[2]
  BY DEF Chain
<1>2. /\ w0 \in Walks /\ w0.list = L /\ w0.ptr = IF 2 <= n THEN s[2] ELSE NULL
  <2>1. w0.list = L /\ w0.ptr = IF 2 <= n THEN s[2] ELSE NULL
    BY <1>1
  <2>2. w0.ptr \in Timers \cup {NULL}
    BY <1>1, <2>1
  <2> QED BY <1>1, <2>1, <2>2 DEF Walks
<1>3. w0 \in V
  BY <1>1, <1>2
<1>4. ASSUME NEW w \in V PROVE Stepped(w, key) \in V
  <2>1. w \in Walks
    OBVIOUS
  <2>2. PICK t : Chain(w.list, t, n) /\ (w.ptr = NULL \/ \E j \in 2..n : w.ptr = t[j])
    OBVIOUS
  <2>3. CASE w.ptr = NULL
    BY <2>3 DEF Stepped
  <2>4. CASE w.ptr # NULL
    <3>1. PICK j \in 2..n : w.ptr = t[j]
      BY <2>2, <2>4
    <3> DEFINE v == Stepped(w, key)
               u == Compared(t, j, key)
    <3>2. /\ v \in Walks /\ Chain(v.list, u, n)
          /\ v.ptr = IF j = n THEN NULL ELSE u[j + 1]
      BY <2>2, <3>1, Stepping
    <3> HIDE DEF v, u
    <3>3. v.ptr = NULL \/ \E i \in 2..n : v.ptr = u[i]
      <4>1. CASE j = n
        BY <3>2, <4>1
      <4>2. CASE j # n
        <5>1. j + 1 \in 2..n
          BY <1>1, <4>2
        <5> QED BY <3>2, <4>2, <5>1
      <4> QED BY <4>1, <4>2
    <3>4. v \in V
      BY <3>2, <3>3
    <3> QED BY <3>4 DEF v
  <2> QED BY <2>3, <2>4
<1>5. ASSUME NEW w \in V PROVE w.ptr \in Timers \cup {NULL}
  BY DEF Walks
<1> HIDE DEF V
<1>6. next \in [0..n -> [V -> V]]
  BY <1>4
<1>7. \A k \in 0..n, w \in V : next[k][w] = Stepped(w, key)
  OBVIOUS
<1> HIDE DEF next
<1>8. PICK f : Follows(f, 0, n, V, w0, next)
  BY <1>1, <1>3, <1>6, RecursiveFunction
<1>9. f \in [0..n -> V] /\ f[0] = w0
  BY <1>1, <1>8 DEF Follows
<1>10. \A k \in 1..n : f[k] = next[k][f[k - 1]]
  BY <1>8 DEF Follows
<1>11. \A k \in 0..n : k # 0 => f[k] = Stepped(f[k - 1], key)
  <2> TAKE k \in 0..n
  <2> HAVE k # 0
  <2>1. k \in 1..n /\ k - 1 \in 0..n
    BY <1>1
  <2> QED BY <1>7, <1>9, <1>10, <2>1
<1> HIDE DEF w0
<1>12. f = [k \in 0..L.count |->
              IF k = 0 THEN [list |-> L, ptr |-> L.next[L.first]]
              ELSE LET w == f[k - 1]
                       p == w.list.prev[w.ptr]
                   IN IF w.ptr = NULL THEN w
                      ELSE [list |-> IF key[w.ptr] < key[p]
                                     THEN ll_move_after(w.list, w.ptr, w.list.prev[p])
                                     ELSE w.list,
                            ptr  |-> w.list.next[w.ptr]]]
  <2>1. f = [k \in 0..L.count |-> IF k = 0 THEN w0 ELSE Stepped(f[k - 1], key)]
    BY <1>1, <1>9, <1>11
  <2> QED BY <2>1 DEF Stepped, w0
<1>13. walk = [k \in 0..L.count |->
              IF k = 0 THEN [list |-> L, ptr |-> L.next[L.first]]
              ELSE LET w == walk[k - 1]
                       p == w.list.prev[w.ptr]
                   IN IF w.ptr = NULL THEN w
                      ELSE [list |-> IF key[w.ptr] < key[p]
                                     THEN ll_move_after(w.list, w.ptr, w.list.prev[p])
                                     ELSE w.list,
                            ptr  |-> w.list.next[w.ptr]]]
  BY <1>12, Zenon
<1>14. SortPass(L, key) = walk[L.count].list
  BY DEF SortPass
<1> HIDE DEF walk
<1>15. walk = [k \in 0..n |-> IF k = 0 THEN w0 ELSE Stepped(walk[k - 1], key)]
  BY <1>1, <1>13 DEF Stepped, w0
<1>16. walk[0] = w0 /\ \A k \in 0..n : k # 0 => walk[k] = Stepped(walk[k - 1], key)
  BY <1>1, <1>15
<1> DEFINE At(k) == \E t : /\ Chain(walk[k].list, t, n) /\ Among(t, n) = Among(s, n)
                           /\ Ordered(t, n, key, lo) /\ Topped(t, n, key, k)
                           /\ lo - 1 <= k + 1 => Ordered(t, n, key, lo - 1)
                           /\ walk[k].ptr = IF k + 2 <= n THEN t[k + 2] ELSE NULL
                           /\ Ordered(s, n, key, 1) => walk[k].list = L /\ t = s
           S == {k \in 0..n : At(k)}
<1>17. 0 \in S
  <2>1. Topped(s, n, key, 0)
    <3>1. key[s[1]] \in Int
      BY <1>1
    <3>2. \A i \in 1..n : i <= 1 => i = 1
      OBVIOUS
    <3> QED BY <3>1, <3>2 DEF Topped
  <2>2. lo - 1 <= 1 => Ordered(s, n, key, lo - 1)
    <3> SUFFICES ASSUME lo = 2 PROVE Ordered(s, n, key, 1)
      OBVIOUS
    <3>1. \A i, j \in 1..n : i < j => 2 <= j
      OBVIOUS
    <3> QED BY <3>1 DEF Ordered
  <2>3. At(0)
    BY <1>1, <1>2, <1>16, <2>1, <2>2
  <2> QED BY <1>1, <2>3
<1>18. ASSUME NEW k \in 0..(n - 1), k \in S PROVE k + 1 \in S
  <2>1. k + 1 \in 0..n /\ k + 1 # 0 /\ (k + 1) - 1 = k /\ (k + 1) + 1 = k + 2 /\ (k + 1) + 2 = k + 3
    BY <1>1
  <2>2. walk[k + 1] = Stepped(walk[k], key)
    BY <1>16, <2>1
  <2>3. PICK t : /\ Chain(walk[k].list, t, n) /\ Among(t, n) = Among(s, n)
                 /\ Ordered(t, n, key, lo) /\ Topped(t, n, key, k)
                 /\ lo - 1 <= k + 1 => Ordered(t, n, key, lo - 1)
                 /\ walk[k].ptr = IF k + 2 <= n THEN t[k + 2] ELSE NULL
                 /\ Ordered(s, n, key, 1) => walk[k].list = L /\ t = s
    BY <1>18
  <2> HIDE DEF S
  <2>4. CASE k + 2 <= n
    <3> DEFINE u == Compared(t, k + 2, key)
    <3>1. k + 2 \in 2..n /\ walk[k].ptr = t[k + 2] /\ k \in 0..(n - 2) /\ (k + 2) + 1 = k + 3
          /\ (k + 2) - 1 = k + 1 /\ k + 1 \in 1..n
      BY <1>1, <2>1, <2>3, <2>4
    <3>2. /\ Chain(walk[k + 1].list, u, n)
          /\ walk[k + 1].ptr = IF k + 2 = n THEN NULL ELSE u[k + 3]
          /\ Among(u, n) = Among(t, n)
          /\ ~(key[t[k + 2]] < key[t[k + 1]]) => walk[k + 1].list = walk[k].list /\ u = t
      BY <2>2, <2>3, <3>1, Stepping
    <3>3. t \in [1..n -> Timers]
      BY <2>3 DEF Chain
    <3>4. /\ Ordered(u, n, key, lo) /\ Topped(u, n, key, k + 1)
          /\ lo - 1 <= k + 2 => Ordered(u, n, key, lo - 1)
      BY <1>1, <2>3, <3>1, <3>3, Bubbled
    <3>5. ASSUME Ordered(s, n, key, 1) PROVE walk[k + 1].list = L /\ u = s
      <4>1. t = s /\ walk[k].list = L
        BY <2>3, <3>5
      <4>2. key[s[k + 1]] <= key[s[k + 2]]
        BY <3>1, <3>5 DEF Ordered
      <4>3. key[s[k + 1]] \in Int /\ key[s[k + 2]] \in Int
        BY <1>1, <3>1
      <4>4. ~(key[t[k + 2]] < key[t[k + 1]])
        BY <4>1, <4>2, <4>3
      <4> QED BY <3>2, <4>1, <4>4
    <3>6. walk[k + 1].ptr = IF (k + 1) + 2 <= n THEN u[(k + 1) + 2] ELSE NULL
      BY <1>1, <2>1, <2>4, <3>2
    <3> HIDE DEF u
    <3>7. At(k + 1)
      BY <2>1, <2>3, <3>2, <3>4, <3>5, <3>6
    <3> QED BY <2>1, <3>7 DEF S
  <2>5. CASE ~(k + 2 <= n)
    <3>1. walk[k].ptr = NULL /\ walk[k + 1] = walk[k]
      BY <2>2, <2>3, <2>5 DEF Stepped
    <3>2. Topped(t, n, key, k + 1) /\ ~((k + 1) + 2 <= n) /\ lo - 1 <= k + 1
      BY <1>1, <2>5 DEF Topped
    <3>3. At(k + 1)
      BY <2>3, <3>1, <3>2
    <3> QED BY <2>1, <3>3 DEF S
  <2> QED BY <2>4, <2>5
<1> HIDE DEF S
<1>19. 0..n \subseteq S
  BY <1>1, <1>17, <1>18, AllOfInterval
<1>20. n \in S /\ lo - 1 <= n + 1
  BY <1>1, <1>19
<1>21. At(n)
  BY <1>20 DEF S
<1> QED BY <1>1, <1>14, <1>20, <1>21

LEMMA Sorts ==
  ASSUME NEW L, NEW s, NEW n, Chain(L, s, n), NEW key \in [Timers -> Int]
  PROVE  /\ \E t : /\ Chain(ll_sort(L, key), t, n) /\ Among(t, n) = Among(s, n)
                   /\ Ordered(t, n, key, 1)
         /\ Ordered(s, n, key, 1) => ll_sort(L, key) = L
<1> DEFINE V == {M \in Links : \E t : Chain(M, t, n)}
           next == [k \in 0..n |-> [M \in V |-> IF k = 0 THEN M ELSE SortPass(M, key)]]
           passed[k \in 0..L.count] == IF k = 0 THEN L ELSE SortPass(passed[k - 1], key)
<1>1. n \in Nat /\ n \in Int /\ 0 \in Int /\ 0 <= n /\ L.count = n /\ L \in Links
  BY DEF Chain
<1>2. L \in V
  BY <1>1
<1>3. ASSUME NEW t PROVE Ordered(t, n, key, n + 1)
  <2>1. \A i, j \in 1..n : ~(n + 1 <= j)
    BY <1>1
  <2> QED BY <2>1 DEF Ordered
<1>4. ASSUME NEW M \in V, n > 0 PROVE SortPass(M, key) \in V
  <2>1. PICK t : Chain(M, t, n)
    OBVIOUS
  <2>2. PICK u : Chain(SortPass(M, key), u, n)
    <3>1. n + 1 \in 2..(n + 1)
      BY <1>1, <1>4
    <3> QED BY <1>3, <1>4, <2>1, <3>1, PassFacts
  <2> QED BY <2>2 DEF Chain
<1>5. ASSUME Ordered(s, n, key, 1), n > 0 PROVE SortPass(L, key) = L
  <2>1. n + 1 \in 2..(n + 1)
    BY <1>1, <1>5
  <2> QED BY <1>3, <1>5, <2>1, PassFacts
<1> HIDE DEF V
<1>6. next \in [0..n -> [V -> V]]
  BY <1>1, <1>4
<1>7. \A k \in 0..n, M \in V : k # 0 => next[k][M] = SortPass(M, key)
  OBVIOUS
<1> HIDE DEF next
<1>8. PICK f : Follows(f, 0, n, V, L, next)
  BY <1>1, <1>2, <1>6, RecursiveFunction
<1>9. f \in [0..n -> V] /\ f[0] = L
  BY <1>1, <1>8 DEF Follows
<1>10. \A k \in 1..n : f[k] = next[k][f[k - 1]]
  BY <1>8 DEF Follows
<1>11. \A k \in 0..n : k # 0 => f[k] = SortPass(f[k - 1], key)
  <2> TAKE k \in 0..n
  <2> HAVE k # 0
  <2>1. k \in 1..n /\ k - 1 \in 0..n
    BY <1>1
  <2> QED BY <1>7, <1>9, <1>10, <2>1
<1>12. f = [k \in 0..L.count |-> IF k = 0 THEN L ELSE SortPass(f[k - 1], key)]
  BY <1>1, <1>9, <1>11
<1>13. passed = [k \in 0..L.count |-> IF k = 0 THEN L ELSE SortPass(passed[k - 1], key)]
  BY <1>12, Zenon
<1>14. ll_sort(L, key) = passed[L.count]
  BY DEF ll_sort
<1> HIDE DEF passed
<1>15. passed[0] = L /\ \A k \in 0..n : k # 0 => passed[k] = SortPass(passed[k - 1], key)
  BY <1>1, <1>13
<1> DEFINE At(k) == /\ \E t : /\ Chain(passed[k], t, n) /\ Among(t, n) = Among(s, n)
                              /\ Ordered(t, n, key, (n + 1) - k)
                    /\ Ordered(s, n, key, 1) => passed[k] = L
           S == {k \in 0..n : At(k)}
<1>16. 0 \in S
  <2>1. (n + 1) - 0 = n + 1
    BY <1>1
  <2>2. At(0)
    BY <1>3, <1>15, <2>1
  <2> QED BY <1>1, <2>2
<1>17. ASSUME NEW k \in 0..(n - 1), k \in S PROVE k + 1 \in S
  <2>1. /\ k + 1 \in 0..n /\ k + 1 # 0 /\ (k + 1) - 1 = k /\ n > 0
        /\ (n + 1) - k \in 2..(n + 1) /\ ((n + 1) - k) - 1 = (n + 1) - (k + 1)
    BY <1>1
  <2>2. passed[k + 1] = SortPass(passed[k], key)
    BY <1>15, <2>1
  <2>3. At(k)
    BY <1>17
  <2>4. PICK t : /\ Chain(passed[k], t, n) /\ Among(t, n) = Among(s, n)
                 /\ Ordered(t, n, key, (n + 1) - k)
    BY <2>3
  <2>5. PICK u : /\ Chain(SortPass(passed[k], key), u, n) /\ Among(u, n) = Among(t, n)
                 /\ Ordered(u, n, key, ((n + 1) - k) - 1)
    BY <2>1, <2>4, PassFacts
  <2>6. Ordered(s, n, key, 1) => passed[k + 1] = L
    BY <1>5, <2>1, <2>2, <2>3
  <2>7. At(k + 1)
    BY <2>1, <2>2, <2>4, <2>5, <2>6
  <2> HIDE DEF At
  <2> QED BY <2>1, <2>7
<1> HIDE DEF S
<1>18. 0..n \subseteq S
  BY <1>1, <1>16, <1>17, AllOfInterval
<1>19. At(n)
  <2>1. n \in S
    BY <1>1, <1>18
  <2> QED BY <2>1 DEF S
<1>20. (n + 1) - n = 1
  BY <1>1
<1> QED BY <1>1, <1>14, <1>19, <1>20

-----------------------------------------------------------------------------
(* Adding to a list and deleting from it.                                  *)

Appended(s, n, x) == [k \in 1..(n + 1) |-> IF k = n + 1 THEN x ELSE s[k]]

\* A node is linked behind the one ll_last points to: that one has to be the last.
LEMMA Added ==
  ASSUME NEW L, NEW s, NEW n, Chain(L, s, n), NEW x \in Timers, x \notin Among(s, n),
         n > 0 => L.last = s[n]
  PROVE  LET M == ll_add(L, x)
             t == Appended(s, n, x)
         IN Chain(M, t, n + 1) /\ M.last = x /\ Among(t, n + 1) = Among(s, n) \cup {x}
<1> DEFINE M == ll_add(L, x)
           t == Appended(s, n, x)
           p == IF n = 0 THEN NULL ELSE s[n]
           N == IF n = 0 THEN [L.next EXCEPT ![x] = NULL]
                         ELSE [[L.next EXCEPT ![x] = NULL] EXCEPT ![s[n]] = x]
           P == [L.prev EXCEPT ![x] = p]
<1>1. /\ n \in Nat /\ s \in [1..n -> Timers] /\ L \in Links /\ L.count = n
      /\ \A i, k \in 1..n : s[i] = s[k] => i = k
      /\ L.first = IF n = 0 THEN NULL ELSE s[1]
      /\ \A k \in 1..n : /\ L.prev[s[k]] = IF k = 1 THEN NULL ELSE s[k - 1]
                         /\ L.next[s[k]] = IF k = n THEN NULL ELSE s[k + 1]
  BY DEF Chain
<1>2. /\ L.next \in [Timers -> Timers \cup {NULL}] /\ L.prev \in [Timers -> Timers \cup {NULL}]
      /\ L.first \in Timers \cup {NULL} /\ L.last \in Timers \cup {NULL}
      /\ L = [next |-> L.next, prev |-> L.prev, first |-> L.first, last |-> L.last,
              count |-> L.count]
  BY <1>1 DEF Links
<1>3. \A k \in 1..n : s[k] # x /\ s[k] \in Timers /\ s[k] # NULL
  BY <1>1, TimerConstants DEF Among
<1>4. L.first = NULL <=> n = 0
  BY <1>1, <1>3
<1>5. M = [next |-> N, prev |-> P, first |-> IF n = 0 THEN x ELSE L.first, last |-> x,
           count |-> n + 1]
  <2> DEFINE A == [L EXCEPT !.next[x] = NULL, !.prev[x] = IF L.first = NULL THEN NULL ELSE L.last,
                            !.last = x, !.count = @ + 1]
  <2>1. A = [next |-> [L.next EXCEPT ![x] = NULL], prev |-> P, first |-> L.first, last |-> x,
             count |-> n + 1]
    <3>1. (IF L.first = NULL THEN NULL ELSE L.last) = p
      BY <1>1, <1>4
    <3> HIDE DEF p
    <3>2. A = [L EXCEPT !.next = [L.next EXCEPT ![x] = NULL], !.prev = P, !.last = x,
                        !.count = n + 1]
      BY <1>1, <3>1
    <3> HIDE DEF A, P
    <3> QED BY <1>2, <3>2
  <2>2. M = IF n = 0 THEN [A EXCEPT !.first = x] ELSE [A EXCEPT !.next[s[n]] = x]
    <3>1. M = IF L.first = NULL THEN [A EXCEPT !.first = x] ELSE [A EXCEPT !.next[L.last] = x]
      BY Zenon DEF ll_add
    <3> HIDE DEF A, M
    <3>2. n # 0 => L.last = s[n]
      BY <1>1
    <3> QED BY <1>4, <3>1, <3>2
  <2> HIDE DEF A, P, p
  <2>3. CASE n = 0
    <3>1. M = [A EXCEPT !.first = x]
      BY <2>2, <2>3
    <3> QED BY <2>1, <2>3, <3>1
  <2>4. CASE n # 0
    <3>1. M = [A EXCEPT !.next[s[n]] = x]
      BY <2>2, <2>4
    <3>2. M = [A EXCEPT !.next = [[L.next EXCEPT ![x] = NULL] EXCEPT ![s[n]] = x]]
      BY <2>1, <3>1
    <3> HIDE DEF M
    <3> QED BY <2>1, <2>4, <3>2
  <2> QED BY <2>3, <2>4
<1>6. /\ N \in [Timers -> Timers \cup {NULL}] /\ P \in [Timers -> Timers \cup {NULL}]
      /\ \A y \in Timers : P[y] = IF y = x THEN p ELSE L.prev[y]
      /\ \A y \in Timers : N[y] = IF n > 0 /\ y = s[n] THEN x ELSE IF y = x THEN NULL
                                  ELSE L.next[y]
  <2>1. n = 0 \/ n \in 1..n
    BY <1>1
  <2>2. p \in Timers \cup {NULL}
    BY <1>3, <2>1
  <2> QED BY <1>1, <1>2, <1>3, <2>1, <2>2
<1> HIDE DEF N, P, M
<1>7. M \in Links /\ M.first = (IF n = 0 THEN x ELSE L.first) /\ M.count = n + 1 /\ M.last = x
      /\ M.next = N /\ M.prev = P
  <2>1. M.first = (IF n = 0 THEN x ELSE L.first) /\ M.count = n + 1 /\ M.last = x
        /\ M.next = N /\ M.prev = P
    BY <1>5
  <2> QED BY <1>1, <1>2, <1>5, <1>6, <2>1 DEF Links
<1>8. /\ t \in [1..(n + 1) -> Timers] /\ t[n + 1] = x /\ \A k \in 1..n : t[k] = s[k]
      /\ n + 1 \in Nat /\ n + 1 \in 1..(n + 1) /\ n + 1 # 0
  <2>1. \A k \in 1..(n + 1) : k # n + 1 => k \in 1..n
    BY <1>1
  <2>2. \A k \in 1..n : k \in 1..(n + 1) /\ k # n + 1
    BY <1>1
  <2> QED BY <1>1, <2>1, <2>2 DEF Appended
<1>9. \A k \in 1..(n + 1) : k \in 1..n \/ k = n + 1
  BY <1>1
<1> HIDE DEF t
<1>10. \A i, k \in 1..(n + 1) : t[i] = t[k] => i = k
  BY <1>1, <1>3, <1>8, <1>9
<1>11. M.first = t[1]
  <2>1. n = 0 \/ 1 \in 1..n
    BY <1>1
  <2> QED BY <1>1, <1>7, <1>8, <2>1
<1>12. ASSUME NEW k \in 1..(n + 1)
       PROVE  /\ M.prev[t[k]] = IF k = 1 THEN NULL ELSE t[k - 1]
              /\ M.next[t[k]] = IF k = n + 1 THEN NULL ELSE t[k + 1]
  <2>1. CASE k = n + 1
    <3>1. M.prev[t[k]] = p /\ M.next[t[k]] = NULL
      <4>1. n > 0 => n \in 1..n
        BY <1>1
      <4> QED BY <1>3, <1>6, <1>7, <1>8, <2>1, <4>1
    <3>2. k # 1 => k - 1 = n /\ n \in 1..n /\ n # 0
      BY <1>1, <2>1
    <3>3. k = 1 => n = 0
      BY <1>1, <2>1
    <3> QED BY <1>8, <2>1, <3>1, <3>2, <3>3
  <2>2. CASE k # n + 1
    <3>1. k \in 1..n /\ t[k] = s[k] /\ s[k] # x /\ s[k] \in Timers
      BY <1>3, <1>8, <1>9, <2>2
    <3>2. M.prev[t[k]] = L.prev[s[k]]
      BY <1>6, <1>7, <3>1
    <3>3. k # 1 => k - 1 \in 1..n
      BY <1>1, <3>1
    <3>4. CASE k = n
      BY <1>1, <1>6, <1>7, <1>8, <2>2, <3>1, <3>2, <3>3, <3>4
    <3>5. CASE k # n
      <4>1. k + 1 \in 1..n /\ n \in 1..n
        BY <1>1, <3>1, <3>5
      <4>2. M.next[t[k]] = L.next[s[k]]
        BY <1>1, <1>6, <1>7, <3>1, <3>5, <4>1
      <4> QED BY <1>1, <1>8, <2>2, <3>1, <3>2, <3>3, <3>5, <4>1, <4>2
    <3> QED BY <3>4, <3>5
  <2> QED BY <2>1, <2>2
<1>13. Among(t, n + 1) = Among(s, n) \cup {x}
  <2>1. \A y : y \in Among(t, n + 1) <=> \E k \in 1..(n + 1) : y = t[k]
    BY DEF Among
  <2>2. \A y : y \in Among(s, n) <=> \E k \in 1..n : y = s[k]
    BY DEF Among
  <2>3. \A k \in 1..n : k \in 1..(n + 1)
    BY <1>1
  <2> QED BY <1>8, <1>9, <2>1, <2>2, <2>3
<1>14. Chain(M, t, n + 1)
  BY <1>7, <1>8, <1>10, <1>11, <1>12 DEF Chain
<1> QED BY <1>7, <1>13, <1>14 DEF M, t

LEMMA Deleted ==
  ASSUME NEW L, NEW s, NEW n, Chain(L, s, n), NEW j \in 1..n
  PROVE  \E t : /\ Chain(ll_del(L, s[j]), t, n - 1)
                /\ Among(t, n - 1) = Among(s, n) \ {s[j]}
<1> DEFINE d == s[j]
           p == L.prev[d]
           x == L.next[d]
           M == ll_del(L, d)
           D == Decremented(L)
           t == [k \in 1..(n - 1) |-> IF k < j THEN s[k] ELSE s[k + 1]]
<1>1. /\ n \in Nat /\ s \in [1..n -> Timers] /\ L \in Links /\ L.count = n
      /\ \A i, k \in 1..n : s[i] = s[k] => i = k
      /\ L.first = s[1]
      /\ \A k \in 1..n : /\ L.prev[s[k]] = IF k = 1 THEN NULL ELSE s[k - 1]
                         /\ L.next[s[k]] = IF k = n THEN NULL ELSE s[k + 1]
  BY DEF Chain
<1>2. /\ L.next \in [Timers -> Timers \cup {NULL}] /\ L.prev \in [Timers -> Timers \cup {NULL}]
      /\ L.first \in Timers \cup {NULL} /\ L.last \in Timers \cup {NULL}
      /\ L = [next |-> L.next, prev |-> L.prev, first |-> L.first, last |-> L.last,
              count |-> L.count]
  BY <1>1 DEF Links
<1>3. /\ p = IF j = 1 THEN NULL ELSE s[j - 1]
      /\ x = IF j = n THEN NULL ELSE s[j + 1]
      /\ j # 1 => j - 1 \in 1..n
      /\ j # n => j + 1 \in 1..n
      /\ d \in Timers /\ n - 1 \in Nat
  BY <1>1
<1>4. p \in Timers \cup {NULL} /\ x \in Timers \cup {NULL} /\ NULL \notin Timers
      /\ (p = NULL <=> j = 1) /\ (x = NULL <=> j = n)
  BY <1>1, <1>3, TimerConstants
<1>5. D = [next |-> L.next, prev |-> L.prev, first |-> L.first, last |-> L.last, count |-> n - 1]
  <2>1. D = [L EXCEPT !.count = n - 1]
    BY <1>1 DEF Decremented
  <2> HIDE DEF D
  <2> QED BY <1>2, <2>1
<1>6. M = IF x = NULL
          THEN IF p = NULL THEN [D EXCEPT !.first = NULL, !.last = NULL]
                           ELSE [D EXCEPT !.next[p] = NULL, !.last = p]
          ELSE IF p = NULL THEN [D EXCEPT !.first = x, !.prev[x] = NULL]
                           ELSE [D EXCEPT !.prev[x] = p, !.next[p] = x]
  BY Zenon DEF ll_del
<1> HIDE DEF D, M, p, x, d
<1>7. /\ M \in Links /\ M.count = n - 1 /\ M.first = IF p = NULL THEN x ELSE L.first
      /\ \A y \in Timers : /\ M.next[y] = IF y = p THEN x ELSE L.next[y]
                           /\ M.prev[y] = IF y = x THEN p ELSE L.prev[y]
  <2>1. CASE x = NULL /\ p = NULL
    <3>1. M = [next |-> L.next, prev |-> L.prev, first |-> NULL, last |-> NULL, count |-> n - 1]
      BY <1>5, <1>6, <2>1
    <3> QED BY <1>2, <1>3, <1>4, <2>1, <3>1 DEF Links
  <2>2. CASE x = NULL /\ p # NULL
    <3>1. M = [D EXCEPT !.next = [L.next EXCEPT ![p] = NULL], !.last = p]
      BY <1>5, <1>6, <2>2
    <3>2. M = [next |-> [L.next EXCEPT ![p] = NULL], prev |-> L.prev, first |-> L.first,
               last |-> p, count |-> n - 1]
      BY <1>5, <3>1
    <3>3. [L.next EXCEPT ![p] = NULL] \in [Timers -> Timers \cup {NULL}]
      BY <1>2
    <3> QED BY <1>2, <1>3, <1>4, <2>2, <3>2, <3>3 DEF Links
  <2>3. CASE x # NULL /\ p = NULL
    <3>1. M = [D EXCEPT !.first = x, !.prev = [L.prev EXCEPT ![x] = NULL]]
      BY <1>5, <1>6, <2>3
    <3>2. M = [next |-> L.next, prev |-> [L.prev EXCEPT ![x] = NULL], first |-> x,
               last |-> L.last, count |-> n - 1]
      BY <1>5, <3>1
    <3>3. [L.prev EXCEPT ![x] = NULL] \in [Timers -> Timers \cup {NULL}]
      BY <1>2
    <3> QED BY <1>2, <1>3, <1>4, <2>3, <3>2, <3>3 DEF Links
  <2>4. CASE x # NULL /\ p # NULL
    <3>1. M = [D EXCEPT !.prev = [L.prev EXCEPT ![x] = p], !.next = [L.next EXCEPT ![p] = x]]
      BY <1>5, <1>6, <2>4
    <3>2. M = [next |-> [L.next EXCEPT ![p] = x], prev |-> [L.prev EXCEPT ![x] = p],
               first |-> L.first, last |-> L.last, count |-> n - 1]
      BY <1>5, <3>1
    <3>3. /\ [L.prev EXCEPT ![x] = p] \in [Timers -> Timers \cup {NULL}]
          /\ [L.next EXCEPT ![p] = x] \in [Timers -> Timers \cup {NULL}]
      BY <1>2, <1>4
    <3> QED BY <1>2, <1>3, <1>4, <2>4, <3>2, <3>3 DEF Links
  <2> QED BY <2>1, <2>2, <2>3, <2>4
<1>8. /\ t \in [1..(n - 1) -> Timers]
      /\ \A k \in 1..(n - 1) : t[k] = IF k < j THEN s[k] ELSE s[k + 1]
  <2>1. \A k \in 1..(n - 1) : k \in 1..n /\ k + 1 \in 1..n
    BY <1>1
  <2> QED BY <1>1, <2>1
<1> HIDE DEF t
<1>9. \A i, k \in 1..(n - 1) : t[i] = t[k] => i = k
  <2> TAKE i, k \in 1..(n - 1)
  <2>1. i \in 1..n /\ k \in 1..n /\ i + 1 \in 1..n /\ k + 1 \in 1..n
    BY <1>1
  <2> QED BY <1>1, <1>8, <2>1
<1>10. M.first = IF n - 1 = 0 THEN NULL ELSE t[1]
  <2>1. CASE j = 1
    <3>1. M.first = x
      BY <1>4, <1>7, <2>1
    <3>2. n - 1 = 0 <=> j = n
      BY <1>1, <2>1
    <3>3. n - 1 # 0 => 1 \in 1..(n - 1) /\ t[1] = s[2] /\ x = s[2]
      BY <1>1, <1>3, <1>8, <2>1
    <3> QED BY <1>3, <3>1, <3>2, <3>3
  <2>2. CASE j # 1
    <3>1. 1 \in 1..(n - 1) /\ 1 < j /\ n - 1 # 0
      BY <1>1, <2>2
    <3> QED BY <1>1, <1>4, <1>7, <1>8, <2>2, <3>1
  <2> QED BY <2>1, <2>2
<1>11. ASSUME NEW k \in 1..(n - 1)
       PROVE  /\ M.prev[t[k]] = IF k = 1 THEN NULL ELSE t[k - 1]
              /\ M.next[t[k]] = IF k = n - 1 THEN NULL ELSE t[k + 1]
  <2>1. CASE k < j
    <3>1. /\ t[k] = s[k] /\ k \in 1..n /\ k # n /\ k # j /\ k # j + 1 /\ s[k] \in Timers
          /\ j # 1 /\ k + 1 \in 1..n
      BY <1>1, <1>8, <2>1
    <3>2. s[k] # x
      BY <1>1, <1>3, <1>4, <3>1
    <3>3. M.prev[t[k]] = IF k = 1 THEN NULL ELSE t[k - 1]
      <4>1. k # 1 => k - 1 \in 1..(n - 1) /\ k - 1 < j
        BY <1>1, <2>1
      <4> QED BY <1>1, <1>7, <1>8, <3>1, <3>2, <4>1
    <3>4. CASE k = j - 1
      <4>1. p = s[k] /\ M.next[t[k]] = x
        BY <1>3, <1>7, <3>1, <3>4
      <4>2. k = n - 1 <=> j = n
        BY <1>1, <3>4
      <4>3. j # n => k + 1 \in 1..(n - 1) /\ ~(k + 1 < j) /\ (k + 1) + 1 = j + 1
        BY <1>1, <3>4
      <4> QED BY <1>3, <1>8, <3>3, <4>1, <4>2, <4>3
    <3>5. CASE k # j - 1
      <4>1. s[k] # p
        BY <1>1, <1>3, <3>1, <3>5
      <4>2. k # n - 1 /\ k + 1 \in 1..(n - 1) /\ k + 1 < j
        BY <1>1, <2>1, <3>5
      <4> QED BY <1>1, <1>7, <1>8, <3>1, <3>3, <4>1, <4>2
    <3> QED BY <3>4, <3>5
  <2>2. CASE ~(k < j)
    <3>1. /\ t[k] = s[k + 1] /\ k + 1 \in 1..n /\ k \in 1..n /\ s[k + 1] \in Timers /\ k + 1 # 1
          /\ (k + 1) - 1 = k /\ (k + 1) + 1 = k + 2 /\ j # n /\ k + 1 # j - 1
      BY <1>1, <1>8, <2>2
    <3>2. s[k + 1] # p
      BY <1>1, <1>3, <1>4, <3>1
    <3>3. M.next[t[k]] = IF k = n - 1 THEN NULL ELSE t[k + 1]
      <4>1. k = n - 1 <=> k + 1 = n
        BY <1>1
      <4>2. k # n - 1 => k + 1 \in 1..(n - 1) /\ ~(k + 1 < j)
        BY <1>1, <2>2
      <4> QED BY <1>1, <1>7, <1>8, <3>1, <3>2, <4>1, <4>2
    <3>4. CASE k = j
      <4>1. M.prev[t[k]] = p
        BY <1>3, <1>7, <3>1, <3>4
      <4>2. k # 1 => k - 1 \in 1..(n - 1) /\ k - 1 < j
        BY <1>1, <3>4
      <4> QED BY <1>3, <1>8, <3>3, <3>4, <4>1, <4>2
    <3>5. CASE k # j
      <4>1. s[k + 1] # x
        BY <1>1, <1>3, <3>1, <3>5
      <4>2. k # 1 /\ k - 1 \in 1..(n - 1) /\ ~(k - 1 < j) /\ (k - 1) + 1 = k
        BY <1>1, <2>2, <3>5
      <4> QED BY <1>1, <1>7, <1>8, <3>1, <3>3, <4>1, <4>2
    <3> QED BY <3>4, <3>5
  <2> QED BY <2>1, <2>2
<1>12. Among(t, n - 1) = Among(s, n) \ {d}
  <2>1. \A y : y \in Among(t, n - 1) <=> \E k \in 1..(n - 1) : y = t[k]
    BY DEF Among
  <2>2. \A y : y \in Among(s, n) <=> \E k \in 1..n : y = s[k]
    BY DEF Among
  <2>3. ASSUME NEW k \in 1..(n - 1) PROVE t[k] \in Among(s, n) \ {d}
    <3>1. k \in 1..n /\ k + 1 \in 1..n
      BY <1>1
    <3> QED BY <1>1, <1>8, <2>2, <3>1 DEF d
  <2>4. ASSUME NEW k \in 1..n, s[k] # d PROVE s[k] \in Among(t, n - 1)
    <3>1. CASE k < j
      <4>1. k \in 1..(n - 1)
        BY <1>1, <3>1
      <4> QED BY <1>8, <2>1, <3>1, <4>1
    <3>2. CASE ~(k < j)
      <4>1. k # j
        BY <2>4 DEF d
      <4>2. k - 1 \in 1..(n - 1) /\ ~(k - 1 < j) /\ (k - 1) + 1 = k
        BY <1>1, <3>2, <4>1
      <4> QED BY <1>8, <2>1, <4>2
    <3> QED BY <3>1, <3>2
  <2> QED BY <2>1, <2>2, <2>3, <2>4
<1>13. Chain(M, t, n - 1)
  BY <1>3, <1>7, <1>8, <1>9, <1>10, <1>11 DEF Chain
<1> QED BY <1>12, <1>13 DEF M, d

-----------------------------------------------------------------------------
(* Following the list.                                                     *)

LEMMA FourTimers == IsFiniteSet(Timers) /\ Cardinality(Timers) = 4
<1>1. IsFiniteSet({}) /\ Cardinality({}) = 0
  BY FS_EmptySet
<1>2. IsFiniteSet({"regen"}) /\ Cardinality({"regen"}) = 1
  BY FS_Singleton
<1>3. IsFiniteSet({"regen", "resup"}) /\ Cardinality({"regen", "resup"}) = 2
  <2>1. "resup" \notin {"regen"} /\ {"regen"} \cup {"resup"} = {"regen", "resup"}
    OBVIOUS
  <2> QED BY <1>2, <2>1, FS_AddElement
<1>4. IsFiniteSet({"regen", "resup", "stealth"}) /\ Cardinality({"regen", "resup", "stealth"}) = 3
  <2>1. /\ "stealth" \notin {"regen", "resup"}
        /\ {"regen", "resup"} \cup {"stealth"} = {"regen", "resup", "stealth"}
    OBVIOUS
  <2> QED BY <1>3, <2>1, FS_AddElement
<1> QED
  <2>1. /\ "medic" \notin {"regen", "resup", "stealth"}
        /\ {"regen", "resup", "stealth"} \cup {"medic"} = Timers
    BY DEF Timers
  <2> QED BY <1>4, <2>1, FS_AddElement

\* n timers in a row, each once, are n timers, four at most.
LEMMA RowCount ==
  ASSUME NEW n \in Nat, NEW s \in [1..n -> Timers], \A i, j \in 1..n : s[i] = s[j] => i = j
  PROVE  /\ n <= 4 /\ Among(s, n) \subseteq Timers
         /\ IsFiniteSet(Among(s, n)) /\ Cardinality(Among(s, n)) = n
<1>1. Among(s, n) \subseteq Timers
  BY DEF Among
<1>2. IsFiniteSet(1..n) /\ Cardinality(1..n) = n
  <2>1. 1 \in Int /\ n \in Int /\ (IF 1 > n THEN 0 ELSE n - 1 + 1) = n
    OBVIOUS
  <2> QED BY <2>1, FS_Interval
<1>3. s \in Bijection(1..n, Among(s, n))
  <2>1. s \in [1..n -> Among(s, n)]
    BY DEF Among
  <2>2. \A y \in Among(s, n) : \E i \in 1..n : s[i] = y
    BY DEF Among
  <2>3. s \in Injection(1..n, Among(s, n))
    BY <2>1 DEF Injection, IsInjective
  <2>4. s \in Surjection(1..n, Among(s, n))
    BY <2>1, <2>2 DEF Surjection
  <2> QED BY <2>3, <2>4 DEF Bijection
<1>4. ExistsBijection(1..n, Among(s, n))
  BY <1>3 DEF ExistsBijection
<1>5. IsFiniteSet(Among(s, n)) /\ Cardinality(Among(s, n)) = Cardinality(1..n)
  BY <1>2, <1>4, FS_Bijection
<1>6. Cardinality(Among(s, n)) <= 4
  BY <1>1, FourTimers, FS_Subset
<1> QED BY <1>1, <1>2, <1>5, <1>6

\* From ll_first along ll_next one meets the timers in their order.
LEMMA ForwardIs ==
  ASSUME NEW L, NEW s, NEW n, Chain(L, s, n)
  PROVE  Forward(L) = s
<1> DEFINE at[k \in 1..Cardinality(Timers)] ==
             IF k = 1 THEN L.first
             ELSE IF at[k - 1] = NULL THEN NULL ELSE L.next[at[k - 1]]
           f == [k \in 1..Cardinality(Timers) |-> IF k <= n THEN s[k] ELSE NULL]
           V == Timers \cup {NULL}
           next == [k \in 1..4 |-> [x \in V |-> IF x = NULL THEN NULL ELSE L.next[x]]]
<1>1. /\ n \in Nat /\ s \in [1..n -> Timers] /\ \A i, j \in 1..n : s[i] = s[j] => i = j
      /\ L.first = IF n = 0 THEN NULL ELSE s[1]
      /\ \A k \in 1..n : L.next[s[k]] = IF k = n THEN NULL ELSE s[k + 1]
      /\ L.next \in [Timers -> V]
  BY DEF Chain, Links
<1>2. n <= 4 /\ n \in 0..4 /\ Cardinality(Timers) = 4
  BY <1>1, RowCount, FourTimers
<1>3. \A k \in 1..n : s[k] \in Timers /\ s[k] # NULL
  BY <1>1, TimerConstants
<1>4. /\ f \in [1..4 -> V] /\ \A k \in 1..4 : f[k] = IF k <= n THEN s[k] ELSE NULL
  <2>1. \A k \in 1..4 : k <= n => k \in 1..n
    BY <1>1
  <2> QED BY <1>2, <1>3, <2>1
<1>5. f = [k \in 1..4 |-> f[k]]
  BY <1>2
<1> HIDE DEF f
<1>6. f[1] = L.first
  <2>1. n = 0 \/ 1 \in 1..n
    BY <1>1
  <2> QED BY <1>1, <1>4, <2>1
<1>7. ASSUME NEW k \in 2..4
      PROVE  f[k] = IF f[k - 1] = NULL THEN NULL ELSE L.next[f[k - 1]]
  <2>1. k \in 1..4 /\ k - 1 \in 1..4 /\ (k - 1) + 1 = k
    OBVIOUS
  <2>2. CASE k - 1 <= n
    <3>1. k - 1 \in 1..n /\ f[k - 1] = s[k - 1] /\ f[k - 1] # NULL
      BY <1>1, <1>3, <1>4, <2>1, <2>2
    <3>2. L.next[s[k - 1]] = IF k - 1 = n THEN NULL ELSE s[k]
      BY <1>1, <2>1, <3>1
    <3>3. k - 1 = n <=> ~(k <= n)
      BY <1>1, <2>2
    <3> QED BY <1>4, <2>1, <3>1, <3>2, <3>3
  <2>3. CASE ~(k - 1 <= n)
    <3>1. ~(k <= n)
      BY <1>1, <2>3
    <3> QED BY <1>4, <2>1, <2>3, <3>1
  <2> QED BY <2>2, <2>3
<1>8. f = [k \in 1..Cardinality(Timers) |->
             IF k = 1 THEN L.first ELSE IF f[k - 1] = NULL THEN NULL ELSE L.next[f[k - 1]]]
  <2>1. \A k \in 1..4 : k # 1 => k \in 2..4
    OBVIOUS
  <2>2. \A k \in 1..4 : f[k] = IF k = 1 THEN L.first
                               ELSE IF f[k - 1] = NULL THEN NULL ELSE L.next[f[k - 1]]
    BY <1>6, <1>7, <2>1
  <2> QED BY <1>2, <1>5, <2>2
<1>9. at = [k \in 1..Cardinality(Timers) |->
             IF k = 1 THEN L.first ELSE IF at[k - 1] = NULL THEN NULL ELSE L.next[at[k - 1]]]
  BY <1>8, Zenon
<1>10. Forward(L) = SubSeq(at, 1, Cardinality({k \in DOMAIN at : at[k] # NULL}))
  BY Zenon DEF Forward
<1> HIDE DEF at
<1>11. DOMAIN at = 1..4 /\ at[1] = f[1] /\ at[2] = f[2] /\ at[3] = f[3] /\ at[4] = f[4]
  BY <1>2, <1>6, <1>7, <1>9
<1>12. at = f
  <2>1. at = [k \in 1..4 |-> at[k]]
    BY <1>2, <1>9
  <2>2. \A k \in 1..4 : at[k] = f[k]
    BY <1>11
  <2> QED BY <1>5, <2>1, <2>2
<1>13. {k \in DOMAIN at : at[k] # NULL} = 1..n
  <2>1. \A k : k \in 1..n <=> k \in 1..4 /\ k <= n
    BY <1>1, <1>2
  <2>2. \A k \in 1..4 : f[k] # NULL <=> k <= n
    BY <1>1, <1>2, <1>3, <1>4, <2>1
  <2> QED BY <1>11, <1>12, <2>1, <2>2
<1>14. Cardinality(1..n) = n
  <2>1. 1 \in Int /\ n \in Int /\ (IF 1 > n THEN 0 ELSE n - 1 + 1) = n
    BY <1>1
  <2> QED BY <2>1, FS_Interval
<1>15. SubSeq(f, 1, n) = [k \in 1..n |-> f[k]]
  BY <1>1, <1>2, <1>4
<1>16. [k \in 1..n |-> f[k]] = s
  <2>1. \A k \in 1..n : f[k] = s[k]
    BY <1>1, <1>2, <1>4
  <2> QED BY <1>1, <2>1
<1> QED BY <1>10, <1>12, <1>13, <1>14, <1>15, <1>16

\* The row of a chain is finite and of four at most.
LEMMA ChainCount ==
  ASSUME NEW L, NEW s, NEW n, Chain(L, s, n)
  PROVE  n \in 0..4 /\ Among(s, n) \subseteq Timers /\ Cardinality(Among(s, n)) = n /\ L \in Lists
<1>1. n \in Nat /\ s \in [1..n -> Timers] /\ \A i, j \in 1..n : s[i] = s[j] => i = j
  BY DEF Chain
<1>2. n <= 4 /\ Among(s, n) \subseteq Timers /\ Cardinality(Among(s, n)) = n
  BY <1>1, RowCount
<1>3. L \in Links /\ L.count = n
  BY DEF Chain
<1>4. L \in Lists
  <2>1. L.count \in 0..Cardinality(Timers)
    BY <1>1, <1>2, <1>3, FourTimers
  <2> QED BY <1>3, <2>1 DEF Lists, Links
<1> QED BY <1>1, <1>2, <1>4

-----------------------------------------------------------------------------
(* The queue.                                                              *)

\* L links the timers of S, those with a lower tm first.
Lined(L, S, tm) == \E n, s : Chain(L, s, n) /\ Among(s, n) = S /\ Ordered(s, n, tm, 1)

\* ll_last too is where it should be.
Tailed(L, S, tm) ==
  \E n, s : /\ Chain(L, s, n) /\ Among(s, n) = S /\ Ordered(s, n, tm, 1)
            /\ n > 0 => L.last = s[n]

\* RunEvents does not return early when one of S is due.
Wakes(nextrun, S, tm) == \A x \in S : 0 < nextrun /\ nextrun <= tm[x]

\* A timer that is to run after all others joins them at the end, and ll_sort has
\* nothing to do; any other is moved up, and ll_last is left behind.
LEMMA Joins ==
  ASSUME NEW q, Tailed(q.list, q.live, q.next_tm), NEW x \in Timers, x \notin q.live,
         q.next_tm \in [Timers -> Int], NEW t \in Nat, q.nextrun_tm \in Nat,
         Wakes(q.nextrun_tm, q.live, q.next_tm)
  PROVE  LET r == AddTimer(q, x, t)
         IN /\ r.live = q.live \cup {x}
            /\ r.next_tm = [q.next_tm EXCEPT ![x] = t + Period[x]]
            /\ Lined(r.list, r.live, r.next_tm)
            /\ r.nextrun_tm \in {q.nextrun_tm, t + Period[x]}
            /\ Wakes(r.nextrun_tm, r.live, r.next_tm)
            /\ (\A y \in q.live : q.next_tm[y] <= t + Period[x])
                 => Tailed(r.list, r.live, r.next_tm)
<1> DEFINE r == AddTimer(q, x, t)
           tm == [q.next_tm EXCEPT ![x] = t + Period[x]]
           M == ll_add(q.list, x)
<1>1. Period[x] \in Nat /\ Period[x] > 0
  BY DEF Period, Timers
<1>2. r = [list |-> ll_sort(M, tm), live |-> q.live \cup {x}, next_tm |-> tm,
           nextrun_tm |-> NextRun(q.nextrun_tm, tm[x])]
  BY Zenon DEF AddTimer
<1>3. tm \in [Timers -> Int] /\ tm[x] = t + Period[x] /\ \A y \in Timers : y # x => tm[y] = q.next_tm[y]
  BY <1>1
<1> HIDE DEF r, tm, M
<1>4. PICK n, s : /\ Chain(q.list, s, n) /\ Among(s, n) = q.live /\ Ordered(s, n, q.next_tm, 1)
                  /\ n > 0 => q.list.last = s[n]
  BY DEF Tailed
<1>5. n \in Nat /\ s \in [1..n -> Timers] /\ q.live \subseteq Timers
  BY <1>4, ChainCount DEF Chain
<1> DEFINE u == Appended(s, n, x)
<1>6. Chain(M, u, n + 1) /\ M.last = x /\ Among(u, n + 1) = q.live \cup {x}
  BY <1>4, Added DEF M
<1>7. u[n + 1] = x /\ \A k \in 1..n : u[k] = s[k] /\ s[k] # x /\ s[k] \in q.live
  <2>1. n + 1 \in 1..(n + 1) /\ \A k \in 1..n : k \in 1..(n + 1) /\ k # n + 1
    BY <1>5
  <2>2. \A k \in 1..n : s[k] \in q.live
    BY <1>4 DEF Among
  <2> QED BY <2>1, <2>2 DEF Appended
<1> HIDE DEF u
<1>8. ASSUME \A y \in q.live : q.next_tm[y] <= t + Period[x]
      PROVE  Ordered(u, n + 1, tm, 1)
  <2> SUFFICES ASSUME NEW i \in 1..(n + 1), NEW j \in 1..(n + 1), i < j, 1 <= j
               PROVE  tm[u[i]] <= tm[u[j]]
    BY DEF Ordered
  <2>1. i \in 1..n /\ (j = n + 1 \/ j \in 1..n)
    BY <1>5
  <2>2. tm[u[i]] = q.next_tm[s[i]]
    BY <1>3, <1>5, <1>7, <2>1
  <2>3. CASE j = n + 1
    BY <1>3, <1>7, <1>8, <2>1, <2>2, <2>3
  <2>4. CASE j \in 1..n
    <3>1. tm[u[j]] = q.next_tm[s[j]]
      BY <1>3, <1>5, <1>7, <2>4
    <3> QED BY <1>4, <2>1, <2>2, <2>4, <3>1 DEF Ordered
  <2> QED BY <2>1, <2>3, <2>4
<1>9. PICK v : Chain(ll_sort(M, tm), v, n + 1) /\ Among(v, n + 1) = Among(u, n + 1)
               /\ Ordered(v, n + 1, tm, 1)
  BY <1>3, <1>6, Sorts
<1>10. Lined(r.list, r.live, r.next_tm)
  <2>1. Chain(r.list, v, n + 1) /\ Among(v, n + 1) = r.live /\ Ordered(v, n + 1, r.next_tm, 1)
    BY <1>2, <1>6, <1>9
  <2> QED BY <2>1 DEF Lined
<1>11. ASSUME \A y \in q.live : q.next_tm[y] <= t + Period[x]
       PROVE  Tailed(r.list, r.live, r.next_tm)
  <2>1. Ordered(u, n + 1, tm, 1)
    BY <1>8, <1>11
  <2>2. ll_sort(M, tm) = M
    BY <1>3, <1>6, <2>1, Sorts
  <2>3. Chain(r.list, u, n + 1) /\ Among(u, n + 1) = r.live /\ Ordered(u, n + 1, r.next_tm, 1)
        /\ r.list.last = u[n + 1]
    BY <1>2, <1>6, <1>7, <2>1, <2>2
  <2> QED BY <2>3 DEF Tailed
<1>12. r.nextrun_tm = NextRun(q.nextrun_tm, t + Period[x])
  BY <1>2, <1>3
<1>13. Wakes(r.nextrun_tm, r.live, r.next_tm)
  <2>1. r.nextrun_tm > 0 /\ r.nextrun_tm <= t + Period[x]
        /\ (q.nextrun_tm > 0 => r.nextrun_tm <= q.nextrun_tm)
    BY <1>1, <1>12 DEF NextRun
  <2>2. r.nextrun_tm \in Nat
    BY <1>1, <1>12 DEF NextRun
  <2> SUFFICES ASSUME NEW y \in r.live PROVE 0 < r.nextrun_tm /\ r.nextrun_tm <= r.next_tm[y]
    BY DEF Wakes
  <2>3. CASE y = x
    BY <1>2, <1>3, <2>1, <2>3
  <2>4. CASE y # x
    <3>1. y \in q.live /\ y \in Timers /\ r.next_tm[y] = q.next_tm[y]
      BY <1>2, <1>3, <1>5, <2>4
    <3>2. 0 < q.nextrun_tm /\ q.nextrun_tm <= q.next_tm[y] /\ q.next_tm[y] \in Int
      BY <3>1 DEF Wakes
    <3> QED BY <2>1, <2>2, <3>1, <3>2
  <2> QED BY <2>3, <2>4
<1> QED BY <1>2, <1>10, <1>11, <1>12, <1>13 DEF r, tm, NextRun

\* What the list of a timer that is deleted, or of none, becomes.
LEMMA Leaves ==
  ASSUME NEW L, NEW S, NEW x \in Timers, \E n, s : Chain(L, s, n) /\ Among(s, n) = S,
         x \in live => x \in S
  PROVE  \E n, s : /\ Chain(ShutDownItem(L, x), s, n)
                   /\ Among(s, n) = IF x \in live THEN S \ {x} ELSE S
<1>1. PICK n, s : Chain(L, s, n) /\ Among(s, n) = S
  OBVIOUS
<1>2. CASE x \in live
  <2>1. PICK j \in 1..n : s[j] = x
    BY <1>1, <1>2 DEF Among
  <2>2. ShutDownItem(L, x) = ll_del(L, s[j])
    BY <1>2, <2>1 DEF ShutDownItem
  <2> QED BY <1>1, <1>2, <2>1, <2>2, Deleted
<1>3. CASE x \notin live
  BY <1>1, <1>3 DEF ShutDownItem
<1> QED BY <1>2, <1>3

-----------------------------------------------------------------------------
(* The steps.                                                              *)

\* Timer's inductive invariant: the list is a sorted row of the timers that exist, and
\* nextrun_tm is not later than any of them.
TimerInv ==
  /\ enable \subseteq Timers /\ live \subseteq Timers
  /\ next_tm \in [Timers -> 0..(MaxTime + 10)] /\ nextrun_tm \in 0..(MaxTime + 10)
  /\ curtime \in 0..MaxTime /\ up \in BOOLEAN
  /\ ran \in UNION {[1..k -> Timers] : k \in 0..Cardinality(Timers)}
  /\ Lined(list, live, next_tm)
  /\ Wakes(nextrun_tm, live, next_tm)
  /\ ~up => live = {}

\* The timers that CRPGI::Init has to create.
Wanted == {x \in Timers : AsksFor(x) \in enable}

LEMMA NoneRan == <<>> \in UNION {[1..k -> Timers] : k \in 0..Cardinality(Timers)}
<1>1. <<>> \in [1..0 -> Timers]
  OBVIOUS
<1>2. 0 \in 0..Cardinality(Timers)
  BY FourTimers
<1> QED BY <1>1, <1>2

\* The four upgrades are initialised in their order.
LEMMA MadeInOrder ==
  ASSUME ServerActivate
  PROVE  LET q0 == [list |-> list, live |-> live, next_tm |-> next_tm, nextrun_tm |-> nextrun_tm]
             q1 == InitItem(q0, "regen")
             q2 == InitItem(q1, "resup")
             q3 == InitItem(q2, "stealth")
             q4 == InitItem(q3, "medic")
         IN /\ ~up /\ up' = TRUE /\ curtime' = StartTime /\ ran' = <<>> /\ enable' = enable
            /\ list' = q4.list /\ live' = q4.live
            /\ next_tm' = q4.next_tm /\ nextrun_tm' = q4.nextrun_tm
<1> DEFINE q0 == [list |-> list, live |-> live, next_tm |-> next_tm, nextrun_tm |-> nextrun_tm]
           q1 == InitItem(q0, "regen")
           q2 == InitItem(q1, "resup")
           q3 == InitItem(q2, "stealth")
           q4 == InitItem(q3, "medic")
           made[k \in 0..Len(InitOrder)] ==
             IF k = 0 THEN q0 ELSE InitItem(made[k - 1], InitOrder[k])
           f == [k \in 0..Len(InitOrder) |->
                   IF k = 0 THEN q0 ELSE IF k = 1 THEN q1 ELSE IF k = 2 THEN q2
                   ELSE IF k = 3 THEN q3 ELSE q4]
<1>1. /\ Len(InitOrder) = 4 /\ InitOrder[1] = "regen" /\ InitOrder[2] = "resup"
      /\ InitOrder[3] = "stealth" /\ InitOrder[4] = "medic"
  BY DEF InitOrder
<1>2. /\ ~up /\ up' = TRUE /\ curtime' = StartTime /\ ran' = <<>> /\ enable' = enable
      /\ list' = made[Len(InitOrder)].list /\ live' = made[Len(InitOrder)].live
      /\ next_tm' = made[Len(InitOrder)].next_tm /\ nextrun_tm' = made[Len(InitOrder)].nextrun_tm
  BY Zenon DEF ServerActivate
<1>3. q1 = InitItem(q0, "regen") /\ q2 = InitItem(q1, "resup") /\ q3 = InitItem(q2, "stealth")
      /\ q4 = InitItem(q3, "medic")
  OBVIOUS
<1> HIDE DEF q1, q2, q3, q4, q0
<1>4. f = [k \in 0..Len(InitOrder) |-> IF k = 0 THEN q0 ELSE InitItem(f[k - 1], InitOrder[k])]
  <2>1. f[0] = q0 /\ f[1] = q1 /\ f[2] = q2 /\ f[3] = q3 /\ f[4] = q4
    BY <1>1
  <2>2. f = [k \in 0..4 |-> f[k]]
    BY <1>1
  <2> HIDE DEF f
  <2>3. \A k \in 0..4 : f[k] = IF k = 0 THEN q0 ELSE InitItem(f[k - 1], InitOrder[k])
    <3> TAKE k \in 0..4
    <3>1. k = 0 \/ k = 1 \/ k = 2 \/ k = 3 \/ k = 4
      OBVIOUS
    <3> QED BY <1>1, <1>3, <2>1, <3>1
  <2> QED BY <1>1, <2>2, <2>3
<1>5. made = [k \in 0..Len(InitOrder) |->
                IF k = 0 THEN q0 ELSE InitItem(made[k - 1], InitOrder[k])]
  <2> HIDE DEF f
  <2> QED BY <1>4, Zenon
<1> HIDE DEF made
<1>6. \A k \in 0..4 : made[k] = IF k = 0 THEN q0 ELSE InitItem(made[k - 1], InitOrder[k])
  BY <1>1, <1>5
<1>7. made[0] = q0 /\ made[1] = q1 /\ made[2] = q2 /\ made[3] = q3 /\ made[4] = q4
  <2>1. made[0] = q0
    BY <1>6
  <2>2. made[1] = q1
    BY <1>1, <1>3, <1>6, <2>1
  <2>3. made[2] = q2
    BY <1>1, <1>3, <1>6, <2>2
  <2>4. made[3] = q3
    BY <1>1, <1>3, <1>6, <2>3
  <2>5. made[4] = q4
    BY <1>1, <1>3, <1>6, <2>4
  <2> QED BY <2>1, <2>2, <2>3, <2>4, <2>5
<1> QED BY <1>1, <1>2, <1>7 DEF q1, q2, q3, q4, q0

\* The queue while the timers of a level are created: those of S, on time.
Making(q, S) ==
  /\ q.live = S /\ S \subseteq Timers
  /\ q.next_tm \in [Timers -> 0..(MaxTime + 10)] /\ q.nextrun_tm \in 0..(MaxTime + 10)
  /\ \A x \in S : q.next_tm[x] = StartTime + Period[x]
  /\ Wakes(q.nextrun_tm, S, q.next_tm)

\* One more is made: behind all others if its period is at least theirs.
LEMMA MakesOne ==
  ASSUME NEW q, NEW S, Making(q, S), Tailed(q.list, S, q.next_tm), NEW x \in Timers, x \notin S
  PROVE  LET r == AddTimer(q, x, StartTime)
         IN /\ Making(r, S \cup {x}) /\ Lined(r.list, S \cup {x}, r.next_tm)
            /\ (\A y \in S : Period[y] <= Period[x]) => Tailed(r.list, S \cup {x}, r.next_tm)
<1> DEFINE r == AddTimer(q, x, StartTime)
<1>1. StartTime \in Nat /\ MaxTime \in Nat /\ StartTime <= MaxTime
  BY TimerConstants
<1>2. \A y \in Timers : Period[y] \in Nat /\ Period[y] <= 10
  BY DEF Period, Timers
<1>3. q.next_tm \in [Timers -> Int] /\ q.nextrun_tm \in Nat /\ q.live = S
  BY <1>1 DEF Making
<1>4. /\ r.live = S \cup {x}
      /\ r.next_tm = [q.next_tm EXCEPT ![x] = StartTime + Period[x]]
      /\ Lined(r.list, r.live, r.next_tm)
      /\ r.nextrun_tm \in {q.nextrun_tm, StartTime + Period[x]}
      /\ Wakes(r.nextrun_tm, r.live, r.next_tm)
      /\ (\A y \in S : q.next_tm[y] <= StartTime + Period[x]) => Tailed(r.list, r.live, r.next_tm)
  BY <1>1, <1>3, Joins DEF Making
<1> HIDE DEF r
<1>5. Making(r, S \cup {x})
  <2>1. StartTime + Period[x] \in 0..(MaxTime + 10)
    BY <1>1, <1>2
  <2> QED BY <1>4, <2>1 DEF Making
<1>6. (\A y \in S : Period[y] <= Period[x]) => \A y \in S : q.next_tm[y] <= StartTime + Period[x]
  BY <1>1, <1>2 DEF Making
<1> QED BY <1>4, <1>5, <1>6 DEF r

\* A level's timers.
LEMMA LevelMade ==
  ASSUME TimerInv, ServerActivate
  PROVE  TimerInv' /\ live' = Wanted /\ \A x \in live' : next_tm'[x] = StartTime + Period[x]
<1> DEFINE q0 == [list |-> list, live |-> live, next_tm |-> next_tm, nextrun_tm |-> nextrun_tm]
           q1 == InitItem(q0, "regen")
           q2 == InitItem(q1, "resup")
           q3 == InitItem(q2, "stealth")
           q4 == InitItem(q3, "medic")
<1>1. /\ ~up /\ up' = TRUE /\ curtime' = StartTime /\ ran' = <<>> /\ enable' = enable
      /\ list' = q4.list /\ live' = q4.live
      /\ next_tm' = q4.next_tm /\ nextrun_tm' = q4.nextrun_tm
  BY MadeInOrder
<1>2. Making(q0, {}) /\ Tailed(q0.list, {}, q0.next_tm)
  <2>1. live = {} /\ Lined(list, {}, next_tm)
    BY <1>1 DEF TimerInv
  <2>2. PICK n, s : Chain(list, s, n) /\ Among(s, n) = {} /\ Ordered(s, n, next_tm, 1)
    BY <2>1 DEF Lined
  <2>3. ~(n > 0)
    <3>1. n \in Nat
      BY <2>2 DEF Chain
    <3>2. n > 0 => s[1] \in Among(s, n)
      BY <3>1 DEF Among
    <3> QED BY <2>2, <3>2
  <2>4. Tailed(list, {}, next_tm)
    BY <2>2, <2>3 DEF Tailed
  <2>5. Making(q0, {})
    BY <2>1 DEF Making, TimerInv, Wakes
  <2> QED BY <2>4, <2>5
<1>3. /\ q1 = IF "regen" \in enable THEN AddTimer(q0, "regen", StartTime)
              ELSE [q0 EXCEPT !.live = @ \ {"regen"}]
      /\ q2 = IF "regen" \in enable THEN AddTimer(q1, "resup", StartTime)
              ELSE [q1 EXCEPT !.live = @ \ {"resup"}]
      /\ q3 = IF "regen" \in enable THEN AddTimer(q2, "stealth", StartTime)
              ELSE [q2 EXCEPT !.live = @ \ {"stealth"}]
      /\ q4 = IF "medic" \in enable THEN AddTimer(q3, "medic", StartTime)
              ELSE [q3 EXCEPT !.live = @ \ {"medic"}]
  BY DEF InitItem, AsksFor
<1>4. q0.live = {} /\ DOMAIN q0 = {"list", "live", "next_tm", "nextrun_tm"}
      /\ q0 = [list |-> q0.list, live |-> q0.live, next_tm |-> q0.next_tm,
               nextrun_tm |-> q0.nextrun_tm]
  BY <1>2 DEF Making
<1> HIDE DEF q0, q1, q2, q3, q4
<1> DEFINE S == IF "regen" \in enable THEN {"regen", "resup", "stealth"} ELSE {}
<1>5. Making(q3, S) /\ Tailed(q3.list, S, q3.next_tm)
      /\ q3 = [list |-> q3.list, live |-> q3.live, next_tm |-> q3.next_tm,
               nextrun_tm |-> q3.nextrun_tm]
  <2>1. CASE "regen" \in enable
    <3>1. /\ "regen" \in Timers /\ "resup" \in Timers /\ "stealth" \in Timers
          /\ Period["regen"] <= Period["resup"] /\ Period["regen"] <= Period["stealth"]
          /\ Period["resup"] <= Period["stealth"]
      BY DEF Timers, Period
    <3>2. Making(q1, {"regen"}) /\ Tailed(q1.list, {"regen"}, q1.next_tm)
      <4>1. {} \cup {"regen"} = {"regen"} /\ "regen" \notin {}
        OBVIOUS
      <4> QED BY <1>2, <1>3, <2>1, <3>1, <4>1, MakesOne
    <3>3. Making(q2, {"regen", "resup"}) /\ Tailed(q2.list, {"regen", "resup"}, q2.next_tm)
      <4>1. {"regen"} \cup {"resup"} = {"regen", "resup"} /\ "resup" \notin {"regen"}
            /\ \A y \in {"regen"} : Period[y] <= Period["resup"]
        BY <3>1
      <4> QED BY <1>3, <2>1, <3>1, <3>2, <4>1, MakesOne
    <3>4. Making(q3, S) /\ Tailed(q3.list, S, q3.next_tm)
      <4>1. {"regen", "resup"} \cup {"stealth"} = S /\ "stealth" \notin {"regen", "resup"}
            /\ \A y \in {"regen", "resup"} : Period[y] <= Period["stealth"]
        BY <2>1, <3>1
      <4> QED BY <1>3, <2>1, <3>1, <3>3, <4>1, MakesOne
    <3>5. q3 = AddTimer(q2, "stealth", StartTime)
      BY <1>3, <2>1
    <3>6. q3 = [list |-> q3.list, live |-> q3.live, next_tm |-> q3.next_tm,
                nextrun_tm |-> q3.nextrun_tm]
      BY <3>5 DEF AddTimer
    <3> QED BY <3>4, <3>6
  <2>2. CASE "regen" \notin enable
    <3>1. q1 = [q0 EXCEPT !.live = {}]
      BY <1>3, <1>4, <2>2
    <3>2. q1 = q0
      BY <1>4, <3>1
    <3>3. q2 = q0
      BY <1>3, <1>4, <2>2, <3>2
    <3>4. q3 = q0
      BY <1>3, <1>4, <2>2, <3>3
    <3> QED BY <1>2, <1>4, <2>2, <3>4
  <2> QED BY <2>1, <2>2
<1>6. "medic" \notin S
  OBVIOUS
<1>7. Making(q4, Wanted) /\ Lined(q4.list, Wanted, q4.next_tm)
  <2>1. CASE "medic" \in enable
    <3>1. Wanted = S \cup {"medic"} /\ "medic" \in Timers
      BY <2>1 DEF Wanted, AsksFor, Timers
    <3> HIDE DEF S
    <3> QED BY <1>3, <1>5, <1>6, <2>1, <3>1, MakesOne
  <2>2. CASE "medic" \notin enable
    <3>1. Wanted = S
      BY <2>2 DEF Wanted, AsksFor, Timers
    <3> HIDE DEF S
    <3>2. q3.live = S /\ q3.live \ {"medic"} = q3.live
      BY <1>5, <1>6 DEF Making
    <3>3. q4 = [q3 EXCEPT !.live = q3.live]
      BY <1>3, <2>2, <3>2
    <3>4. q4 = q3
      BY <1>5, <3>3
    <3>5. Lined(q3.list, S, q3.next_tm)
      BY <1>5 DEF Tailed, Lined
    <3> QED BY <1>5, <3>1, <3>4, <3>5
  <2> QED BY <2>1, <2>2
<1>8. StartTime \in 0..MaxTime
  BY TimerConstants
<1>9. TimerInv'
  BY <1>1, <1>7, <1>8, NoneRan DEF TimerInv, Making
<1> QED BY <1>1, <1>7, <1>9 DEF Making

\* The four are shut down in the same order, and the list is empty.
LEMMA LevelEnded ==
  ASSUME TimerInv, LevelShutdown
  PROVE  TimerInv'
<1> DEFINE l1 == ShutDownItem(list, "regen")
           l2 == ShutDownItem(l1, "resup")
           l3 == ShutDownItem(l2, "stealth")
           l4 == ShutDownItem(l3, "medic")
           left[k \in 0..Len(InitOrder)] ==
             IF k = 0 THEN list ELSE ShutDownItem(left[k - 1], InitOrder[k])
           f == [k \in 0..Len(InitOrder) |->
                   IF k = 0 THEN list ELSE IF k = 1 THEN l1 ELSE IF k = 2 THEN l2
                   ELSE IF k = 3 THEN l3 ELSE l4]
           Held(l, S) == \E n, s : Chain(l, s, n) /\ Among(s, n) = S
<1>1. /\ Len(InitOrder) = 4 /\ InitOrder[1] = "regen" /\ InitOrder[2] = "resup"
      /\ InitOrder[3] = "stealth" /\ InitOrder[4] = "medic"
  BY DEF InitOrder
<1>2. /\ up' = FALSE /\ ran' = <<>> /\ live' = {} /\ list' = left[Len(InitOrder)]
      /\ UNCHANGED <<enable, next_tm, nextrun_tm, curtime>>
  BY Zenon DEF LevelShutdown
<1>3. /\ l1 = ShutDownItem(list, "regen") /\ l2 = ShutDownItem(l1, "resup")
      /\ l3 = ShutDownItem(l2, "stealth") /\ l4 = ShutDownItem(l3, "medic")
  OBVIOUS
<1> HIDE DEF l1, l2, l3, l4
<1>4. f = [k \in 0..Len(InitOrder) |-> IF k = 0 THEN list ELSE ShutDownItem(f[k - 1], InitOrder[k])]
  <2>1. f[0] = list /\ f[1] = l1 /\ f[2] = l2 /\ f[3] = l3 /\ f[4] = l4
    BY <1>1
  <2>2. f = [k \in 0..4 |-> f[k]]
    BY <1>1
  <2> HIDE DEF f
  <2>3. \A k \in 0..4 : f[k] = IF k = 0 THEN list ELSE ShutDownItem(f[k - 1], InitOrder[k])
    <3> TAKE k \in 0..4
    <3>1. k = 0 \/ k = 1 \/ k = 2 \/ k = 3 \/ k = 4
      OBVIOUS
    <3> QED BY <1>1, <1>3, <2>1, <3>1
  <2> QED BY <1>1, <2>2, <2>3
<1>5. left = [k \in 0..Len(InitOrder) |->
                IF k = 0 THEN list ELSE ShutDownItem(left[k - 1], InitOrder[k])]
  <2> HIDE DEF f
  <2> QED BY <1>4, Zenon
<1> HIDE DEF left
<1>6. \A k \in 0..4 : left[k] = IF k = 0 THEN list ELSE ShutDownItem(left[k - 1], InitOrder[k])
  BY <1>1, <1>5
<1>7. left[4] = l4
  <2>1. left[0] = list
    BY <1>6
  <2>2. left[1] = l1
    BY <1>1, <1>3, <1>6, <2>1
  <2>3. left[2] = l2
    BY <1>1, <1>3, <1>6, <2>2
  <2>4. left[3] = l3
    BY <1>1, <1>3, <1>6, <2>3
  <2> QED BY <1>1, <1>3, <1>6, <2>4
<1>8. /\ "regen" \in Timers /\ "resup" \in Timers /\ "stealth" \in Timers /\ "medic" \in Timers
      /\ live \subseteq Timers
  BY DEF Timers, TimerInv
<1>9. Held(list, live)
  BY DEF TimerInv, Lined
<1>10. Held(l1, live \ {"regen"})
  <2>1. IF "regen" \in live THEN live \ {"regen"} = live \ {"regen"} ELSE live = live \ {"regen"}
    OBVIOUS
  <2> QED BY <1>3, <1>8, <1>9, <2>1, Leaves
<1>11. Held(l2, live \ {"regen", "resup"})
  <2> DEFINE S == live \ {"regen"}
  <2>1. "resup" \in live => "resup" \in S
    OBVIOUS
  <2>2. (IF "resup" \in live THEN S \ {"resup"} ELSE S) = live \ {"regen", "resup"}
    OBVIOUS
  <2> HIDE DEF S
  <2>3. Held(l1, S)
    BY <1>10 DEF S
  <2> QED BY <1>3, <1>8, <2>1, <2>2, <2>3, Leaves
<1>12. Held(l3, live \ {"regen", "resup", "stealth"})
  <2> DEFINE S == live \ {"regen", "resup"}
  <2>1. "stealth" \in live => "stealth" \in S
    OBVIOUS
  <2>2. (IF "stealth" \in live THEN S \ {"stealth"} ELSE S) = live \ {"regen", "resup", "stealth"}
    OBVIOUS
  <2> HIDE DEF S
  <2>3. Held(l2, S)
    BY <1>11 DEF S
  <2> QED BY <1>3, <1>8, <2>1, <2>2, <2>3, Leaves
<1>13. Held(l4, {})
  <2> DEFINE S == live \ {"regen", "resup", "stealth"}
  <2>1. "medic" \in live => "medic" \in S
    OBVIOUS
  <2>2. (IF "medic" \in live THEN S \ {"medic"} ELSE S) = {}
    BY <1>8 DEF Timers
  <2> HIDE DEF S
  <2>3. Held(l3, S)
    BY <1>12 DEF S
  <2> QED BY <1>3, <1>8, <2>1, <2>2, <2>3, Leaves
<1>14. Lined(list', {}, next_tm)
  <2>1. PICK n, s : Chain(l4, s, n) /\ Among(s, n) = {}
    BY <1>13
  <2>2. n = 0
    <3>1. n \in Nat
      BY <2>1 DEF Chain
    <3>2. n > 0 => s[1] \in Among(s, n)
      BY <3>1 DEF Among
    <3> QED BY <2>1, <3>1, <3>2
  <2>3. Ordered(s, n, next_tm, 1)
    BY <2>2 DEF Ordered
  <2> QED BY <1>1, <1>2, <1>7, <2>1, <2>3 DEF Lined
<1> QED BY <1>2, <1>14, NoneRan DEF TimerInv, Wakes

\* The timers that are due are the first of the list, and they are those that run.
LEMMA Fired ==
  ASSUME NEW n, NEW s, Chain(list, s, n), Among(s, n) = live, Ordered(s, n, next_tm, 1),
         next_tm \in [Timers -> Int], NEW t \in Int
  PROVE  LET fired == {k \in DOMAIN s : \A j \in 1..k : next_tm[s[j]] <= t}
         IN \E m \in 0..n :
              /\ SubSeq(s, 1, Cardinality(fired)) = [k \in 1..m |-> s[k]]
              /\ \A k \in 1..n : k \in fired <=> k <= m
              /\ \A k \in 1..n : next_tm[s[k]] <= t <=> k <= m
<1> DEFINE fired == {k \in DOMAIN s : \A j \in 1..k : next_tm[s[j]] <= t}
           Late == {k \in 1..(n + 1) : k = n + 1 \/ next_tm[s[k]] > t}
<1>1. n \in Nat /\ s \in [1..n -> Timers] /\ DOMAIN s = 1..n
  BY DEF Chain
<1>2. Late \in SUBSET Nat /\ n + 1 \in Late
  BY <1>1
<1>3. PICK l \in Late : \A k \in Late : l <= k
  BY <1>2, LeastNumber
<1> DEFINE m == l - 1
<1>4. l \in 1..(n + 1) /\ m \in 0..n /\ l = m + 1
  BY <1>1, <1>3
<1>5. ASSUME NEW k \in 1..n PROVE next_tm[s[k]] <= t <=> k <= m
  <2>1. next_tm[s[k]] \in Int /\ k \in 1..(n + 1) /\ k # n + 1
    BY <1>1
  <2>2. CASE k < l
    <3>1. k \notin Late
      BY <1>3, <1>4, <2>2
    <3> QED BY <1>4, <2>1, <2>2, <3>1
  <2>3. CASE l <= k
    <3>1. l \in 1..n /\ next_tm[s[l]] > t /\ next_tm[s[l]] \in Int
      BY <1>1, <1>3, <1>4, <2>3
    <3>2. next_tm[s[l]] <= next_tm[s[k]]
      <4>1. l = k \/ (l < k /\ 1 <= k)
        BY <1>4, <2>3
      <4> QED BY <2>1, <3>1, <4>1 DEF Ordered
    <3> QED BY <1>4, <2>1, <2>3, <3>1, <3>2
  <2> QED BY <1>4, <2>2, <2>3
<1> HIDE DEF Late, m
<1>6. ASSUME NEW k \in 1..n PROVE k \in fired <=> k <= m
  <2>1. \A j \in 1..k : j \in 1..n /\ j <= k
    BY <1>1
  <2>2. k \in 1..k
    OBVIOUS
  <2>3. k <= m => \A j \in 1..k : j <= m
    BY <1>4
  <2> QED BY <1>1, <1>5, <2>1, <2>2, <2>3
<1>7. fired = 1..m
  <2>1. \A k : k \in 1..m <=> k \in 1..n /\ k <= m
    BY <1>1, <1>4
  <2>2. fired \subseteq 1..n
    BY <1>1
  <2> HIDE DEF fired
  <2> QED BY <1>6, <2>1, <2>2
<1>8. Cardinality(fired) = m
  <2>1. 1 \in Int /\ m \in Int /\ (IF 1 > m THEN 0 ELSE m - 1 + 1) = m
    BY <1>4
  <2> HIDE DEF fired
  <2> QED BY <1>7, <2>1, FS_Interval
<1> HIDE DEF fired
<1>9. SubSeq(s, 1, m) = [k \in 1..m |-> s[k]]
  BY <1>1, <1>4
<1>10. SubSeq(s, 1, Cardinality(fired)) = [k \in 1..m |-> s[k]]
  BY <1>8, <1>9
<1> QED BY <1>4, <1>5, <1>6, <1>10 DEF fired

\* The timers that are due at t.
DueAt(t) == {x \in live : next_tm[x] <= t}

\* What a frame that ends at t does: those due run, in the order of their times, and
\* each is due again a period later.
RunsThem(t) ==
  /\ \E m \in Nat :
       /\ ran' \in [1..m -> DueAt(t)] /\ m = Cardinality(DueAt(t)) /\ m <= 4
       /\ \A j, k \in 1..m : j < k => ran'[j] # ran'[k] /\ next_tm[ran'[j]] <= next_tm[ran'[k]]
  /\ next_tm' = [x \in Timers |-> IF x \in DueAt(t) THEN next_tm[x] + Period[x] ELSE next_tm[x]]

LEMMA EventsRun ==
  ASSUME TimerInv, NEW t \in 0..MaxTime, RunEvents(t), live' = live
  PROVE  /\ RunsThem(t) /\ Lined(list', live, next_tm') /\ Wakes(nextrun_tm', live, next_tm')
         /\ next_tm' \in [Timers -> 0..(MaxTime + 10)] /\ nextrun_tm' \in 0..(MaxTime + 10)
<1>1. /\ next_tm \in [Timers -> 0..(MaxTime + 10)] /\ nextrun_tm \in 0..(MaxTime + 10)
      /\ live \subseteq Timers /\ MaxTime \in Nat /\ next_tm \in [Timers -> Int] /\ t \in Int
  BY TimerConstants DEF TimerInv
<1>2. CASE nextrun_tm = 0 \/ t < nextrun_tm
  <2>1. ran' = <<>> /\ UNCHANGED <<list, next_tm, nextrun_tm>>
    BY <1>2 DEF RunEvents
  <2>2. DueAt(t) = {}
    <3> SUFFICES ASSUME NEW x \in live, next_tm[x] <= t PROVE FALSE
      BY DEF DueAt
    <3>1. 0 < nextrun_tm /\ nextrun_tm <= next_tm[x] /\ next_tm[x] \in Int
      BY <1>1 DEF TimerInv, Wakes
    <3> QED BY <1>1, <1>2, <3>1
  <2>3. RunsThem(t)
    <3>1. ran' \in [1..0 -> DueAt(t)] /\ 0 \in Nat /\ 0 = Cardinality(DueAt(t)) /\ 0 <= 4
      BY <2>1, <2>2, FS_EmptySet
    <3>2. \A j, k \in 1..0 : j < k => ran'[j] # ran'[k] /\ next_tm[ran'[j]] <= next_tm[ran'[k]]
      OBVIOUS
    <3>3. next_tm' = [x \in Timers |-> IF x \in DueAt(t) THEN next_tm[x] + Period[x] ELSE next_tm[x]]
      BY <1>1, <2>1, <2>2
    <3> QED BY <3>1, <3>2, <3>3 DEF RunsThem
  <2> QED BY <1>1, <2>1, <2>3 DEF TimerInv
<1>3. CASE ~(nextrun_tm = 0 \/ t < nextrun_tm)
  <2> DEFINE s == Forward(list)
  <2>1. PICK n : Chain(list, s, n) /\ Among(s, n) = live /\ Ordered(s, n, next_tm, 1)
    <3>1. PICK n, z : Chain(list, z, n) /\ Among(z, n) = live /\ Ordered(z, n, next_tm, 1)
      BY DEF TimerInv, Lined
    <3>2. s = z
      BY <3>1, ForwardIs
    <3> QED BY <3>1, <3>2
  <2>2. n \in 0..4
    BY <2>1, ChainCount
  <2>3. /\ n \in 0..4 /\ n \in Nat /\ s \in [1..n -> Timers]
        /\ \A i, j \in 1..n : s[i] = s[j] => i = j
        /\ list.count = n
    BY <2>1, <2>2 DEF Chain
  <2> DEFINE fired == {k \in DOMAIN s : \A j \in 1..k : next_tm[s[j]] <= t}
             tm == [x \in Timers |-> IF \E k \in fired : s[k] = x THEN next_tm[x] + Period[x]
                                                                 ELSE next_tm[x]]
  <2>4. /\ ran' = SubSeq(s, 1, Cardinality(fired)) /\ next_tm' = tm
        /\ list' = ll_sort(list, tm)
        /\ nextrun_tm' = IF list.count = 0 THEN 0 ELSE tm[list'.first]
    BY <1>3, Zenon DEF RunEvents
  <2> HIDE DEF s
  <2>5. fired \subseteq 1..n
    BY <2>3
  <2>6. PICK m \in 0..n : /\ SubSeq(s, 1, Cardinality(fired)) = [k \in 1..m |-> s[k]]
                          /\ \A k \in 1..n : k \in fired <=> k <= m
                          /\ \A k \in 1..n : next_tm[s[k]] <= t <=> k <= m
    BY <1>1, <2>1, Fired
  <2> DEFINE r == [k \in 1..m |-> s[k]]
  <2>7. ran' = r /\ r \in [1..m -> Timers] /\ m \in Nat /\ \A k \in 1..m : k \in 1..n /\ r[k] = s[k]
    <3>1. ran' = r
      <4> HIDE DEF fired, tm
      <4> QED BY <2>4, <2>6
    <3>2. \A k \in 1..m : k \in 1..n /\ r[k] = s[k]
      BY <2>3
    <3>3. r \in [1..m -> Timers] /\ m \in Nat
      BY <2>3, <3>2
    <3> QED BY <3>1, <3>2, <3>3
  <2> HIDE DEF fired, r
  <2>8. Among(r, m) = DueAt(t)
    <3>1. \A x : x \in Among(r, m) <=> \E k \in 1..m : x = r[k]
      BY DEF Among
    <3>2. \A x : x \in live <=> \E k \in 1..n : x = s[k]
      BY <2>1 DEF Among
    <3>3. \A k \in 1..n : next_tm[s[k]] <= t => k \in 1..m
      BY <2>3, <2>6
    <3>4. \A k \in 1..m : k \in 1..n /\ k <= m
      BY <2>7
    <3> QED BY <2>6, <2>7, <3>1, <3>2, <3>3, <3>4 DEF DueAt
  <2>9. ASSUME NEW x \in Timers PROVE (\E k \in fired : s[k] = x) <=> x \in DueAt(t)
    <3>0. \A k : k \in 1..m <=> k \in 1..n /\ k <= m
      BY <2>3, <2>7
    <3>1. \A k : k \in fired <=> k \in 1..m
      BY <2>5, <2>6, <3>0
    <3>2. x \in Among(r, m) <=> \E k \in 1..m : x = r[k]
      BY DEF Among
    <3> QED BY <2>7, <2>8, <3>1, <3>2
  <2>10. tm = [x \in Timers |-> IF x \in DueAt(t) THEN next_tm[x] + Period[x] ELSE next_tm[x]]
    BY <2>9
  <2>11. RunsThem(t)
    <3>1. \A i, j \in 1..m : r[i] = r[j] => i = j
      BY <2>3, <2>7
    <3>2. m <= 4 /\ Cardinality(Among(r, m)) = m
      BY <2>7, <3>1, RowCount
    <3>3. r \in [1..m -> DueAt(t)]
      <4>1. \A k \in 1..m : r[k] \in Among(r, m)
        BY DEF Among
      <4> QED BY <2>7, <2>8, <4>1
    <3>4. ASSUME NEW j \in 1..m, NEW k \in 1..m, j < k
          PROVE  r[j] # r[k] /\ next_tm[r[j]] <= next_tm[r[k]]
      <4>1. r[j] # r[k]
        BY <3>1, <3>4
      <4>2. 1 <= k
        OBVIOUS
      <4> QED BY <2>1, <2>7, <3>4, <4>1, <4>2 DEF Ordered
    <3>5. /\ ran' \in [1..m -> DueAt(t)] /\ m = Cardinality(DueAt(t)) /\ m <= 4 /\ m \in Nat
          /\ \A j, k \in 1..m : j < k => ran'[j] # ran'[k] /\ next_tm[ran'[j]] <= next_tm[ran'[k]]
      BY <2>7, <2>8, <3>2, <3>3, <3>4
    <3>6. next_tm' = [x \in Timers |-> IF x \in DueAt(t) THEN next_tm[x] + Period[x] ELSE next_tm[x]]
      BY <2>4, <2>10
    <3> QED BY <3>5, <3>6 DEF RunsThem
  <2>12. \A x \in Timers : Period[x] \in 1..10
    BY DEF Period, Timers
  <2>13. tm \in [Timers -> 0..(MaxTime + 10)]
    <3>1. ASSUME NEW x \in DueAt(t) PROVE next_tm[x] + Period[x] \in 0..(MaxTime + 10)
      <4>1. x \in Timers /\ next_tm[x] <= t /\ next_tm[x] \in Nat /\ t <= MaxTime
        BY <1>1 DEF DueAt
      <4> QED BY <1>1, <2>12, <4>1
    <3> QED BY <1>1, <2>10, <3>1
  <2>14. ASSUME NEW x \in live PROVE tm[x] > 0
    <3>1. x \in Timers /\ 0 < next_tm[x] /\ next_tm[x] \in Int
      <4>1. 0 < nextrun_tm /\ nextrun_tm <= next_tm[x]
        BY DEF TimerInv, Wakes
      <4> QED BY <1>1, <4>1
    <3> QED BY <2>10, <2>12, <3>1
  <2> HIDE DEF tm
  <2>15. tm \in [Timers -> Int]
    BY <1>1, <2>13
  <2>16. PICK v : /\ Chain(list', v, n) /\ Among(v, n) = live /\ Ordered(v, n, tm, 1)
    BY <2>1, <2>4, <2>15, Sorts
  <2>17. Lined(list', live, next_tm')
    BY <2>4, <2>16 DEF Lined
  <2>18. Wakes(nextrun_tm', live, next_tm') /\ nextrun_tm' \in 0..(MaxTime + 10)
    <3>1. CASE n = 0
      <4>1. nextrun_tm' = 0
        BY <2>3, <2>4, <3>1
      <4>2. live = {}
        BY <2>16, <3>1 DEF Among
      <4> QED BY <1>1, <4>1, <4>2 DEF Wakes
    <3>2. CASE n # 0
      <4>1. nextrun_tm' = tm[v[1]] /\ 1 \in 1..n
        BY <2>3, <2>4, <2>16, <3>2 DEF Chain
      <4>2. v[1] \in live /\ v[1] \in Timers
        BY <1>1, <2>16, <4>1 DEF Among
      <4>3. ASSUME NEW x \in live PROVE 0 < tm[v[1]] /\ tm[v[1]] <= tm[x]
        <5>1. PICK k \in 1..n : x = v[k]
          BY <2>16 DEF Among
        <5>2. k = 1 \/ (1 < k /\ 1 <= k)
          OBVIOUS
        <5>3. tm[v[1]] \in Int
          BY <2>15, <4>2
        <5> QED BY <2>14, <2>16, <4>1, <4>2, <5>1, <5>2, <5>3 DEF Ordered
      <4> QED BY <2>4, <2>13, <4>1, <4>2, <4>3 DEF Wakes
    <3> QED BY <3>1, <3>2
  <2> QED BY <2>4, <2>11, <2>13, <2>17, <2>18
<1> QED BY <1>2, <1>3

-----------------------------------------------------------------------------
(* The theorems about the timers.                                          *)

LEMMA QueueDue ==
  ASSUME NEW t
  PROVE  /\ DOMAIN [x \in live |-> next_tm[x]] = live
         /\ Queue!Due(t) = DueAt(t)
BY DEF Queue!Due, DueAt

LEMMA TimersStart ==
  ASSUME TimerInit
  PROVE  TimerInv /\ Queue!QueueInit
<1>1. /\ enable = Timers /\ list = ll_init /\ live = {} /\ next_tm = [x \in Timers |-> 0]
      /\ nextrun_tm = 0 /\ curtime = StartTime /\ up = FALSE /\ ran = <<>>
  BY DEF TimerInit
<1>2. StartTime \in 0..MaxTime /\ StartTime \in Nat /\ MaxTime \in Nat
  BY TimerConstants
<1>3. Lined(list, {}, next_tm)
  <2>1. ll_init \in Links /\ ll_init.count = 0 /\ ll_init.first = NULL
    BY DEF ll_init, Links
  <2>2. Chain(ll_init, <<>>, 0) /\ Among(<<>>, 0) = {} /\ Ordered(<<>>, 0, next_tm, 1)
    BY <2>1 DEF Chain, Among, Ordered
  <2> QED BY <1>1, <2>2 DEF Lined
<1>4. TimerInv
  <2>1. next_tm \in [Timers -> 0..(MaxTime + 10)] /\ nextrun_tm \in 0..(MaxTime + 10)
    BY <1>1, <1>2
  <2>2. ran \in UNION {[1..k -> Timers] : k \in 0..Cardinality(Timers)}
    BY <1>1, NoneRan
  <2>3. Wakes(nextrun_tm, live, next_tm)
    BY <1>1 DEF Wakes
  <2> QED BY <1>1, <1>2, <1>3, <2>1, <2>2, <2>3 DEF TimerInv
<1>5. [x \in live |-> next_tm[x]] = <<>>
  BY <1>1
<1> QED BY <1>1, <1>2, <1>4, <1>5 DEF Queue!QueueInit

LEMMA LevelStartsQueue ==
  ASSUME TimerInv, ServerActivate
  PROVE  TimerInv' /\ Queue!LevelStarts
<1>1. TimerInv' /\ live' = Wanted /\ \A x \in live' : next_tm'[x] = StartTime + Period[x]
  BY LevelMade
<1>2. curtime' = StartTime /\ ran' = <<>>
  BY DEF ServerActivate
<1>3. StartTime \in Nat /\ live' \in SUBSET Timers
  BY <1>1, TimerConstants DEF TimerInv
<1>4. [x \in live |-> next_tm[x]]' = [x \in live' |-> curtime' + Period[x]]
  BY <1>1, <1>2
<1> QED BY <1>1, <1>2, <1>3, <1>4 DEF Queue!LevelStarts

LEMMA FrameQueue ==
  ASSUME TimerInv, GameFrame
  PROVE  TimerInv' /\ Queue!Frame
<1>1. PICK t \in curtime..(curtime + MaxLag) :
        /\ up /\ t <= MaxTime /\ curtime' = t /\ RunEvents(t) /\ UNCHANGED <<enable, live, up>>
  BY DEF GameFrame
<1>2. t \in 0..MaxTime /\ t \in Nat /\ t >= curtime
  BY <1>1, TimerConstants DEF TimerInv
<1>3. /\ RunsThem(t) /\ Lined(list', live, next_tm') /\ Wakes(nextrun_tm', live, next_tm')
      /\ next_tm' \in [Timers -> 0..(MaxTime + 10)] /\ nextrun_tm' \in 0..(MaxTime + 10)
  BY <1>1, <1>2, EventsRun
<1>4. PICK m \in Nat :
        /\ ran' \in [1..m -> DueAt(t)] /\ m = Cardinality(DueAt(t)) /\ m <= 4
        /\ \A j, k \in 1..m : j < k => ran'[j] # ran'[k] /\ next_tm[ran'[j]] <= next_tm[ran'[k]]
  BY <1>3 DEF RunsThem
<1>5. DueAt(t) \subseteq live /\ live \subseteq Timers
  BY DEF DueAt, TimerInv
<1>6. ran' \in UNION {[1..k -> Timers] : k \in 0..Cardinality(Timers)}
  <2>1. m \in 0..Cardinality(Timers)
    BY <1>4, FourTimers
  <2>2. ran' \in [1..m -> Timers]
    BY <1>4, <1>5
  <2> QED BY <2>1, <2>2
<1>7. TimerInv'
  BY <1>1, <1>2, <1>3, <1>6 DEF TimerInv
<1>8. ran' \in Queue!Orders(Queue!Due(t))
  <2>1. \A j \in 1..m : ran'[j] \in live /\ [x \in live |-> next_tm[x]][ran'[j]] = next_tm[ran'[j]]
    BY <1>4, <1>5
  <2>2. DOMAIN ran' = 1..m
    BY <1>4
  <2>3. Queue!Cardinality(DueAt(t)) = Cardinality(DueAt(t))
    BY DEF Queue!Cardinality, Cardinality
  <2> QED BY <1>4, <2>1, <2>2, <2>3, QueueDue DEF Queue!Orders
<1>9. [x \in live |-> next_tm[x]]'
        = [x \in live |-> IF x \in DueAt(t) THEN next_tm[x] + Period[x] ELSE next_tm[x]]
  BY <1>1, <1>3, <1>5 DEF RunsThem
<1>10. [x \in live |-> next_tm[x]]'
         = [x \in DOMAIN [x \in live |-> next_tm[x]] |->
              IF x \in Queue!Due(t) THEN [y \in live |-> next_tm[y]][x] + Period[x]
              ELSE [y \in live |-> next_tm[y]][x]]
  BY <1>9, QueueDue
<1>11. Queue!Frame
  BY <1>1, <1>2, <1>8, <1>10 DEF Queue!Frame
<1> QED BY <1>7, <1>11

LEMMA LevelEndsQueue ==
  ASSUME TimerInv, LevelShutdown
  PROVE  TimerInv' /\ Queue!LevelEnds
<1>1. TimerInv'
  BY LevelEnded
<1>2. live' = {} /\ ran' = <<>> /\ curtime' = curtime
  BY DEF LevelShutdown
<1>3. [x \in live |-> next_tm[x]]' = <<>>
  BY <1>2
<1> QED BY <1>1, <1>2, <1>3 DEF Queue!LevelEnds

LEMMA SettingKept ==
  ASSUME TimerInv, NEW x \in Timers, SetEnable(x)
  PROVE  TimerInv' /\ UNCHANGED Queue!queue
BY DEF TimerInv, SetEnable, Queue!queue

LEMMA TimerSteps ==
  ASSUME TimerInv, [TimerNext]_timer_vars
  PROVE  TimerInv' /\ [Queue!LevelStarts \/ Queue!Frame \/ Queue!LevelEnds]_Queue!queue
<1>1. CASE ServerActivate
  BY <1>1, LevelStartsQueue
<1>2. CASE GameFrame
  BY <1>2, FrameQueue
<1>3. CASE LevelShutdown
  BY <1>3, LevelEndsQueue
<1>4. ASSUME NEW x \in Timers, SetEnable(x)
      PROVE  TimerInv' /\ UNCHANGED Queue!queue
  BY <1>4, SettingKept
<1>5. CASE UNCHANGED timer_vars
  BY <1>5 DEF timer_vars, TimerInv, Queue!queue
<1> QED BY <1>1, <1>2, <1>3, <1>4, <1>5 DEF TimerNext

LEMMA TimerInvAlways == TimerSpec => []TimerInv
<1>1. TimerInit => TimerInv
  BY TimersStart
<1>2. TimerInv /\ [TimerNext]_timer_vars => TimerInv'
  BY TimerSteps
<1> QED BY <1>1, <1>2, PTL DEF TimerSpec

\* The timers' variables keep their types: the list never counts more nodes than there
\* are, and a time never leaves its bounds.
THEOREM TimerTypes == TimerSpec => []TimerTypeOK
<1>1. TimerInv => TimerTypeOK
  <2> SUFFICES ASSUME TimerInv PROVE TimerTypeOK
    OBVIOUS
  <2>1. list \in Lists
    BY ChainCount DEF TimerInv, Lined
  <2> QED BY <2>1 DEF TimerInv, TimerTypeOK
<1> QED BY <1>1, TimerInvAlways, PTL

\* Between handlers the list of timers holds those that exist, each once, linked both
\* ways and earliest first: CRPG_Timer::AddTimer, DelTimer and RunEvents keep it whole.
THEOREM TimersListed == TimerSpec => []ListOK
<1>1. TimerInv => ListOK
  <2> SUFFICES ASSUME TimerInv PROVE ListOK
    OBVIOUS
  <2>1. PICK n, s : Chain(list, s, n) /\ Among(s, n) = live /\ Ordered(s, n, next_tm, 1)
    BY DEF TimerInv, Lined
  <2>2. Forward(list) = s
    BY <2>1, ForwardIs
  <2>3. /\ n \in Nat /\ s \in [1..n -> Timers] /\ list.count = n
        /\ \A k \in 1..n : /\ list.prev[s[k]] = IF k = 1 THEN NULL ELSE s[k - 1]
                           /\ list.next[s[k]] = IF k = n THEN NULL ELSE s[k + 1]
    BY <2>1 DEF Chain
  <2>4. DOMAIN s = 1..n /\ Len(s) = n
    BY <2>3
  <2>5. Cardinality(live) = n
    BY <2>1, ChainCount
  <2>6. Holds(list, live)
    BY <2>1, <2>2, <2>3, <2>4, <2>5 DEF Holds, Among
  <2>7. \A j, k \in DOMAIN s : j < k => next_tm[s[j]] <= next_tm[s[k]]
    <3>1. \A k \in 1..n : 1 <= k
      BY <2>3
    <3> QED BY <2>1, <2>4, <3>1 DEF Ordered
  <2> QED BY <2>2, <2>6, <2>7 DEF ListOK
<1> QED BY <1>1, TimerInvAlways, PTL

\* The list, the sort and nextrun_tm of CRPG_Timer do what the upgrades rely on: in each
\* frame every timer that is due runs, once, those due earlier first, and none that is not.
THEOREM QueueImplemented == TimerSpec => ImplementsQueue
<1>1. TimerInit => Queue!QueueInit
  BY TimersStart
<1>2. TimerInv /\ [TimerNext]_timer_vars
        => [Queue!LevelStarts \/ Queue!Frame \/ Queue!LevelEnds]_Queue!queue
  BY TimerSteps
<1> QED BY <1>1, <1>2, TimerInvAlways, PTL DEF TimerSpec, ImplementsQueue, Queue!QueueSpec
-----------------------------------------------------------------------------
(* Vitals.                                                                 *)

\* What the variable client holds for one client.
Body == [online : BOOLEAN, alive : BOOLEAN, health : Int, armor : 0..FullArmor,
         alpha : 0..Opaque, hbonus : 0..MaxBonus, stealth : 0..MaxStealth]

\* Nobody is above the highest maximum; who lives is connected and has health.
Lives(p) == p.health <= TopHealth /\ (p.alive => p.health > 0 /\ p.online)

Whole(p) == p \in Body /\ Lives(p)

\* Who lives has no more health than its own maximum.
Within(p) == p.alive => p.health <= GetMaxHealth(p)

\* The inductive invariant.
VitalsInv ==
  /\ client \in [Clients -> Body]
  /\ hbonus_enable \in BOOLEAN /\ stealth_enable \in BOOLEAN /\ lowered \subseteq Clients
  /\ \A c \in Clients : Lives(client[c]) /\ (c \in lowered \/ Within(client[c]))

-----------------------------------------------------------------------------
(* Numbers.                                                                *)

LEMMA Maxima ==
  /\ BaseHealth \in Nat \ {0} /\ HBONUS_INC \in Nat /\ MaxBonus \in Nat /\ Word \in Nat
  /\ TopHealth \in Nat /\ BaseHealth <= TopHealth /\ TopHealth < Word
  /\ \A p \in Body : GetMaxHealth(p) \in Nat /\ BaseHealth <= GetMaxHealth(p)
                     /\ GetMaxHealth(p) <= TopHealth
<1>1. BaseHealth \in Nat \ {0} /\ HBONUS_INC \in Nat /\ MaxBonus \in Nat /\ Word \in Nat
  BY VitalsConstants
<1>2. HBONUS_INC * MaxBonus \in Nat
  BY <1>1
<1>3. TopHealth \in Nat /\ BaseHealth <= TopHealth
  BY <1>1, <1>2 DEF TopHealth
<1>4. TopHealth < Word
  BY <1>1, <1>3, NothingWraps
<1>5. ASSUME NEW p \in Body
      PROVE  GetMaxHealth(p) \in Nat /\ BaseHealth <= GetMaxHealth(p) /\ GetMaxHealth(p) <= TopHealth
  <2>1. p.hbonus \in Nat /\ p.hbonus <= MaxBonus
    BY <1>1 DEF Body
  <2>2. HBONUS_INC * p.hbonus \in Nat /\ HBONUS_INC * p.hbonus <= HBONUS_INC * MaxBonus
    BY <1>1, <2>1
  <2> QED BY <1>1, <1>2, <2>2 DEF GetMaxHealth, TopHealth
<1> QED BY <1>1, <1>3, <1>4, <1>5

LEMMA UnsignedFacts ==
  /\ \A n \in Int : Unsigned(n) \in Nat
  /\ \A n \in Nat : n < Word => Unsigned(n) = n
<1>1. Word \in Nat /\ Word > 0
  BY Maxima
<1>2. ASSUME NEW n \in Int PROVE n % Word \in Nat
  BY <1>1
<1>3. ASSUME NEW n \in Nat, n < Word PROVE n % Word = n
  BY <1>1, <1>3
<1> QED BY <1>2, <1>3 DEF Unsigned

LEMMA AlphaType == \A p \in Body : Alpha(p) \in 0..Opaque
<1> SUFFICES ASSUME NEW p \in Body PROVE Alpha(p) \in 0..Opaque
  OBVIOUS
<1>1. p.stealth \in Nat /\ p.stealth <= MaxStealth /\ MaxStealth \in Nat /\ STEALTH_INC \in Nat
      /\ Opaque \in Nat /\ MaxStealth * STEALTH_INC <= Opaque
  BY VitalsConstants DEF Body
<1>2. p.stealth * STEALTH_INC \in Nat /\ p.stealth * STEALTH_INC <= MaxStealth * STEALTH_INC
  BY <1>1
<1>3. MaxStealth * STEALTH_INC \in Nat
  BY <1>1
<1> QED BY <1>1, <1>2, <1>3 DEF Alpha

\* Floor of damage * level * VAMP_INC + 0.5 is a number of points.
LEMMA GainType ==
  ASSUME NEW damage \in Nat, NEW lvl \in Nat
  PROVE  VampGain(damage, lvl) \in Nat
<1>1. damage * lvl \in Nat /\ VAMP_INC \in Nat
  BY VitalsConstants
<1>2. damage * lvl * VAMP_INC \in Nat
  BY <1>1
<1> QED BY <1>2 DEF VampGain

-----------------------------------------------------------------------------
(* What may happen to a body.                                              *)

\* q is p with another health and armour ...
Changed(p, q) ==
  q.online = p.online /\ q.alive = p.alive /\ q.alpha = p.alpha /\ q.hbonus = p.hbonus
  /\ q.stealth = p.stealth

\* ... and has been treated: it is whole, and within its maximum if p was ...
Treated(p, q) == Whole(q) /\ Changed(p, q) /\ (Within(p) => Within(q))

\* ... which did not hurt.
Healed(p, q) == Treated(p, q) /\ (p.alive /\ Within(p) => p.health <= q.health)

LEMMA HealthSet ==
  ASSUME NEW p \in Body, NEW h \in Int
  PROVE  /\ [p EXCEPT !.health = h] \in Body /\ [p EXCEPT !.health = h].health = h
         /\ Changed(p, [p EXCEPT !.health = h])
BY DEF Body, Changed

LEMMA ArmorSet ==
  ASSUME NEW p \in Body, NEW a \in 0..FullArmor
  PROVE  /\ [p EXCEPT !.armor = a] \in Body /\ [p EXCEPT !.armor = a].health = p.health
         /\ Changed(p, [p EXCEPT !.armor = a])
BY DEF Body, Changed

LEMMA HealedSelf == \A p : Whole(p) => Healed(p, p)
BY DEF Healed, Treated, Whole, Changed, Within, Body, Lives

LEMMA HealedSince ==
  ASSUME NEW p, NEW q, NEW r, Whole(p), Healed(p, q), Healed(q, r)
  PROVE  Healed(p, r)
BY DEF Healed, Treated, Whole, Changed, Within, Body, Lives

\* The health is set to h, which is within the maximum.
LEMMA TreatedTo ==
  ASSUME NEW p, Whole(p), NEW h \in Int, h <= GetMaxHealth(p), p.alive => h > 0
  PROVE  /\ Treated(p, [p EXCEPT !.health = h])
         /\ (p.alive /\ Within(p) => p.health <= h) => Healed(p, [p EXCEPT !.health = h])
<1> DEFINE q == [p EXCEPT !.health = h]
<1>1. q \in Body /\ q.health = h /\ Changed(p, q)
  BY HealthSet DEF Whole
<1> HIDE DEF q
<1>2. GetMaxHealth(q) = GetMaxHealth(p)
  BY <1>1 DEF GetMaxHealth, Changed
<1>3. GetMaxHealth(p) <= TopHealth /\ GetMaxHealth(p) \in Nat /\ TopHealth \in Nat
  BY Maxima DEF Whole
<1>4. Lives(q)
  BY <1>1, <1>3 DEF Lives, Whole, Changed
<1>5. Within(q)
  BY <1>1, <1>2 DEF Within
<1> QED BY <1>1, <1>4, <1>5 DEF Treated, Healed, Whole, q

LEMMA Numbers ==
  ASSUME NEW p, Whole(p)
  PROVE  /\ p \in Body /\ p.health \in Int /\ GetMaxHealth(p) \in Nat
         /\ BaseHealth \in Nat \ {0} /\ BaseHealth <= GetMaxHealth(p)
         /\ p.alive => p.health \in Nat /\ p.health > 0 /\ p.health <= TopHealth
                       /\ Unsigned(p.health) = p.health
<1>1. p \in Body /\ p.health \in Int
  BY DEF Whole, Body
<1>2. TopHealth \in Nat /\ TopHealth < Word /\ Word \in Nat
  BY Maxima
<1> QED BY <1>1, <1>2, Maxima, UnsignedFacts DEF Whole, Lives

LEMMA RegeneratedHeals ==
  ASSUME NEW p, Whole(p), NEW lvl \in Levels
  PROVE  /\ Treated(p, Regenerated(p, lvl))
         /\ hbonus_enable => Healed(p, Regenerated(p, lvl))
<1> DEFINE max == IF hbonus_enable THEN GetMaxHealth(p) ELSE BaseHealth
           sum == Unsigned(p.health + lvl)
           h == IF sum > max THEN max ELSE sum
<1>1. CASE lvl = 0
  BY <1>1, HealedSelf DEF Regenerated, Healed
<1>2. CASE lvl # 0
  <2>1. Regenerated(p, lvl) = [p EXCEPT !.health = h]
    BY <1>2 DEF Regenerated
  <2>2. lvl \in Nat /\ TopHealth + lvl < Word /\ TopHealth \in Nat /\ Word \in Nat
    BY VitalsConstants, NothingWraps, Maxima
  <2>3. p.health + lvl \in Int
    BY <2>2, Numbers
  <2>4. sum \in Nat
    BY <2>3, UnsignedFacts
  <2>5. p.alive => sum = p.health + lvl
    BY <2>2, Numbers, UnsignedFacts
  <2>6. max \in Nat /\ max > 0 /\ max <= GetMaxHealth(p)
    BY Numbers
  <2> HIDE DEF sum, max
  <2>7. h \in Int /\ h <= GetMaxHealth(p) /\ (p.alive => h > 0)
    BY <2>2, <2>4, <2>5, <2>6, Numbers
  <2>8. hbonus_enable => (p.alive /\ Within(p) => p.health <= h)
    BY <2>2, <2>4, <2>5, <2>6, Numbers DEF Within, max
  <2> HIDE DEF h
  <2> QED BY <2>1, <2>7, <2>8, TreatedTo
<1> QED BY <1>1, <1>2

LEMMA TendedHeals ==
  ASSUME NEW p, Whole(p), NEW lvl \in Levels
  PROVE  Healed(p, Tended(p, lvl))
<1>1. lvl * MEDIC_INC \in Nat /\ ArmorStep \in Nat /\ FullArmor \in Nat
  BY VitalsConstants
<1>2. CASE Unsigned(p.health) < GetMaxHealth(p)
  <2> DEFINE h == Less(p.health + lvl * MEDIC_INC, GetMaxHealth(p))
  <2>1. Tended(p, lvl) = [p EXCEPT !.health = h]
    BY <1>2 DEF Tended
  <2>2. h \in Int /\ h <= GetMaxHealth(p) /\ (p.alive => h > 0)
        /\ (p.alive /\ Within(p) => p.health <= h)
    BY <1>1, Numbers DEF Less, Within
  <2> HIDE DEF h
  <2> QED BY <2>1, <2>2, TreatedTo
<1>3. CASE ~(Unsigned(p.health) < GetMaxHealth(p))
  <2> DEFINE a == Less(p.armor + Less(lvl * MEDIC_INC, ArmorStep), FullArmor)
  <2>1. Tended(p, lvl) = [p EXCEPT !.armor = a]
    BY <1>3 DEF Tended
  <2>2. a \in 0..FullArmor
    <3>1. p.armor \in 0..FullArmor
      BY DEF Whole, Body
    <3> QED BY <1>1, <3>1 DEF Less
  <2> HIDE DEF a
  <2> DEFINE q == [p EXCEPT !.armor = a]
  <2>3. q \in Body /\ q.health = p.health /\ Changed(p, q)
    BY <2>2, ArmorSet DEF Whole
  <2> HIDE DEF q
  <2>4. Healed(p, q)
    BY <2>3 DEF Healed, Treated, Whole, Lives, Within, GetMaxHealth, Changed, Body
  <2> QED BY <2>1, <2>4 DEF q
<1> QED BY <1>2, <1>3

LEMMA FedTreats ==
  ASSUME NEW p, Whole(p), NEW hp \in Nat, TopHealth + hp < Word
  PROVE  Treated(p, Fed(p, hp))
<1> DEFINE max == IF hbonus_enable THEN GetMaxHealth(p) ELSE BaseHealth
           new == Unsigned(p.health + hp)
           h == IF new <= max THEN new ELSE max
<1>1. CASE hbonus_enable /\ Unsigned(p.health) >= max
  BY <1>1, HealedSelf DEF Fed, Healed
<1>2. CASE ~(hbonus_enable /\ Unsigned(p.health) >= max)
  <2>1. Fed(p, hp) = [p EXCEPT !.health = h]
    BY <1>2 DEF Fed
  <2>2. TopHealth \in Nat /\ Word \in Nat
    BY Maxima
  <2>3. p.health + hp \in Int
    BY Numbers
  <2>4. new \in Nat
    BY <2>3, UnsignedFacts
  <2>5. p.alive => new = p.health + hp
    BY <2>2, Numbers, UnsignedFacts
  <2>6. max \in Nat /\ max > 0 /\ max <= GetMaxHealth(p)
    BY Numbers
  <2> HIDE DEF new, max
  <2>7. h \in Int /\ h <= GetMaxHealth(p) /\ (p.alive => h > 0)
    BY <2>2, <2>4, <2>5, <2>6, Numbers
  <2> HIDE DEF h
  <2> QED BY <2>1, <2>7, TreatedTo
<1> QED BY <1>1, <1>2

-----------------------------------------------------------------------------
(* The loop over the medics.                                               *)

\* One medic after the other heals: what the loop computes is a recursive function,
\* each value of which is p healed.
LEMMA TendedByAllHeals ==
  ASSUME NEW c \in Clients, Whole(client[c]), NEW medics \in SUBSET Clients,
         NEW lvl \in [Clients -> Levels]
  PROVE  Healed(client[c], TendedByAll(c, medics, lvl))
<1> DEFINE p == client[c]
           V == {q \in Body : Healed(p, q)}
           medic(n) == MaxClients + 1 - n
           next == [n \in 0..MaxClients |-> [q \in V |->
                      IF medic(n) \in medics /\ lvl[medic(n)] > 0
                      THEN Tended(q, lvl[medic(n)]) ELSE q]]
           after[n \in 0..MaxClients] ==
             IF n = 0 THEN client[c]
             ELSE LET m == MaxClients + 1 - n
                  IN IF m \in medics /\ lvl[m] > 0 THEN Tended(after[n - 1], lvl[m])
                                                   ELSE after[n - 1]
<1>1. 0 \in Int /\ MaxClients \in Int /\ 0 <= MaxClients
  BY VitalsConstants
<1>2. p \in V
  BY HealedSelf DEF Whole
<1>3. \A q \in V : Whole(q) /\ Healed(p, q)
  BY DEF Healed, Treated
<1>4. ASSUME NEW q \in V, NEW l \in Levels PROVE Tended(q, l) \in V
  <2>1. Healed(q, Tended(q, l))
    BY <1>3, TendedHeals
  <2>2. Healed(p, Tended(q, l))
    BY <1>3, <2>1, HealedSince
  <2> QED BY <2>2 DEF Healed, Treated, Whole
<1>5. \A m \in medics : m \in Clients /\ lvl[m] \in Levels
  OBVIOUS
<1> HIDE DEF V
<1>6. next \in [0..MaxClients -> [V -> V]]
  BY <1>4, <1>5
<1>7. \A n \in 0..MaxClients, q \in V :
        next[n][q] = IF medic(n) \in medics /\ lvl[medic(n)] > 0
                     THEN Tended(q, lvl[medic(n)]) ELSE q
  OBVIOUS
<1> HIDE DEF next
<1>8. PICK f : Follows(f, 0, MaxClients, V, p, next)
  BY <1>1, <1>2, <1>6, RecursiveFunction
<1>9. f \in [0..MaxClients -> V]
  BY <1>8 DEF Follows
<1>10. f[0] = p
  BY <1>1, <1>8 DEF Follows
<1>11. \A n \in 1..MaxClients : f[n] = next[n][f[n - 1]]
  BY <1>8 DEF Follows
<1>12. f = [n \in 0..MaxClients |->
              IF n = 0 THEN client[c]
              ELSE LET m == MaxClients + 1 - n
                   IN IF m \in medics /\ lvl[m] > 0 THEN Tended(f[n - 1], lvl[m]) ELSE f[n - 1]]
  <2>1. ASSUME NEW n \in 0..MaxClients, n # 0
        PROVE  f[n] = IF medic(n) \in medics /\ lvl[medic(n)] > 0
                      THEN Tended(f[n - 1], lvl[medic(n)]) ELSE f[n - 1]
    <3>1. n \in 1..MaxClients /\ n - 1 \in 0..MaxClients
      BY <1>1, <2>1
    <3> QED BY <1>7, <1>9, <1>11, <2>1, <3>1
  <2> QED BY <1>9, <1>10, <2>1
<1>13. after = [n \in 0..MaxClients |->
              IF n = 0 THEN client[c]
              ELSE LET m == MaxClients + 1 - n
                   IN IF m \in medics /\ lvl[m] > 0 THEN Tended(after[n - 1], lvl[m])
                                                    ELSE after[n - 1]]
  BY <1>12, Zenon
<1>14. TendedByAll(c, medics, lvl) = after[MaxClients]
  BY DEF TendedByAll
<1> HIDE DEF after
<1>15. after[0] = p
  BY <1>1, <1>13
<1>16. \A n \in (0 + 1)..MaxClients : after[n - 1] \in V => after[n] = next[n][after[n - 1]]
  <2> TAKE n \in (0 + 1)..MaxClients
  <2>1. n \in 0..MaxClients /\ n # 0 /\ n \in 1..MaxClients
    BY <1>1
  <2>2. after[n] = IF medic(n) \in medics /\ lvl[medic(n)] > 0
                   THEN Tended(after[n - 1], lvl[medic(n)]) ELSE after[n - 1]
    BY <1>13, <2>1
  <2> QED BY <1>7, <2>1, <2>2
<1>17. \A n \in 0..MaxClients : after[n] = f[n] /\ after[n] \in V
  BY <1>1, <1>8, <1>15, <1>16, FollowsOnly
<1>18. after[MaxClients] \in V
  BY <1>1, <1>17
<1> QED BY <1>3, <1>14, <1>18
-----------------------------------------------------------------------------
(* Trading.                                                                *)

LEMMA ShownKeeps ==
  ASSUME NEW p, Whole(p)
  PROVE  Whole(Shown(p)) /\ (Within(p) => Within(Shown(p)))
<1>1. p \in Body /\ Alpha(p) \in 0..Opaque
  BY AlphaType DEF Whole
<1> DEFINE a == Alpha(p)
           q == [p EXCEPT !.alpha = a]
<1>2. a \in 0..Opaque
  BY <1>1
<1> HIDE DEF a
<1>3. q \in Body /\ q.health = p.health /\ q.alive = p.alive /\ q.online = p.online
      /\ q.hbonus = p.hbonus
  BY <1>1, <1>2 DEF Body
<1> HIDE DEF q
<1>4. Whole(q) /\ (Within(p) => Within(q))
  BY <1>3 DEF Whole, Lives, Within, GetMaxHealth
<1> QED BY <1>4 DEF Shown, q, a

\* With other levels a body is whole; with a higher one of HBonus it is within its maximum.
LEMMA LevelsSet ==
  ASSUME NEW p, Whole(p), NEW hb \in 0..MaxBonus, NEW st \in 0..MaxStealth
  PROVE  LET q == [p EXCEPT !.hbonus = hb, !.stealth = st]
         IN Whole(q) /\ q.hbonus = hb /\ (p.hbonus <= hb /\ Within(p) => Within(q))
<1> DEFINE q == [p EXCEPT !.hbonus = hb, !.stealth = st]
<1>1. p \in Body /\ p.hbonus \in Nat /\ p.health \in Int
  BY DEF Whole, Body
<1>2. q \in Body /\ q.health = p.health /\ q.alive = p.alive /\ q.online = p.online /\ q.hbonus = hb
  BY <1>1 DEF Body
<1> HIDE DEF q
<1>3. hb \in Nat /\ BaseHealth \in Nat /\ HBONUS_INC \in Nat
  BY Maxima
<1>4. p.hbonus <= hb => HBONUS_INC * p.hbonus <= HBONUS_INC * hb
  BY <1>1, <1>3
<1>5. HBONUS_INC * p.hbonus \in Nat /\ HBONUS_INC * hb \in Nat
  BY <1>1, <1>3
<1>6. p.hbonus <= hb /\ Within(p) => Within(q)
  BY <1>1, <1>2, <1>3, <1>4, <1>5 DEF Within, GetMaxHealth
<1> QED BY <1>2, <1>6 DEF Whole, Lives, q

LEMMA BoughtKeeps ==
  ASSUME NEW p, Whole(p)
  PROVE  Whole(HBonusBought(p)) /\ (Within(p) => Within(HBonusBought(p)))
<1>1. GetMaxHealth(p) \in Int /\ GetMaxHealth(p) > 0 /\ GetMaxHealth(p) <= GetMaxHealth(p)
  BY Numbers
<1> QED BY <1>1, TreatedTo DEF HBonusBought, Treated

LEMMA SoldKeeps ==
  ASSUME NEW p, Whole(p)
  PROVE  Whole(HBonusSold(p)) /\ Within(HBonusSold(p))
<1>1. GetMaxHealth(p) \in Int /\ GetMaxHealth(p) > 0 /\ GetMaxHealth(p) <= GetMaxHealth(p)
  BY Numbers
<1>2. CASE Unsigned(p.health) > GetMaxHealth(p)
  <2> DEFINE q == [p EXCEPT !.health = GetMaxHealth(p)]
  <2>1. Treated(p, q) /\ q.health = GetMaxHealth(p)
    BY <1>1, TreatedTo, HealthSet DEF Whole
  <2>2. HBonusSold(p) = q
    BY <1>2 DEF HBonusSold
  <2> HIDE DEF q
  <2>3. GetMaxHealth(q) = GetMaxHealth(p)
    BY <2>1 DEF Treated, Changed, GetMaxHealth
  <2> QED BY <1>1, <2>1, <2>2, <2>3 DEF Treated, Within
<1>3. CASE ~(Unsigned(p.health) > GetMaxHealth(p))
  <2>1. p.alive => p.health <= GetMaxHealth(p)
    BY <1>1, <1>3, Numbers
  <2> QED BY <1>3, <2>1 DEF HBonusSold, Within
<1> QED BY <1>2, <1>3

-----------------------------------------------------------------------------
(* The steps.                                                              *)

\* The body of one client becomes q.
LEMMA OneChanges ==
  ASSUME VitalsInv, NEW c \in Clients, NEW q, Whole(q), client' = [client EXCEPT ![c] = q],
         lowered' \subseteq Clients, lowered \ {c} \subseteq lowered',
         c \in lowered' \/ Within(q), UNCHANGED settings
  PROVE  VitalsInv'
<1>1. client' \in [Clients -> Body] /\ \A d \in Clients : client'[d] = IF d = c THEN q ELSE client[d]
  BY DEF VitalsInv, Whole
<1>2. UNCHANGED <<hbonus_enable, stealth_enable>>
  BY DEF settings
<1>3. ASSUME NEW d \in Clients PROVE Lives(client'[d]) /\ (d \in lowered' \/ Within(client'[d]))
  BY <1>1 DEF VitalsInv, Whole
<1> QED BY <1>1, <1>2, <1>3 DEF VitalsInv

\* The bodies of all are treated.
LEMMA AllTreated ==
  ASSUME VitalsInv, NEW f, client' = [c \in Clients |-> f[c]],
         \A c \in Clients : Whole(f[c]) /\ (Within(client[c]) => Within(f[c])),
         UNCHANGED <<settings, lowered>>
  PROVE  VitalsInv'
<1>1. client' \in [Clients -> Body] /\ \A d \in Clients : client'[d] = f[d]
  BY DEF Whole
<1>2. UNCHANGED <<hbonus_enable, stealth_enable, lowered>>
  BY DEF settings
<1>3. ASSUME NEW d \in Clients PROVE Lives(client'[d]) /\ (d \in lowered' \/ Within(client'[d]))
  BY <1>1, <1>2 DEF VitalsInv, Whole
<1> QED BY <1>1, <1>2, <1>3 DEF VitalsInv

LEMMA WholeOne == ASSUME VitalsInv, NEW c \in Clients
                  PROVE  Whole(client[c]) /\ (c \in lowered \/ Within(client[c]))
BY DEF VitalsInv, Whole

LEMMA TradeStep ==
  ASSUME VitalsInv, NEW c \in Clients, Trade(c)
  PROVE  VitalsInv'
<1> DEFINE p == client[c]
<1>1. Whole(p) /\ (c \in lowered \/ Within(p)) /\ lowered \subseteq Clients
  BY WholeOne DEF VitalsInv
<1>2. p \in Body /\ p.hbonus \in 0..MaxBonus /\ p.stealth \in 0..MaxStealth /\ MaxBonus \in Nat
      /\ MaxStealth \in Nat
  BY <1>1, VitalsConstants DEF Whole, Body
<1> DEFINE With(hb, st) == [p EXCEPT !.hbonus = hb, !.stealth = st]
<1>3. ASSUME NEW hb \in 0..MaxBonus
      PROVE  [p EXCEPT !.hbonus = hb] = With(hb, p.stealth)
  BY <1>2 DEF Body
<1>4. ASSUME NEW st \in 0..MaxStealth
      PROVE  [p EXCEPT !.stealth = st] = With(p.hbonus, st)
  BY <1>2 DEF Body
<1>5. \A hb \in 0..MaxBonus, st \in 0..MaxStealth :
        Whole(With(hb, st)) /\ (p.hbonus <= hb /\ Within(p) => Within(With(hb, st)))
  BY <1>1, LevelsSet
<1> HIDE DEF With
<1>6. CASE BuyHBonus(c)
  <2>1. p.hbonus + 1 \in 0..MaxBonus /\ p.hbonus <= p.hbonus + 1
    BY <1>2, <1>6 DEF BuyHBonus
  <2> DEFINE q == With(p.hbonus + 1, p.stealth)
  <2>2. client' = [client EXCEPT ![c] = HBonusBought(q)] /\ UNCHANGED <<settings, lowered>>
    BY <1>3, <1>6, <2>1 DEF BuyHBonus
  <2>3. Whole(q) /\ (Within(p) => Within(q))
    BY <1>2, <1>5, <2>1
  <2> HIDE DEF q
  <2>4. Whole(HBonusBought(q)) /\ (Within(p) => Within(HBonusBought(q)))
    BY <2>3, BoughtKeeps
  <2> QED BY <1>1, <2>2, <2>4, OneChanges
<1>7. CASE SellHBonus(c)
  <2>1. p.hbonus - 1 \in 0..MaxBonus
    BY <1>2, <1>7 DEF SellHBonus
  <2> DEFINE q == With(p.hbonus - 1, p.stealth)
  <2>2. client' = [client EXCEPT ![c] = HBonusSold(q)] /\ UNCHANGED <<settings, lowered>>
    BY <1>3, <1>7, <2>1 DEF SellHBonus
  <2>3. Whole(q)
    BY <1>2, <1>5, <2>1
  <2> HIDE DEF q
  <2> QED BY <1>1, <2>2, <2>3, SoldKeeps, OneChanges
<1>8. CASE ResetStats(c)
  <2>1. 0 \in 0..MaxBonus /\ 0 \in 0..MaxStealth
    BY <1>2
  <2> DEFINE q == With(0, 0)
             reset == Shown(q)
             r == IF hbonus_enable THEN HBonusSold(reset) ELSE reset
  <2>2. client' = [client EXCEPT ![c] = r]
    BY <1>8 DEF ResetStats, With
  <2>3. Whole(q)
    BY <1>5, <2>1
  <2> HIDE DEF q
  <2>4. Whole(reset)
    BY <2>3, ShownKeeps
  <2> HIDE DEF reset
  <2>5. Whole(r) /\ (hbonus_enable => Within(r))
    BY <2>4, SoldKeeps
  <2>6. UNCHANGED settings /\ lowered' = (IF hbonus_enable THEN lowered ELSE lowered \cup {c})
    BY <1>8 DEF ResetStats
  <2> HIDE DEF r
  <2> QED BY <1>1, <2>2, <2>5, <2>6, OneChanges
<1>9. ASSUME NEW lvl \in 0..MaxStealth, SetStealth(c, lvl) PROVE VitalsInv'
  <2> DEFINE q == With(p.hbonus, lvl)
  <2>1. client' = [client EXCEPT ![c] = Shown(q)] /\ UNCHANGED <<settings, lowered>>
    BY <1>4, <1>9 DEF SetStealth
  <2>2. Whole(q) /\ (Within(p) => Within(q))
    BY <1>2, <1>5
  <2> HIDE DEF q
  <2>3. Whole(Shown(q)) /\ (Within(p) => Within(Shown(q)))
    BY <2>2, ShownKeeps
  <2> QED BY <1>1, <2>1, <2>3, OneChanges
<1> QED BY <1>6, <1>7, <1>8, <1>9 DEF Trade
LEMMA HitKeeps ==
  ASSUME NEW p, Whole(p), p.alive, NEW dmg \in Damages,
         NEW armor \in Damages \cup {0}, NEW limited \in BOOLEAN
  PROVE  Whole(Hit(p, dmg, armor, limited)) /\ (Within(p) => Within(Hit(p, dmg, armor, limited)))
<1> DEFINE left == HealthLeft(p.health - dmg, dmg, limited)
           a == IF p.armor > armor THEN p.armor - armor ELSE 0
           q == [p EXCEPT !.health = left, !.alive = left > 0, !.armor = a]
<1>1. dmg \in Nat /\ armor \in Nat /\ icestab_lmtdmg \in Nat /\ FullArmor \in Nat
  BY VitalsConstants
<1>2. p \in Body /\ p.health \in Int /\ p.armor \in 0..FullArmor /\ p.online
  BY DEF Whole, Body, Lives
<1>3. left \in Int /\ left <= p.health
  BY <1>1, <1>2 DEF HealthLeft, DamageThatCounts
<1>4. a \in 0..FullArmor
  BY <1>1, <1>2
<1>5. Hit(p, dmg, armor, limited) = q
  BY <1>2 DEF Hit
<1> HIDE DEF left, a
<1>6. (left > 0) \in BOOLEAN
  OBVIOUS
<1>7. q \in Body /\ q.health = left /\ q.online = p.online /\ q.hbonus = p.hbonus
      /\ (q.alive => left > 0)
  BY <1>2, <1>3, <1>4, <1>6 DEF Body
<1> HIDE DEF q
<1>8. GetMaxHealth(q) = GetMaxHealth(p) /\ GetMaxHealth(p) \in Nat /\ TopHealth \in Nat
  BY <1>2, <1>7, Maxima DEF GetMaxHealth
<1>9. p.health <= TopHealth /\ (Within(p) => p.health <= GetMaxHealth(p))
  BY DEF Whole, Lives, Within
<1>10. Lives(q) /\ (Within(p) => Within(q))
  BY <1>2, <1>3, <1>7, <1>8, <1>9 DEF Lives, Within
<1> QED BY <1>5, <1>7, <1>10 DEF Whole

\* What an attacker gains is small enough (NothingWraps).
LEMMA BittenTreats ==
  ASSUME NEW p, Whole(p), NEW dmg \in Damages, NEW armor \in Damages, NEW limited \in BOOLEAN,
         NEW lvl \in Levels
  PROVE  Treated(p, Bitten(p, DamageThatCounts(dmg, limited) + armor, lvl))
<1> DEFINE damage == DamageThatCounts(dmg, limited) + armor
<1>1. DamageThatCounts(dmg, limited) \in Damages \cup {icestab_lmtdmg}
  BY DEF DamageThatCounts
<1>2. damage \in Nat /\ lvl \in Nat
  <2>1. DamageThatCounts(dmg, limited) \in Nat
    BY <1>1, VitalsConstants
  <2> QED BY <2>1, VitalsConstants
<1>3. TopHealth + VampGain(damage, lvl) < Word
  BY <1>1, NothingWraps
<1> HIDE DEF damage
<1>4. VampGain(damage, lvl) \in Nat
  BY <1>2, GainType
<1>5. Treated(p, Fed(p, VampGain(damage, lvl)))
  BY <1>3, <1>4, FedTreats
<1> QED BY <1>5, HealedSelf DEF Bitten, Healed, damage

LEMMA FightStep ==
  ASSUME VitalsInv, NEW v \in Clients, Fight(v)
  PROVE  VitalsInv'
<1>1. Whole(client[v]) /\ (v \in lowered \/ Within(client[v])) /\ lowered \subseteq Clients
  BY WholeOne DEF VitalsInv
<1>2. ASSUME NEW dmg \in Damages, WorldHurt(v, dmg) PROVE VitalsInv'
  <2>1. client[v].alive
    BY <1>2 DEF WorldHurt, Alive
  <2> DEFINE q == Hit(client[v], dmg, 0, FALSE)
  <2>2. Whole(q) /\ (Within(client[v]) => Within(q))
    BY <1>1, <2>1, HitKeeps
  <2>3. client' = [client EXCEPT ![v] = q] /\ UNCHANGED <<settings, lowered>>
    BY <1>2 DEF WorldHurt
  <2> HIDE DEF q
  <2> QED BY <1>1, <2>2, <2>3, OneChanges
<1>3. ASSUME NEW a \in Clients, NEW dmg \in Damages, NEW armor \in Damages,
             NEW limited \in BOOLEAN, NEW lvl \in Levels,
             PlayerHurt(a, v, dmg, armor, limited, lvl)
      PROVE  VitalsInv'
  <2>1. a # v /\ client[v].alive
    BY <1>3 DEF PlayerHurt, Alive
  <2> DEFINE q == Hit(client[v], dmg, armor, limited)
             r == Bitten(client[a], DamageThatCounts(dmg, limited) + armor, lvl)
             f == [c \in Clients |-> IF c = v THEN q ELSE IF c = a THEN r ELSE client[c]]
  <2>2. Whole(q) /\ (Within(client[v]) => Within(q))
    BY <1>1, <2>1, HitKeeps
  <2>3. Whole(r) /\ (Within(client[a]) => Within(r))
    BY WholeOne, BittenTreats DEF Treated
  <2>4. client' = [client EXCEPT ![v] = q, ![a] = r] /\ UNCHANGED <<settings, lowered>>
    BY <1>3, <2>1 DEF PlayerHurt, VitalsInv
  <2> HIDE DEF q, r
  <2>5. client' = [c \in Clients |-> f[c]]
    BY <2>1, <2>4 DEF VitalsInv
  <2>6. \A c \in Clients : Whole(f[c]) /\ (Within(client[c]) => Within(f[c]))
    BY <2>2, <2>3, WholeOne
  <2> HIDE DEF f
  <2> QED BY <2>4, <2>5, <2>6, AllTreated
<1> QED BY <1>2, <1>3 DEF Fight

LEMMA RegenStep ==
  ASSUME VitalsInv, Regen
  PROVE  /\ VitalsInv'
         /\ hbonus_enable => \A c \in Clients : Alive(c) /\ c \notin lowered
                                                 => client[c].health <= client'[c].health
<1>1. PICK lvl \in [Clients -> Levels] :
        client' = [c \in Clients |-> IF Online(c) THEN Regenerated(client[c], lvl[c]) ELSE client[c]]
  BY DEF Regen
<1> DEFINE f == [c \in Clients |-> IF Online(c) THEN Regenerated(client[c], lvl[c]) ELSE client[c]]
<1>2. ASSUME NEW c \in Clients
      PROVE  Treated(client[c], f[c]) /\ (hbonus_enable => Healed(client[c], f[c]))
  BY WholeOne, RegeneratedHeals, HealedSelf DEF Healed
<1>3. client' = [c \in Clients |-> f[c]] /\ UNCHANGED <<settings, lowered>>
  BY <1>1 DEF Regen
<1> HIDE DEF f
<1>4. VitalsInv'
  BY <1>2, <1>3, AllTreated DEF Treated
<1> QED BY <1>2, <1>3, <1>4, WholeOne DEF Healed, Alive

LEMMA MedicStep ==
  ASSUME VitalsInv, Medic
  PROVE  /\ VitalsInv'
         /\ \A c \in Clients : Alive(c) /\ c \notin lowered => client[c].health <= client'[c].health
<1>1. PICK lvl \in [Clients -> Levels],
           close \in SUBSET {pair \in SUBSET {c \in Clients : Alive(c)} : Cardinality(pair) = 2} :
        client' = [c \in Clients |->
          IF Alive(c) THEN TendedByAll(c, {m \in Clients : {c, m} \in close}, lvl) ELSE client[c]]
  BY DEF Medic
<1> DEFINE f == [c \in Clients |->
                   IF Alive(c) THEN TendedByAll(c, {m \in Clients : {c, m} \in close}, lvl)
                               ELSE client[c]]
<1>2. ASSUME NEW c \in Clients PROVE Healed(client[c], f[c])
  <2> DEFINE medics == {m \in Clients : {c, m} \in close}
  <2>1. medics \in SUBSET Clients
    OBVIOUS
  <2>2. f[c] = IF Alive(c) THEN TendedByAll(c, medics, lvl) ELSE client[c]
    OBVIOUS
  <2> HIDE DEF medics, f
  <2> QED BY <2>1, <2>2, WholeOne, TendedByAllHeals, HealedSelf
<1>3. client' = [c \in Clients |-> f[c]] /\ UNCHANGED <<settings, lowered>>
  BY <1>1 DEF Medic
<1> HIDE DEF f
<1>4. VitalsInv'
  BY <1>2, <1>3, AllTreated DEF Treated, Healed
<1> QED BY <1>2, <1>3, <1>4, WholeOne DEF Healed, Alive

LEMMA ClientStep ==
  ASSUME VitalsInv, NEW c \in Clients, Connect(c) \/ Disconnect(c) \/ PlayerSpawn(c)
  PROVE  VitalsInv'
<1> DEFINE p == client[c]
<1>1. Whole(p) /\ p \in Body /\ lowered \subseteq Clients
  BY WholeOne DEF VitalsInv, Whole
<1>2. TopHealth \in Nat /\ BaseHealth \in Nat \ {0} /\ BaseHealth <= TopHealth
  BY Maxima
<1>3. CASE Connect(c)
  <2>1. PICK hb \in 0..MaxBonus, st \in 0..MaxStealth :
          client' = [client EXCEPT ![c] = [p EXCEPT !.online = TRUE, !.hbonus = hb, !.stealth = st]]
    BY <1>3 DEF Connect, VitalsInv
  <2> DEFINE q == [p EXCEPT !.online = TRUE, !.hbonus = hb, !.stealth = st]
  <2>2. q \in Body /\ q.health = p.health /\ q.alive = p.alive
    BY <1>1 DEF Body
  <2>3. ~p.alive
    BY <1>1, <1>3 DEF Connect, Online, Whole, Lives
  <2>4. client' = [client EXCEPT ![c] = q]
    BY <2>1
  <2> HIDE DEF q
  <2>5. Whole(q) /\ Within(q)
    BY <1>1, <2>2, <2>3 DEF Whole, Lives, Within
  <2>6. UNCHANGED <<settings, lowered>>
    BY <1>3 DEF Connect
  <2> QED BY <1>1, <2>4, <2>5, <2>6, OneChanges
<1>4. CASE Disconnect(c)
  <2>1. Outside \in Body /\ ~Outside.alive /\ Outside.health = 0
    BY VitalsConstants DEF Outside, Body
  <2>2. Whole(Outside) /\ Within(Outside)
    BY <1>2, <2>1 DEF Whole, Lives, Within
  <2>3. client' = [client EXCEPT ![c] = Outside] /\ lowered' = lowered \ {c} /\ UNCHANGED settings
    BY <1>4 DEF Disconnect
  <2> QED BY <1>1, <2>2, <2>3, OneChanges
<1>5. CASE PlayerSpawn(c)
  <2> DEFINE fresh == [p EXCEPT !.alive = TRUE, !.health = BaseHealth, !.alpha = Opaque]
             h == IF hbonus_enable THEN GetMaxHealth(fresh) ELSE BaseHealth
             q == [fresh EXCEPT !.health = h]
             all == [client EXCEPT ![c] = q]
  <2>1. p.online
    BY <1>5 DEF PlayerSpawn, Online
  <2>2. fresh \in Body /\ fresh.alive /\ fresh.online /\ fresh.hbonus = p.hbonus
        /\ fresh.health = BaseHealth
    <3>1. BaseHealth \in Int /\ Opaque \in 0..Opaque
      BY VitalsConstants
    <3> QED BY <1>1, <2>1, <3>1 DEF Body
  <2> HIDE DEF fresh
  <2>3. h \in Int /\ h > 0 /\ h <= GetMaxHealth(fresh) /\ GetMaxHealth(fresh) <= TopHealth
    BY <1>2, <2>2, Maxima
  <2>4. SetSpawnHealth(fresh) = q
    <3>1. ~hbonus_enable => fresh = [fresh EXCEPT !.health = BaseHealth]
      BY <2>2 DEF Body
    <3> QED BY <3>1 DEF SetSpawnHealth
  <2>5. q \in Body /\ q.health = h /\ q.alive /\ q.online /\ q.hbonus = fresh.hbonus
    BY <2>2, <2>3 DEF Body
  <2> HIDE DEF q, h
  <2>6. Whole(q) /\ Within(q)
    BY <2>3, <2>5, Maxima DEF Whole, Lives, Within, GetMaxHealth
  <2>7. client' = SetVisibilities(all) /\ lowered' = lowered \ {c} /\ UNCHANGED settings
    BY <1>5, <2>4 DEF PlayerSpawn, fresh
  <2>8. all \in [Clients -> Body] /\ \A d \in Clients : all[d] = IF d = c THEN q ELSE client[d]
    BY <2>5 DEF VitalsInv
  <2>9. \A d \in Clients : Whole(all[d]) /\ (d \in lowered' \/ Within(all[d]))
    BY <2>6, <2>7, <2>8, WholeOne
  <2> HIDE DEF all
  <2>10. ASSUME NEW d \in Clients
         PROVE  Whole(client'[d]) /\ (d \in lowered' \/ Within(client'[d]))
    <3>1. client'[d] = IF stealth_enable /\ all[d].online THEN Shown(all[d]) ELSE all[d]
      BY <2>7 DEF SetVisibilities
    <3> QED BY <2>9, <3>1, ShownKeeps
  <2>11. client' \in [Clients -> Body]
    <3>1. client' = [d \in Clients |-> client'[d]]
      BY <2>7 DEF SetVisibilities
    <3> QED BY <2>10, <3>1 DEF Whole
  <2> QED BY <1>1, <2>7, <2>10, <2>11 DEF VitalsInv, Whole, settings
<1> QED BY <1>3, <1>4, <1>5

LEMMA VitalsInit == Init => VitalsInv
<1> SUFFICES ASSUME Init PROVE VitalsInv
  OBVIOUS
<1>1. Outside \in Body /\ ~Outside.alive /\ Outside.health = 0
  BY VitalsConstants DEF Outside, Body
<1>2. Lives(Outside) /\ Within(Outside)
  BY <1>1, Maxima DEF Lives, Within
<1> QED BY <1>1, <1>2 DEF Init, VitalsInv

LEMMA VitalsStep == VitalsInv /\ [Next]_vars => VitalsInv'
<1> SUFFICES ASSUME VitalsInv, [Next]_vars PROVE VitalsInv'
  OBVIOUS
<1>1. CASE UpdateVisibilities
  <2> DEFINE f == [c \in Clients |-> IF stealth_enable /\ client[c].online THEN Shown(client[c])
                                                                         ELSE client[c]]
  <2>1. client' = [c \in Clients |-> f[c]] /\ UNCHANGED <<settings, lowered>>
    BY <1>1 DEF UpdateVisibilities, SetVisibilities
  <2>2. \A c \in Clients : Whole(f[c]) /\ (Within(client[c]) => Within(f[c]))
    BY WholeOne, ShownKeeps
  <2> HIDE DEF f
  <2> QED BY <2>1, <2>2, AllTreated
<1>2. CASE SetHBonusEnable \/ SetStealthEnable
  BY <1>2 DEF SetHBonusEnable, SetStealthEnable, VitalsInv
<1>3. CASE UNCHANGED vars
  BY <1>3 DEF vars, VitalsInv
<1> QED BY <1>1, <1>2, <1>3, ClientStep, TradeStep, FightStep, RegenStep, MedicStep DEF Next

LEMMA VitalsAlways == Spec => []VitalsInv
<1> QED BY VitalsInit, VitalsStep, PTL DEF Spec

\* Health, armour and visibility stay in their ranges, and who lives has health: no
\* conversion between signed and unsigned numbers leaves the living without.
THEOREM VitalsTypes == Spec => []TypeOK
<1>1. VitalsInv => TypeOK
  <2> SUFFICES ASSUME VitalsInv PROVE TypeOK
    OBVIOUS
  <2>1. \A c \in Clients : client[c] \in Body /\ Lives(client[c])
    BY DEF VitalsInv
  <2> QED BY <2>1 DEF VitalsInv, TypeOK, Body, Lives
<1> QED BY <1>1, VitalsAlways, PTL

\* Nobody alive is healed beyond the maximum of its level of HBonus, whoever heals,
\* however many medics are near, and in whatever order levels change and HBonus is
\* switched; except who lost levels while it was off.
THEOREM HealthLimited == Spec => []HealthWithinMaximum
<1>1. VitalsInv => HealthWithinMaximum
  BY DEF VitalsInv, HealthWithinMaximum, Within, Alive
<1> QED BY <1>1, VitalsAlways, PTL

\* While HBonus is enabled Regen and Medic never take health from the living.
THEOREM HealingHeals == Spec => HealingNeverHurts
<1> DEFINE A == \A c \in Clients :
                  hbonus_enable /\ c \notin lowered /\ Alive(c) /\ (Regen \/ Medic)
                  => client'[c].health >= client[c].health
<1>1. VitalsInv /\ VitalsInv' => A
  <2> SUFFICES ASSUME VitalsInv, VitalsInv', NEW c \in Clients, hbonus_enable, c \notin lowered,
                      Alive(c), Regen \/ Medic
               PROVE  client'[c].health >= client[c].health
    OBVIOUS
  <2>1. client[c].health \in Int /\ client'[c].health \in Int
    BY DEF VitalsInv, Body
  <2>2. client[c].health <= client'[c].health
    BY RegenStep, MedicStep
  <2> QED BY <2>1, <2>2
<1> QED BY <1>1, VitalsAlways, PTL DEF Spec, HealingNeverHurts
==============================================================================

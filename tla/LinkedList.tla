------------------------------ MODULE LinkedList ------------------------------
(* The doubly linked list that most classes of the plugin inherit           *)
(* (CRPG_StaticLinkedList): the links are fields of the nodes, ll_first,    *)
(* ll_last and ll_count belong to the class.  A list is a record of all     *)
(* five; the operations are functions from lists to lists, pointer for      *)
(* pointer.                                                                 *)
EXTENDS Naturals, Sequences, FiniteSets

CONSTANTS Node, NULL

Lists == [next : [Node -> Node \cup {NULL}], prev : [Node -> Node \cup {NULL}],
          first : Node \cup {NULL}, last : Node \cup {NULL}, count : 0..Cardinality(Node)]

ll_init == [next |-> [n \in Node |-> NULL], prev |-> [n \in Node |-> NULL],
            first |-> NULL, last |-> NULL, count |-> 0]

ll_add(L, n) ==
  LET M == [L EXCEPT !.next[n] = NULL, !.prev[n] = IF L.first = NULL THEN NULL ELSE L.last,
                     !.last = n, !.count = @ + 1]
  IN IF L.first = NULL THEN [M EXCEPT !.first = n] ELSE [M EXCEPT !.next[L.last] = n]

\* Mutation: the node deleted is still counted.
NotDecremented(L) == L

Decremented(L) == [L EXCEPT !.count = @ - 1]

ll_del(L, n) ==
  LET p == L.prev[n]
      x == L.next[n]
      M == Decremented(L)
  IN IF x = NULL
     THEN IF p = NULL THEN [M EXCEPT !.first = NULL, !.last = NULL]
                      ELSE [M EXCEPT !.next[p] = NULL, !.last = p]
     ELSE IF p = NULL THEN [M EXCEPT !.first = x, !.prev[x] = NULL]
                      ELSE [M EXCEPT !.prev[x] = p, !.next[p] = x]

\* n's neighbours joined over it.
Unlinked(L, n) ==
  LET p == L.prev[n]
      x == L.next[n]
      M == IF p = NULL THEN L ELSE [L EXCEPT !.next[p] = x]
  IN IF x = NULL THEN M ELSE [M EXCEPT !.prev[x] = p]

\* ll_last is brought up to date only in a list of two.
ll_move_after(L, n, node) ==
  LET U == Unlinked(L, n)
      front == [U EXCEPT !.prev = [@ EXCEPT ![n] = NULL, ![U.first] = n],
                         !.next[n] = U.first,
                         !.last = IF U.next[U.first] = NULL THEN U.first ELSE @,
                         !.first = n]
      x == U.next[node]
      behind == [U EXCEPT !.prev[n] = node, !.next = [@ EXCEPT ![n] = x, ![node] = n]]
  IN IF n = node THEN L
     ELSE IF node = NULL THEN front
     ELSE IF x = NULL THEN behind ELSE [behind EXCEPT !.prev[x] = n]

\* One round of ll_sort: a node with a lower key than its predecessor changes places
\* with it, from the second to the last.
SortPass(L, key) ==
  LET walk[k \in 0..L.count] ==
        IF k = 0 THEN [list |-> L, ptr |-> L.next[L.first]]
        ELSE LET w == walk[k - 1]
                 p == w.list.prev[w.ptr]
             IN IF w.ptr = NULL THEN w
                ELSE [list |-> IF key[w.ptr] < key[p]
                               THEN ll_move_after(w.list, w.ptr, w.list.prev[p])
                               ELSE w.list,
                      ptr  |-> w.list.next[w.ptr]]
  IN walk[L.count].list

ll_sort(L, key) ==
  LET passed[k \in 0..L.count] == IF k = 0 THEN L ELSE SortPass(passed[k - 1], key)
  IN passed[L.count]

\* The nodes met on the way from ll_first along ll_next.
Forward(L) ==
  LET at[k \in 1..Cardinality(Node)] ==
        IF k = 1 THEN L.first
        ELSE IF at[k - 1] = NULL THEN NULL ELSE L.next[at[k - 1]]
  IN SubSeq(at, 1, Cardinality({k \in DOMAIN at : at[k] # NULL}))

\* L holds the nodes S, each once, and its back links lead the other way.
Holds(L, S) ==
  LET order == Forward(L)
  IN /\ {order[k] : k \in DOMAIN order} = S /\ Len(order) = Cardinality(S)
     /\ L.count = Len(order)
     /\ \A k \in DOMAIN order : /\ L.prev[order[k]] = IF k = 1 THEN NULL ELSE order[k - 1]
                                /\ k = Len(order) => L.next[order[k]] = NULL
=============================================================================

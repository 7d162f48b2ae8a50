------------------------------- MODULE Pqueue -------------------------------
(***************************************************************************)
(* The priority queue of libjtype (pqueue.c): a binary heap in an array,   *)
(* with the item of least key at its head.  A queue is the sequence of the *)
(* array's items, records with a field key.  A loop is a function from the *)
(* turns taken to the array and the place it has come to.                  *)
(***************************************************************************)
EXTENDS Naturals, Sequences

\* A turn of jt_pqueue_insert: a parent with a greater key moves down
Up(x, item) ==
  LET parent == x.at \div 2
  IN IF x.at > 1 /\ x.q[parent].key > item.key
     THEN [q |-> [x.q EXCEPT ![x.at] = x.q[parent]], at |-> parent]
     ELSE x

pqueue_insert(q, item) ==
  LET after[t \in 0..Len(q)] ==
        IF t = 0 THEN [q |-> Append(q, item), at |-> Len(q) + 1]
        ELSE Up(after[t - 1], item)
      end == after[Len(q)]
  IN [end.q EXCEPT ![end.at] = item]

\* A turn of jt_pqueue_heapify: the least of an item and its children goes up
Lesser(q, i, j) == IF j <= Len(q) /\ q[j].key < q[i].key THEN j ELSE i
Down(x) ==
  LET m == Lesser(x.q, Lesser(x.q, x.at, 2 * x.at), 2 * x.at + 1)
  IN IF m = x.at THEN x
     ELSE [q |-> [x.q EXCEPT ![x.at] = x.q[m], ![m] = x.q[x.at]], at |-> m]

heapify(q, i) ==
  LET after[t \in 0..Len(q)] ==
        IF t = 0 THEN [q |-> q, at |-> i] ELSE Down(after[t - 1])
  IN after[Len(q)].q

\* jt_pqueue_extract, without the item, which is the head
pqueue_extract(q) ==
  LET n == Len(q) - 1
  IN IF n = 0 THEN << >>
     ELSE heapify([SubSeq(q, 1, n) EXCEPT ![1] = q[n + 1]], 1)
=============================================================================

----------------------------- MODULE Containers ------------------------------
(***************************************************************************)
(* The containers of libjtype at work (hash.c, list.c, clist.c, pqueue.c), *)
(* as the rest of the program uses them: a hash table of chained items, a  *)
(* list that is built, perhaps reversed, and then consumed from its head,  *)
(* a circular list edited at any place, a priority queue.  Their items     *)
(* share one memory, so a stale pointer may lead into another container.   *)
(***************************************************************************)
EXTENDS Lists, Pqueue

CONSTANTS Sentry,    \* address of the circular list
          Keys, Data,
          HashSize,  \* power of two
          QueueSize  \* items the queue's array is created with

VARIABLES m,        \* the memory
          table,    \* heads of the chains
          head,     \* of the list
          building, \* the list has not been consumed from since it was empty
          queue,    \* array of the priority queue: keys with their addresses
          size,     \* its capacity
          ret       \* result of the last operation

vars == <<m, table, head, building, queue, size, ret>>

ASSUME SizeAssumption ==
  HashSize \in Nat \ {0} /\ QueueSize \in Nat \ {0} /\ Sentry \in Addr
ASSUME KeysAssumption == Keys \subseteq Nat

Init ==
  /\ m = clist_new(EmptyMemory, Sentry)
  /\ table = [i \in 0..(HashSize - 1) |-> Null]
  /\ head = Null
  /\ building = TRUE
  /\ queue = << >>
  /\ size = QueueSize
  /\ ret = Null

listVars == <<head, building>>
queueVars == <<queue, size>>

----------------------------------------------------------------------------
(* hash.c.  The data of a chain's item is an entry; nothing reads the      *)
(* number of entries.                                                      *)
HASHFN(k) == (k * 17011) % HashSize
Entry(k, d) == [key |-> k, data |-> d]
Bucket(k) == Chain(m, table[HASHFN(k)], "prev", Null)

\* jt_hash_lookup: the first item with the key
Found(k) ==
  LET chain == Bucket(k)
      hits == {n \in DOMAIN chain : m.item[chain[n]].data.key = k}
  IN IF hits = {} THEN Null
     ELSE chain[CHOOSE n \in hits : \A i \in hits : n <= i]

\* jt_hash_insert; the caller stores data in the entry it returns
HashInsert(k, d) ==
  LET loc == HASHFN(k)
  IN /\ \/ /\ Found(k) = Null
           /\ \E a \in m.free :
                /\ m' = list_add(m, table[loc], a, Entry(k, d))
                /\ table' = [table EXCEPT ![loc] = a]
        \/ /\ Found(k) # Null
           /\ m' = Set(m, Found(k), "data", Entry(k, d))
           /\ UNCHANGED table
     /\ ret' = Null
     /\ UNCHANGED <<listVars, queueVars>>

\* jt_hash_remove: all items with the key, from the head on
Without(x, a, k) ==
  IF x.m.item[a].data.key # k THEN x
  ELSE [m |-> list_delinkitem(x.m, a), head |-> DelinkedHead(x.m, x.head, a),
        data |-> x.m.item[a].data.data]
HashRemove(k) ==
  LET chain == Bucket(k)
      after[n \in 0..Len(chain)] ==
        IF n = 0 THEN [m |-> m, head |-> table[HASHFN(k)], data |-> Null]
        ELSE Without(after[n - 1], chain[n], k)
      end == after[Len(chain)]
  IN /\ m' = end.m
     /\ table' = [table EXCEPT ![HASHFN(k)] = end.head]
     /\ ret' = end.data
     /\ UNCHANGED <<listVars, queueVars>>

\* jt_hash_find
HashFind(k) ==
  /\ ret' = IF Found(k) = Null THEN Null ELSE m.item[Found(k)].data.data
  /\ UNCHANGED <<m, table, listVars, queueVars>>

\* Mutant of HashNuke: the last chain is forgotten.
HashNuke_short ==
  /\ LET after[i \in 0..HashSize] ==
           IF i = 0 THEN m ELSE list_destroy(after[i - 1], table[i - 1])
     IN m' = after[HashSize - 1]
  /\ table' = [i \in DOMAIN table |-> Null]
  /\ ret' = Null
  /\ UNCHANGED <<listVars, queueVars>>

\* jt_hash_nuke, and the table is created anew
HashNuke ==
  /\ LET after[i \in 0..HashSize] ==
           IF i = 0 THEN m ELSE list_destroy(after[i - 1], table[i - 1])
     IN m' = after[HashSize]
  /\ table' = [i \in DOMAIN table |-> Null]
  /\ ret' = Null
  /\ UNCHANGED <<listVars, queueVars>>

----------------------------------------------------------------------------
(* Uses of list.c: relocate.c adds and removes, strng.c adds, reverses and *)
(* then removes.  No caller adds or reverses again before all is removed.  *)
ListAdd(d) ==
  /\ building
  /\ \E a \in m.free : m' = list_add(m, head, a, d) /\ head' = a
  /\ ret' = Null
  /\ UNCHANGED <<building, table, queueVars>>

ListReverse ==
  /\ building
  /\ m' = list_reverse(m, head)
  /\ head' = ReversedHead(m, head)
  /\ ret' = Null
  /\ building' = (head = Null)
  /\ UNCHANGED <<table, queueVars>>

ListRemoveHead ==
  /\ head # Null
  /\ ret' = m.item[head].data
  /\ m' = list_removehead(m, head)
  /\ head' = Get(m, head, "prev")
  /\ building' = (head' = Null)
  /\ UNCHANGED <<table, queueVars>>

----------------------------------------------------------------------------
(* Uses of clist.c: any item or the sentry is the place to insert at. *)
Items == ToSet(Chain(m, Get(m, Sentry, "next"), "next", Sentry))

ClistEdit ==
  /\ \/ \E at \in Items \cup {Sentry}, a \in m.free, d \in Data :
          m' \in {clist_append(m, at, a, d), clist_prepend(m, at, a, d)}
     \/ \E a \in Items : m' = clist_delinkitem(m, a)
     \/ \E to \in Items \cup {Sentry}, from \in Items :
          to # from /\ m' = clist_moveitem(m, to, from)
  /\ ret' = Null
  /\ UNCHANGED <<table, listVars, queueVars>>

----------------------------------------------------------------------------
(* pqueue.c *)

\* Mutant of Grown: the count before the item is compared.
Grown_late(n, s) == IF n - 1 > s THEN 2 * s ELSE s

\* The capacity once an item has been counted
Grown(n, s) == IF n = s THEN 2 * s ELSE s

\* jt_pqueue_insert; writing behind the array is an access like to a freed item
PqueueInsert(k) ==
  LET n == Len(queue) + 1
  IN /\ size' = Grown(n, size)
     /\ \E a \in m.free :
          /\ m' = [New(m, a, Blank) EXCEPT !.bad = @ \/ n > size']
          /\ queue' = pqueue_insert(queue, [key |-> k, at |-> a])
     /\ ret' = Null
     /\ UNCHANGED <<table, listVars>>

\* jt_pqueue_extract and jt_pqueue_deleteitem
PqueueExtract ==
  /\ queue # << >>
  /\ ret' = queue[1].key
  /\ m' = Delete(m, queue[1].at)
  /\ queue' = pqueue_extract(queue)
  /\ UNCHANGED <<size, table, listVars>>

Next ==
  \/ \E k \in Keys, d \in Data : HashInsert(k, d)
  \/ \E k \in Keys : HashRemove(k) \/ HashFind(k)
  \/ HashNuke
  \/ \E d \in Data : ListAdd(d)
  \/ ListReverse \/ ListRemoveHead
  \/ ClistEdit
  \/ \E k \in Keys : PqueueInsert(k)
  \/ PqueueExtract

Spec == Init /\ [][Next]_vars

----------------------------------------------------------------------------
\* What each container holds
Entered == UNION {ToSet(Chain(m, table[i], "prev", Null)) : i \in DOMAIN table}
DataOn(chain) == [i \in DOMAIN chain |-> m.item[chain[i]].data]
MapHeld ==
  LET e == {m.item[a].data : a \in Entered}
  IN [k \in {x.key : x \in e} |-> (CHOOSE x \in e : x.key = k).data]
ListHeld == DataOn(Chain(m, head, "prev", Null))
RingHeld == DataOn(Chain(m, Get(m, Sentry, "next"), "next", Sentry))
QueueHeld == [k \in Keys |-> Cardinality({i \in DOMAIN queue : queue[i].key = k})]

\* The containers behave as a map, a list, a sequence and a bag: no operation
\* on one, whatever was freed and allocated before, changes another or gives a
\* wrong result (hash.c, list.c, clist.c, pqueue.c).
C == INSTANCE Collections WITH
       Nothing <- Null,
       map <- MapHeld, list <- ListHeld, seq <- RingHeld, bag <- QueueHeld
ImplementsCollections == C!Spec

\* The items the containers lead to are those in use: none is lost before it is
\* freed (jt_hash_nuke, jt_list_removehead and jt_pqueue_deleteitem free what
\* they take off), and none is reached afterwards.
Reached ==
  Entered \cup ToSet(Chain(m, head, "prev", Null)) \cup (Items \cup {Sentry})
  \cup {queue[i].at : i \in DOMAIN queue}
HoldsWhatIsUsed == Reached = Addr \ m.free

\* No operation reads or writes an item that has been freed, follows a null
\* pointer or writes behind the queue's array (jt_list_delinkitem after
\* jt_list_removehead would: the new head keeps a pointer to the old one).
TouchesNoFreedItem == ~m.bad
=============================================================================

-------------------------------- MODULE Lists --------------------------------
(***************************************************************************)
(* The linked lists of libjtype (list.c, clist.c).  A memory m is a        *)
(* record: the items by address, the addresses that are free, and bad,     *)
(* which is set by touching a free one or a null pointer.  Addresses of    *)
(* freed items are used again.                                             *)
(***************************************************************************)
EXTENDS Integers, Sequences, SequencesExt

CONSTANTS Addr,  \* addresses of items
          Null   \* the null pointer

ASSUME AddrAssumption == IsFiniteSet(Addr) /\ Null \notin Addr

Blank == [prev |-> Null, next |-> Null, data |-> Null]
EmptyMemory == [item |-> [a \in Addr |-> Blank], free |-> Addr, bad |-> FALSE]

Touch(m, a) == [m EXCEPT !.bad = @ \/ a \notin Addr \ m.free]
Set(m, a, f, v) ==
  IF a \in Addr THEN [Touch(m, a) EXCEPT !.item[a] = [@ EXCEPT ![f] = v]]
  ELSE Touch(m, a)
Get(m, a, f) == IF a \in Addr THEN m.item[a][f] ELSE Null

\* jt_new takes a free address, jt_delete gives it back.
New(m, a, item) == [m EXCEPT !.item[a] = item, !.free = @ \ {a}]
Delete(m, a) == [Touch(m, a) EXCEPT !.free = @ \cup {a}, !.item[a] = Blank]

\* The items from a on, in the direction f, up to the null pointer or to stop,
\* no more than there are addresses
Chain(m, a, f, stop) ==
  LET link == [b \in Addr \cup {Null} |->
                 IF b \in Addr \ {stop} THEN m.item[b][f] ELSE Null]
      at[n \in 1..Cardinality(Addr)] == IF n = 1 THEN a ELSE link[at[n - 1]]
  IN [n \in {i \in DOMAIN at : at[i] \in Addr \ {stop}} |-> at[n]]

----------------------------------------------------------------------------
(* list.c.  A list is known by its head; prev leads away from it. *)

\* jt_list_add: a is the new head
list_add(m, head, a, data) ==
  LET n == New(m, a, [prev |-> head, next |-> Null, data |-> data])
  IN IF head = Null THEN n ELSE Set(n, head, "next", a)

\* jt_list_removehead.  The next pointer of the new head keeps the address of
\* the old one.
list_removehead(m, head) == Delete(m, head)

\* The loop of jt_hash_nuke over one list
list_destroy(m, head) ==
  LET chain == Chain(m, head, "prev", Null)
      after[n \in 0..Len(chain)] ==
        IF n = 0 THEN m ELSE list_removehead(after[n - 1], chain[n])
  IN after[Len(chain)]

\* jt_list_delinkitem; DelinkedHead is what it leaves in *head
Delinked(m, a) ==
  LET p == Get(m, a, "prev")
      n == Get(m, a, "next")
      x == IF p = Null THEN m ELSE Set(m, p, "next", n)
  IN IF n = Null THEN x ELSE Set(x, n, "prev", p)
list_delinkitem(m, a) == Delete(Delinked(m, a), a)
DelinkedHead(m, head, a) == IF head = a THEN Get(m, a, "prev") ELSE head

\* jt_list_reverse: prev and next of every item change places
Turned(m, a) ==
  Set(Set(m, a, "prev", Get(m, a, "next")), a, "next", Get(m, a, "prev"))
list_reverse(m, head) ==
  LET chain == Chain(m, head, "prev", Null)
      after[n \in 0..Len(chain)] ==
        IF n = 0 THEN m ELSE Turned(after[n - 1], chain[n])
  IN after[Len(chain)]
ReversedHead(m, head) ==
  IF head = Null THEN Null ELSE Last(Chain(m, head, "prev", Null))

----------------------------------------------------------------------------
(* clist.c.  A circular list is known by its sentry. *)

\* jt_clist_new
clist_new(m, a) == New(m, a, [prev |-> a, next |-> a, data |-> Null])

\* jt_clist_append puts an item before an item or the sentry, jt_clist_prepend
\* behind it.
clist_append(m, at, a, data) ==
  LET after == Get(m, at, "prev")
      n == New(m, a, [prev |-> after, next |-> at, data |-> data])
  IN Set(Set(n, after, "next", a), at, "prev", a)

clist_prepend(m, at, a, data) ==
  LET before == Get(m, at, "next")
      n == New(m, a, [prev |-> at, next |-> before, data |-> data])
  IN Set(Set(n, before, "prev", a), at, "next", a)

\* jt_clist_delinkitem, of an item that has data
clist_delinkitem(m, a) ==
  LET p == Get(m, a, "prev")
      n == Get(m, a, "next")
  IN Delete(Set(Set(m, p, "next", n), n, "prev", p), a)

\* Mutant of clist_moveitem: the place is looked up before the item leaves.
clist_moveitem_early(m, to, from) ==
  LET p == Get(m, from, "prev")
      n == Get(m, from, "next")
      behind == Get(m, to, "next")
      x == Set(Set(m, p, "next", n), n, "prev", p)
      y == Set(Set(x, from, "next", behind), from, "prev", to)
  IN Set(Set(y, behind, "prev", from), to, "next", from)

\* jt_clist_moveitem: an item goes behind another
clist_moveitem(m, to, from) ==
  LET p == Get(m, from, "prev")
      n == Get(m, from, "next")
      x == Set(Set(m, p, "next", n), n, "prev", p)
      behind == Get(x, to, "next")
      y == Set(Set(x, from, "next", behind), from, "prev", to)
  IN Set(Set(y, behind, "prev", from), to, "next", from)
=============================================================================

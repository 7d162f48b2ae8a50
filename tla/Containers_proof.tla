-------------------------- MODULE Containers_proof --------------------------
(***************************************************************************)
(* The containers of libjtype implement the collections they stand for and *)
(* touch no freed item, for any number of addresses, keys and data.        *)
(***************************************************************************)
EXTENDS Containers, FiniteSetTheorems, SequenceTheorems, WellFoundedInduction, TLAPS

-----------------------------------------------------------------------------
(* Induction over the naturals, for sets *)

LEMMA Least ==
    ASSUME NEW T, T \subseteq Nat, T # {}
    PROVE  \E i \in T : \A k \in T : i <= k
<1> DEFINE R == OpToRel(<, Nat)
<1>1. IsWellFoundedOn(R, Nat)
  BY NatLessThanWellFounded
<1>2. \A x, y \in Nat : y < x => <<y, x>> \in R
  BY DEF OpToRel
<1> HIDE DEF R
<1>3. PICK i \in T : \A k \in T : ~ (<<k, i>> \in R)
  <2>1. T \subseteq Nat /\ T # {} /\ IsWellFoundedOn(R, Nat)
    BY <1>1
  <2> QED
    BY <2>1, WFMin
<1>4. ASSUME NEW k \in T, k < i PROVE FALSE
  <2>1. <<k, i>> \in R
    BY <1>2, <1>4
  <2> QED
    BY <1>3, <2>1
<1> QED
  BY <1>4

\* A set that holds zero and the successor of each of its members below N
\* holds every number up to N.
LEMMA Induct ==
    ASSUME NEW N \in Nat, NEW S, 0 \in S, \A n \in 0 .. N - 1 : n \in S => n + 1 \in S
    PROVE  \A n \in 0 .. N : n \in S
<1> DEFINE T == {n \in 0 .. N : n \notin S}
<1> SUFFICES ASSUME T # {} PROVE FALSE
  OBVIOUS
<1>1. PICK i \in T : \A k \in T : i <= k
  <2> T \subseteq Nat
    OBVIOUS
  <2> HIDE DEF T
  <2> QED
    BY Least
<1>2. i # 0 /\ i \in 0 .. N
  OBVIOUS
<1>3. i - 1 \in 0 .. N - 1 /\ i - 1 \notin T
  BY <1>1, <1>2
<1>4. (i - 1) + 1 = i
  BY <1>2
<1> QED
  BY <1>2, <1>3, <1>4

-----------------------------------------------------------------------------
(* The memory: what the operations of Lists leave in each field *)

Ptr == Addr \cup {Null}
Entries == [key : Keys, data : Data]
Contents == Data \cup {Null} \cup Entries
Cell == [prev : Ptr, next : Ptr, data : Contents]

\* A memory that no access has gone astray in
Memory == [item : [Addr -> Cell], free : SUBSET Addr, bad : {FALSE}]

\* y differs from x in one field of one item
SamePrev(x, y, b) == y.item[b].prev = x.item[b].prev
SameNext(x, y, b) == y.item[b].next = x.item[b].next
SameData(x, y, b) == y.item[b].data = x.item[b].data
Same(x, y, b) == SamePrev(x, y, b) /\ SameNext(x, y, b) /\ SameData(x, y, b)

Replaced(y, x, a, c) == y = [Touch(x, a) EXCEPT !.item[a] = c]

SameBut(x, y, a) == \A b \in Addr \ {a} : Same(x, y, b)

LEMMA SetIs ==
    ASSUME NEW x \in Memory, NEW a \in Addr \ x.free, NEW c \in Cell,
           NEW y, Replaced(y, x, a, c)
    PROVE  /\ y \in Memory /\ y.free = x.free /\ y.item[a] = c
           /\ \A b \in Addr \ {a} : y.item[b] = x.item[b]
BY DEF Replaced, Touch, Memory

LEMMA Touched ==
    ASSUME NEW x \in Memory, NEW a \in Addr \ x.free PROVE Touch(x, a).item = x.item
BY DEF Touch, Memory

LEMMA SetOn ==
    ASSUME NEW x, NEW a \in Addr, NEW f, NEW v
    PROVE  Replaced(Set(x, a, f, v), x, a, [Touch(x, a).item[a] EXCEPT ![f] = v])
BY DEF Set, Replaced

LEMMA SetPrev ==
    ASSUME NEW x \in Memory, NEW a \in Addr \ x.free, NEW v \in Ptr,
           NEW y, y = Set(x, a, "prev", v)
    PROVE  /\ y \in Memory /\ y.free = x.free
           /\ \A b \in Addr : y.item[b].prev = IF b = a THEN v ELSE x.item[b].prev
           /\ \A b \in Addr : SameNext(x, y, b) /\ SameData(x, y, b)
<1> DEFINE c == [x.item[a] EXCEPT !["prev"] = v]
<1>1. c \in Cell /\ c.prev = v /\ c.next = x.item[a].next /\ c.data = x.item[a].data
  BY DEF Memory, Cell
<1>2. Replaced(y, x, a, c)
  <2> DEFINE b == [Touch(x, a).item[a] EXCEPT !["prev"] = v]
  <2>1. b = c
    BY Touched
  <2>2. Replaced(y, x, a, b)
    BY SetOn
  <2> HIDE DEF b, c
  <2> QED
    BY <2>1, <2>2, Zenon
<1> HIDE DEF c
<1>3. /\ y \in Memory /\ y.free = x.free /\ y.item[a] = c
      /\ \A b \in Addr \ {a} : y.item[b] = x.item[b]
  BY <1>1, <1>2, SetIs
<1> QED
  BY <1>1, <1>3 DEF SameNext, SameData

LEMMA SetNext ==
    ASSUME NEW x \in Memory, NEW a \in Addr \ x.free, NEW v \in Ptr,
           NEW y, y = Set(x, a, "next", v)
    PROVE  /\ y \in Memory /\ y.free = x.free
           /\ \A b \in Addr : y.item[b].next = IF b = a THEN v ELSE x.item[b].next
           /\ \A b \in Addr : SamePrev(x, y, b) /\ SameData(x, y, b)
<1> DEFINE c == [x.item[a] EXCEPT !["next"] = v]
<1>1. c \in Cell /\ c.next = v /\ c.prev = x.item[a].prev /\ c.data = x.item[a].data
  BY DEF Memory, Cell
<1>2. Replaced(y, x, a, c)
  <2> DEFINE b == [Touch(x, a).item[a] EXCEPT !["next"] = v]
  <2>1. b = c
    BY Touched
  <2>2. Replaced(y, x, a, b)
    BY SetOn
  <2> HIDE DEF b, c
  <2> QED
    BY <2>1, <2>2, Zenon
<1> HIDE DEF c
<1>3. /\ y \in Memory /\ y.free = x.free /\ y.item[a] = c
      /\ \A b \in Addr \ {a} : y.item[b] = x.item[b]
  BY <1>1, <1>2, SetIs
<1> QED
  BY <1>1, <1>3 DEF SamePrev, SameData

LEMMA SetData ==
    ASSUME NEW x \in Memory, NEW a \in Addr \ x.free, NEW v \in Contents,
           NEW y, y = Set(x, a, "data", v)
    PROVE  /\ y \in Memory /\ y.free = x.free
           /\ \A b \in Addr : y.item[b].data = IF b = a THEN v ELSE x.item[b].data
           /\ \A b \in Addr : SamePrev(x, y, b) /\ SameNext(x, y, b)
<1> DEFINE c == [x.item[a] EXCEPT !["data"] = v]
<1>1. c \in Cell /\ c.data = v /\ c.prev = x.item[a].prev /\ c.next = x.item[a].next
  BY DEF Memory, Cell
<1>2. Replaced(y, x, a, c)
  <2> DEFINE b == [Touch(x, a).item[a] EXCEPT !["data"] = v]
  <2>1. b = c
    BY Touched
  <2>2. Replaced(y, x, a, b)
    BY SetOn
  <2> HIDE DEF b, c
  <2> QED
    BY <2>1, <2>2, Zenon
<1> HIDE DEF c
<1>3. /\ y \in Memory /\ y.free = x.free /\ y.item[a] = c
      /\ \A b \in Addr \ {a} : y.item[b] = x.item[b]
  BY <1>1, <1>2, SetIs
<1> QED
  BY <1>1, <1>3 DEF SamePrev, SameNext

LEMMA NewIs ==
    ASSUME NEW x \in Memory, NEW a \in x.free, NEW c \in Cell,
           NEW y, y = New(x, a, c)
    PROVE  /\ y \in Memory /\ y.free = x.free \ {a} /\ y.item[a] = c
           /\ \A b \in Addr \ {a} : Same(x, y, b)
BY DEF New, Memory, Cell, Same, SamePrev, SameNext, SameData

LEMMA BlankCell == Blank \in Cell
BY DEF Blank, Cell, Ptr, Contents

LEMMA DeleteIs ==
    ASSUME NEW x \in Memory, NEW a \in Addr \ x.free,
           NEW y, y = Delete(x, a)
    PROVE  /\ y \in Memory /\ y.free = x.free \cup {a} /\ y.item[a] = Blank
           /\ \A b \in Addr \ {a} : Same(x, y, b)
BY BlankCell DEF Delete, Touch, Memory, Same, SamePrev, SameNext, SameData

LEMMA CellIs ==
    ASSUME NEW x \in Memory, NEW b \in Addr
    PROVE  /\ x.item[b].prev \in Ptr /\ x.item[b].next \in Ptr
           /\ x.item[b].data \in Contents
           /\ Get(x, b, "prev") = x.item[b].prev /\ Get(x, b, "next") = x.item[b].next
           /\ ~ x.bad /\ x.free \subseteq Addr
BY DEF Memory, Cell, Get

LEMMA NextIs ==
    ASSUME NEW x, NEW b \in Addr PROVE Get(x, b, "next") = x.item[b].next
BY DEF Get

\* An item a is put between l and r, or leaves its place between them.
Links(x, y, l, a, r) ==
    /\ y.item[a].prev = l /\ y.item[a].next = r
    /\ \A b \in Addr \ {a} :
         /\ y.item[b].prev = IF b = r THEN a ELSE x.item[b].prev
         /\ y.item[b].next = IF b = l THEN a ELSE x.item[b].next
         /\ SameData(x, y, b)
Unlinks(x, y, l, a, r) ==
    \A b \in Addr \ {a} :
      /\ y.item[b].prev = IF b = r THEN l ELSE x.item[b].prev
      /\ y.item[b].next = IF b = l THEN r ELSE x.item[b].next
      /\ SameData(x, y, b)

\* jt_list_add
LEMMA AddIs ==
    ASSUME NEW x \in Memory, NEW hd \in Ptr \ x.free, NEW a \in x.free, NEW d \in Contents,
           NEW y, y = list_add(x, hd, a, d)
    PROVE  /\ y \in Memory /\ y.free = x.free \ {a} /\ y.item[a].data = d
           /\ y.item[a].prev = hd /\ y.item[a].next = Null
           /\ \A b \in Addr \ {a} :
                /\ SamePrev(x, y, b) /\ SameData(x, y, b)
                /\ y.item[b].next = IF b = hd THEN a ELSE x.item[b].next
<1> DEFINE c == [prev |-> hd, next |-> Null, data |-> d]
           z == New(x, a, c)
<1>1. c \in Cell /\ c.prev = hd /\ c.next = Null /\ c.data = d
  BY DEF Cell, Ptr
<1> HIDE DEF c
<1>2. /\ z \in Memory /\ z.free = x.free \ {a} /\ z.item[a] = c
      /\ \A b \in Addr \ {a} : Same(x, z, b)
  BY <1>1, NewIs
<1>3. y = IF hd = Null THEN z ELSE Set(z, hd, "next", a)
  BY DEF list_add, c
<1>4. a \in Addr /\ a # hd /\ (hd # Null => hd \in Addr)
  BY DEF Memory, Ptr
<1> HIDE DEF z
<1>5. CASE hd = Null
  BY <1>1, <1>2, <1>3, <1>4, <1>5, AddrAssumption DEF Same, SamePrev, SameNext, SameData
<1>6. CASE hd # Null
  <2>1. /\ y \in Memory /\ y.free = z.free
        /\ \A b \in Addr : y.item[b].next = IF b = hd THEN a ELSE z.item[b].next
        /\ \A b \in Addr : SamePrev(z, y, b) /\ SameData(z, y, b)
    <3>1. hd \in Addr \ z.free /\ a \in Ptr /\ y = Set(z, hd, "next", a)
      BY <1>2, <1>3, <1>4, <1>6 DEF Ptr
    <3> QED
      BY <1>2, <3>1, SetNext
  <2> QED
    BY <1>1, <1>2, <1>4, <1>6, <2>1 DEF Same, SamePrev, SameNext, SameData
<1> QED
  BY <1>5, <1>6

\* y is x with l and r linked with each other
Joins(x, y, l, r) ==
    /\ y \in Memory /\ y.free = x.free
    /\ \A b \in Addr :
         /\ y.item[b].prev = IF b = r THEN l ELSE x.item[b].prev
         /\ y.item[b].next = IF b = l THEN r ELSE x.item[b].next
         /\ SameData(x, y, b)

\* Two stores that link l and r with each other, skipping null pointers
LEMMA Joined ==
    ASSUME NEW x \in Memory, NEW l \in Ptr \ x.free, NEW r \in Ptr \ x.free,
           NEW z, z = IF l = Null THEN x ELSE Set(x, l, "next", r),
           NEW y, y = IF r = Null THEN z ELSE Set(z, r, "prev", l)
    PROVE  Joins(x, y, l, r)
<1>1. /\ z \in Memory /\ z.free = x.free
      /\ \A b \in Addr : z.item[b].next = IF b = l THEN r ELSE x.item[b].next
      /\ \A b \in Addr : SamePrev(x, z, b) /\ SameData(x, z, b)
  <2>1. CASE l = Null
    BY <2>1, AddrAssumption DEF SamePrev, SameData
  <2>2. CASE l # Null
    <3>1. l \in Addr \ x.free
      BY <2>2 DEF Ptr
    <3> QED
      BY <2>2, <3>1, SetNext
  <2> QED
    BY <2>1, <2>2
<1>2. /\ y \in Memory /\ y.free = z.free
      /\ \A b \in Addr : y.item[b].prev = IF b = r THEN l ELSE z.item[b].prev
      /\ \A b \in Addr : SameNext(z, y, b) /\ SameData(z, y, b)
  <2>1. CASE r = Null
    BY <1>1, <2>1, AddrAssumption DEF SameNext, SameData
  <2>2. CASE r # Null
    <3>1. r \in Addr \ z.free
      BY <1>1, <2>2 DEF Ptr
    <3> QED
      BY <1>1, <2>2, <3>1, SetPrev
  <2> QED
    BY <2>1, <2>2
<1> QED
  BY <1>1, <1>2 DEF Joins, SamePrev, SameNext, SameData

\* jt_list_delinkitem
LEMMA DelinkIs ==
    ASSUME NEW x \in Memory, NEW a \in Addr \ x.free,
           NEW l \in Ptr \ x.free, NEW r \in Ptr \ x.free,
           l = x.item[a].prev, r = x.item[a].next,
           NEW y, y = list_delinkitem(x, a)
    PROVE  y \in Memory /\ y.free = x.free \cup {a} /\ Unlinks(x, y, l, a, r)
<1> DEFINE z == Delinked(x, a)
<1>1. /\ z \in Memory /\ z.free = x.free
      /\ \A b \in Addr :
           /\ z.item[b].prev = IF b = r THEN l ELSE x.item[b].prev
           /\ z.item[b].next = IF b = l THEN r ELSE x.item[b].next
           /\ SameData(x, z, b)
  <2>1. Get(x, a, "prev") = l /\ Get(x, a, "next") = r
    BY CellIs
  <2> DEFINE u == IF l = Null THEN x ELSE Set(x, l, "next", r)
  <2>2. z = IF r = Null THEN u ELSE Set(u, r, "prev", l)
    BY <2>1 DEF Delinked
  <2> HIDE DEF u, z
  <2> QED
    <3>1. Joins(x, z, l, r)
      BY <2>2, Joined DEF u
    <3> QED
      BY <3>1 DEF Joins
<1>2. y = Delete(z, a)
  BY DEF list_delinkitem
<1> HIDE DEF z
<1>3. /\ y \in Memory /\ y.free = z.free \cup {a}
      /\ \A b \in Addr \ {a} : Same(z, y, b)
  BY <1>1, <1>2, DeleteIs
<1> QED
  BY <1>1, <1>3 DEF Unlinks, Same, SamePrev, SameNext, SameData

\* jt_clist_delinkitem
LEMMA ClistDelinkIs ==
    ASSUME NEW x \in Memory, NEW a \in Addr \ x.free,
           NEW l \in Addr \ x.free, NEW r \in Addr \ x.free,
           l = x.item[a].prev, r = x.item[a].next,
           NEW y, y = clist_delinkitem(x, a)
    PROVE  y \in Memory /\ y.free = x.free \cup {a} /\ Unlinks(x, y, l, a, r)
<1> DEFINE z == Set(Set(x, l, "next", r), r, "prev", l)
<1>1. /\ z \in Memory /\ z.free = x.free
      /\ \A b \in Addr :
           /\ z.item[b].prev = IF b = r THEN l ELSE x.item[b].prev
           /\ z.item[b].next = IF b = l THEN r ELSE x.item[b].next
           /\ SameData(x, z, b)
  <2> DEFINE u == Set(x, l, "next", r)
  <2>1. u = IF l = Null THEN x ELSE Set(x, l, "next", r)
    BY AddrAssumption
  <2>2. z = IF r = Null THEN u ELSE Set(u, r, "prev", l)
    BY AddrAssumption
  <2>3. l \in Ptr \ x.free /\ r \in Ptr \ x.free
    BY DEF Ptr
  <2> HIDE DEF u, z
  <2> QED
    <3>1. Joins(x, z, l, r)
      BY <2>1, <2>2, <2>3, Joined
    <3> QED
      BY <3>1 DEF Joins
<1>2. y = Delete(z, a)
  <2>1. Get(x, a, "prev") = l /\ Get(x, a, "next") = r
    BY CellIs
  <2> QED
    BY <2>1 DEF clist_delinkitem
<1> HIDE DEF z
<1>3. /\ y \in Memory /\ y.free = z.free \cup {a}
      /\ \A b \in Addr \ {a} : Same(z, y, b)
  BY <1>1, <1>2, DeleteIs
<1> QED
  BY <1>1, <1>3 DEF Unlinks, Same, SamePrev, SameNext, SameData

\* The last two stores of an insertion
LEMMA LinksIs ==
    ASSUME NEW x \in Memory, NEW l \in Addr \ x.free, NEW r \in Addr \ x.free,
           NEW a \in Addr \ x.free, NEW w, NEW d,
           x.item[a].prev = l, x.item[a].next = r, x.item[a].data = d, l # a, r # a,
           SameBut(w, x, a),
           NEW y, y \in {Set(Set(x, l, "next", a), r, "prev", a),
                         Set(Set(x, r, "prev", a), l, "next", a)}
    PROVE  y \in Memory /\ y.free = x.free /\ y.item[a].data = d /\ Links(w, y, l, a, r)
<1>1. /\ y \in Memory /\ y.free = x.free
      /\ \A b \in Addr :
           /\ y.item[b].prev = IF b = r THEN a ELSE x.item[b].prev
           /\ y.item[b].next = IF b = l THEN a ELSE x.item[b].next
           /\ SameData(x, y, b)
  <2>1. a \in Ptr
    BY DEF Ptr
  <2>2. CASE y = Set(Set(x, l, "next", a), r, "prev", a)
    <3> DEFINE z == Set(x, l, "next", a)
    <3>1. /\ z \in Memory /\ z.free = x.free
          /\ \A b \in Addr : z.item[b].next = IF b = l THEN a ELSE x.item[b].next
          /\ \A b \in Addr : SamePrev(x, z, b) /\ SameData(x, z, b)
      BY <2>1, SetNext
    <3> HIDE DEF z
    <3>2. /\ y \in Memory /\ y.free = z.free
          /\ \A b \in Addr : y.item[b].prev = IF b = r THEN a ELSE z.item[b].prev
          /\ \A b \in Addr : SameNext(z, y, b) /\ SameData(z, y, b)
      <4>1. r \in Addr \ z.free /\ y = Set(z, r, "prev", a)
        BY <2>2, <3>1 DEF z
      <4> QED
        BY <2>1, <3>1, <4>1, SetPrev
    <3> QED
      BY <3>1, <3>2 DEF SamePrev, SameNext, SameData
  <2>3. CASE y = Set(Set(x, r, "prev", a), l, "next", a)
    <3> DEFINE z == Set(x, r, "prev", a)
    <3>1. /\ z \in Memory /\ z.free = x.free
          /\ \A b \in Addr : z.item[b].prev = IF b = r THEN a ELSE x.item[b].prev
          /\ \A b \in Addr : SameNext(x, z, b) /\ SameData(x, z, b)
      BY <2>1, SetPrev
    <3> HIDE DEF z
    <3>2. /\ y \in Memory /\ y.free = z.free
          /\ \A b \in Addr : y.item[b].next = IF b = l THEN a ELSE z.item[b].next
          /\ \A b \in Addr : SamePrev(z, y, b) /\ SameData(z, y, b)
      <4>1. l \in Addr \ z.free /\ y = Set(z, l, "next", a)
        BY <2>3, <3>1 DEF z
      <4> QED
        BY <2>1, <3>1, <4>1, SetNext
    <3> QED
      BY <3>1, <3>2 DEF SamePrev, SameNext, SameData
  <2> QED
    BY <2>2, <2>3
<1> QED
  BY <1>1 DEF Links, SameBut, Same, SamePrev, SameNext, SameData

\* jt_clist_append and jt_clist_prepend: at is the place to insert at, o the
\* neighbour it has on that side.
LEMMA InsertIs ==
    ASSUME NEW x \in Memory, NEW l \in Addr \ x.free, NEW r \in Addr \ x.free,
           NEW a \in x.free, NEW d \in Contents, NEW y,
           \/ l = x.item[r].prev /\ y = clist_append(x, r, a, d)
           \/ r = x.item[l].next /\ y = clist_prepend(x, l, a, d)
    PROVE  y \in Memory /\ y.free = x.free \ {a} /\ y.item[a].data = d /\ Links(x, y, l, a, r)
<1> DEFINE c == [prev |-> l, next |-> r, data |-> d]
           z == New(x, a, c)
<1>1. c \in Cell /\ c.prev = l /\ c.next = r /\ c.data = d
  BY DEF Cell, Ptr
<1> HIDE DEF c
<1>2. /\ z \in Memory /\ z.free = x.free \ {a} /\ z.item[a] = c
      /\ SameBut(x, z, a)
  BY <1>1, NewIs DEF SameBut
<1>3. y \in {Set(Set(z, l, "next", a), r, "prev", a), Set(Set(z, r, "prev", a), l, "next", a)}
  <2>1. CASE l = x.item[r].prev /\ y = clist_append(x, r, a, d)
    <3>1. Get(x, r, "prev") = l
      BY <2>1, CellIs
    <3> QED
      BY <2>1, <3>1 DEF clist_append, c
  <2>2. CASE r = x.item[l].next /\ y = clist_prepend(x, l, a, d)
    <3>1. Get(x, l, "next") = r
      BY <2>2, CellIs
    <3> QED
      BY <2>2, <3>1 DEF clist_prepend, c
  <2> QED
    BY <2>1, <2>2
<1> HIDE DEF z
<1>4. l \in Addr \ z.free /\ r \in Addr \ z.free /\ a \in Addr \ z.free /\ l # a /\ r # a
  BY <1>2, CellIs
<1>5. z.item[a].prev = l /\ z.item[a].next = r /\ z.item[a].data = d
  BY <1>1, <1>2
<1>6. y \in Memory /\ y.free = z.free /\ y.item[a].data = d /\ Links(x, y, l, a, r)
  BY <1>2, <1>3, <1>4, <1>5, LinksIs
<1> QED
  BY <1>2, <1>6

\* jt_clist_moveitem: an item leaves its place between l and r and then goes
\* between to and the item g that is behind to by then.
LEMMA MoveIs ==
    ASSUME NEW x \in Memory, NEW from \in Addr \ x.free, NEW to \in Addr \ x.free,
           NEW l \in Addr \ x.free, NEW r \in Addr \ x.free, NEW g \in Addr \ x.free,
           l = x.item[from].prev, r = x.item[from].next,
           g = IF to = l THEN r ELSE x.item[to].next,
           from # to, from # g,
           NEW y, y = clist_moveitem(x, to, from)
    PROVE  /\ y \in Memory /\ y.free = x.free /\ SameData(x, y, from)
           /\ \E z : Unlinks(x, z, l, from, r) /\ Links(z, y, to, from, g)
<1> DEFINE z == Set(Set(x, l, "next", r), r, "prev", l)
           u == Set(z, from, "next", g)
           v == Set(u, from, "prev", to)
<1>1. /\ z \in Memory /\ z.free = x.free
      /\ \A b \in Addr :
           /\ z.item[b].prev = IF b = r THEN l ELSE x.item[b].prev
           /\ z.item[b].next = IF b = l THEN r ELSE x.item[b].next
           /\ SameData(x, z, b)
  <2> DEFINE t == Set(x, l, "next", r)
  <2>1. t = IF l = Null THEN x ELSE Set(x, l, "next", r)
    BY AddrAssumption
  <2>2. z = IF r = Null THEN t ELSE Set(t, r, "prev", l)
    BY AddrAssumption
  <2>3. l \in Ptr \ x.free /\ r \in Ptr \ x.free
    BY DEF Ptr
  <2> HIDE DEF t, z
  <2> QED
    <3>1. Joins(x, z, l, r)
      BY <2>1, <2>2, <2>3, Joined
    <3> QED
      BY <3>1 DEF Joins
<1>2. y = Set(Set(v, g, "prev", from), to, "next", from)
  <2>1. Get(x, from, "prev") = l /\ Get(x, from, "next") = r
    BY CellIs
  <2>2. Get(z, to, "next") = z.item[to].next
    BY NextIs, Zenon
  <2>3. Get(z, to, "next") = g
    BY <1>1, <2>2
  <2> QED
    BY <2>1, <2>3 DEF clist_moveitem
<1> HIDE DEF z
<1>3. from \in Ptr /\ g \in Ptr /\ to \in Ptr
  BY DEF Ptr
<1>4. /\ u \in Memory /\ u.free = z.free
      /\ \A b \in Addr : u.item[b].next = IF b = from THEN g ELSE z.item[b].next
      /\ \A b \in Addr : SamePrev(z, u, b) /\ SameData(z, u, b)
  BY <1>1, <1>3, SetNext
<1> HIDE DEF u
<1>5. /\ v \in Memory /\ v.free = u.free
      /\ \A b \in Addr : v.item[b].prev = IF b = from THEN to ELSE u.item[b].prev
      /\ \A b \in Addr : SameNext(u, v, b) /\ SameData(u, v, b)
  BY <1>1, <1>3, <1>4, SetPrev
<1> HIDE DEF v
<1>6. /\ v.item[from].prev = to /\ v.item[from].next = g
      /\ v.item[from].data = x.item[from].data
      /\ SameBut(z, v, from)
  BY <1>1, <1>4, <1>5 DEF SameBut, Same, SamePrev, SameNext, SameData
<1>7. y \in Memory /\ y.free = v.free /\ y.item[from].data = x.item[from].data
      /\ Links(z, y, to, from, g)
  <2>1. /\ to \in Addr \ v.free /\ g \in Addr \ v.free /\ from \in Addr \ v.free
        /\ y \in {Set(Set(v, to, "next", from), g, "prev", from),
                  Set(Set(v, g, "prev", from), to, "next", from)}
    BY <1>1, <1>2, <1>4, <1>5
  <2> QED
    BY <1>5, <1>6, <2>1, LinksIs
<1>8. Unlinks(x, z, l, from, r)
  BY <1>1 DEF Unlinks
<1> QED
  BY <1>1, <1>4, <1>5, <1>7, <1>8 DEF SameData

\* One turn of jt_list_reverse
LEMMA TurnedIs ==
    ASSUME NEW x \in Memory, NEW a \in Addr \ x.free, NEW y, y = Turned(x, a)
    PROVE  /\ y \in Memory /\ y.free = x.free
           /\ y.item[a].prev = x.item[a].next /\ y.item[a].next = x.item[a].prev
           /\ SameData(x, y, a)
           /\ \A b \in Addr \ {a} : Same(x, y, b)
<1> DEFINE p == x.item[a].prev
           n == x.item[a].next
           z == Set(x, a, "prev", n)
<1>1. p \in Ptr /\ n \in Ptr /\ y = Set(z, a, "next", p)
  BY CellIs DEF Turned
<1> HIDE DEF p, n
<1>2. /\ z \in Memory /\ z.free = x.free
      /\ \A b \in Addr : z.item[b].prev = IF b = a THEN n ELSE x.item[b].prev
      /\ \A b \in Addr : SameNext(x, z, b) /\ SameData(x, z, b)
  BY <1>1, SetPrev
<1> HIDE DEF z
<1>3. /\ y \in Memory /\ y.free = z.free
      /\ \A b \in Addr : y.item[b].next = IF b = a THEN p ELSE z.item[b].next
      /\ \A b \in Addr : SamePrev(z, y, b) /\ SameData(z, y, b)
  BY <1>1, <1>2, SetNext
<1> QED
  BY <1>2, <1>3 DEF p, n, Same, SamePrev, SameNext, SameData

-----------------------------------------------------------------------------
(* Chains: the items of a container as a sequence *)

Distinct(s) == \A i, j \in 1 .. Len(s) : s[i] = s[j] => i = j

LEMMA NoMore ==
    ASSUME NEW s \in Seq(Addr), Distinct(s)
    PROVE  Len(s) <= Cardinality(Addr) /\ Cardinality(Addr) \in Nat
<1>1. Len(s) \in Nat /\ s \in [1 .. Len(s) -> Addr]
  BY LenProperties
<1>2. s \in Injection(1 .. Len(s), Addr)
  BY <1>1 DEF Distinct, Injection, IsInjective
<1>3. IsFiniteSet(Addr)
  BY AddrAssumption
<1>4. Cardinality(1 .. Len(s)) <= Cardinality(Addr)
  BY <1>2, <1>3, FS_Injection
<1>5. Cardinality(1 .. Len(s)) = Len(s)
  BY <1>1, FS_Interval
<1>6. Cardinality(Addr) \in Nat
  BY <1>3, FS_CardinalityType
<1> QED
  BY <1>4, <1>5, <1>6

IsWalk(at, link, a, N) == at = [n \in 1 .. N |-> IF n = 1 THEN a ELSE link[at[n - 1]]]

LEMMA WalkExists ==
    ASSUME NEW link, NEW a, NEW N \in Nat PROVE \E at : IsWalk(at, link, a, N)
<1> DEFINE S == {n \in 0 .. N : \E at : IsWalk(at, link, a, n)}
<1>1. 0 \in S
  <2>1. IsWalk([n \in 1 .. 0 |-> a], link, a, 0)
    BY DEF IsWalk
  <2> QED
    BY <2>1
<1>2. \A n \in 0 .. N - 1 : n \in S => n + 1 \in S
  <2> SUFFICES ASSUME NEW n \in 0 .. N - 1, NEW f, IsWalk(f, link, a, n)
               PROVE  \E g : IsWalk(g, link, a, n + 1)
    OBVIOUS
  <2> DEFINE next == IF n = 0 THEN a ELSE link[f[n]]
             g == [k \in 1 .. n + 1 |-> IF k = n + 1 THEN next ELSE f[k]]
  <2>1. \A k \in 1 .. n + 1 : g[k] = IF k = 1 THEN a ELSE link[g[k - 1]]
    <3> SUFFICES ASSUME NEW k \in 1 .. n + 1
                 PROVE  g[k] = IF k = 1 THEN a ELSE link[g[k - 1]]
      OBVIOUS
    <3>1. CASE k = n + 1
      BY <3>1
    <3>2. CASE k # n + 1
      <4>1. k \in 1 .. n /\ (k # 1 => k - 1 \in 1 .. n)
        BY <3>2
      <4>2. f[k] = IF k = 1 THEN a ELSE link[f[k - 1]]
        BY <4>1 DEF IsWalk
      <4> QED
        BY <3>2, <4>1, <4>2
    <3> QED
      BY <3>1, <3>2
  <2>2. IsWalk(g, link, a, n + 1)
    BY <2>1 DEF IsWalk
  <2> QED
    BY <2>2
<1> HIDE DEF S
<1>3. N \in S
  BY <1>1, <1>2, Induct
<1> QED
  BY <1>3 DEF S

\* A chain is the sequence s if its first item is the first of s, each leads to
\* the next, and the last to the null pointer or to stop.
Leads(x, s, f, stop, a, e) ==
    /\ \A i \in 1 .. Len(s) : s[i] # stop
    /\ \A i \in 1 .. Len(s) : x.item[s[i]][f] = IF i < Len(s) THEN s[i + 1] ELSE e
    /\ a = IF Len(s) = 0 THEN e ELSE s[1]

LEMMA ChainIs ==
    ASSUME NEW x, NEW s \in Seq(Addr), Distinct(s), NEW f, NEW stop \in Ptr, NEW a,
           NEW e \in {Null, stop}, Leads(x, s, f, stop, a, e)
    PROVE  Chain(x, a, f, stop) = s
<1> DEFINE N == Cardinality(Addr)
           L == Len(s)
           link == [b \in Addr \cup {Null} |->
                      IF b \in Addr \ {stop} THEN x.item[b][f] ELSE Null]
           at == CHOOSE at : IsWalk(at, link, a, N)
<1>1. L \in Nat /\ N \in Nat /\ L <= N /\ s \in [1 .. L -> Addr]
  BY NoMore, LenProperties
<1>2. IsWalk(at, link, a, N)
  BY <1>1, WalkExists
<1>3. Chain(x, a, f, stop) =
        [n \in {i \in DOMAIN at : at[i] \in Addr \ {stop}} |-> at[n]]
  BY Zenon DEF Chain, IsWalk
<1> HIDE DEF at
<1>4. /\ DOMAIN at = 1 .. N
      /\ \A n \in 1 .. N : at[n] = IF n = 1 THEN a ELSE link[at[n - 1]]
  <2>1. at = [n \in 1 .. N |-> IF n = 1 THEN a ELSE link[at[n - 1]]]
    BY <1>2 DEF IsWalk
  <2> HIDE DEF link, N
  <2> QED
    BY <2>1
<1>5. /\ \A i \in 1 .. L : link[s[i]] = IF i < L THEN s[i + 1] ELSE e
      /\ link[stop] = Null /\ link[Null] = Null
  BY <1>1, AddrAssumption DEF Leads, Ptr
<1> HIDE DEF link, N, L
<1>6. \A n \in 0 .. N - 1 :
        IF n + 1 <= L THEN at[n + 1] = s[n + 1] ELSE at[n + 1] \in {Null, stop}
  <2> DEFINE T == {n \in 0 .. N : n < N =>
                     IF n + 1 <= L THEN at[n + 1] = s[n + 1] ELSE at[n + 1] \in {Null, stop}}
  <2>1. 0 \in T
    BY <1>1, <1>4 DEF Leads, L
  <2>2. ASSUME NEW n \in 0 .. N - 1, n \in T PROVE n + 1 \in T
    <3> SUFFICES ASSUME n + 1 < N
                 PROVE  IF n + 2 <= L THEN at[n + 2] = s[n + 2] ELSE at[n + 2] \in {Null, stop}
      BY <1>1
    <3>1. n + 2 \in 1 .. N /\ (n + 2) - 1 = n + 1
      BY <1>1
    <3>2. at[n + 2] = link[at[n + 1]]
      BY <1>4, <3>1
    <3>3. CASE n + 1 <= L
      <4>1. at[n + 1] = s[n + 1] /\ n + 1 \in 1 .. L
        BY <1>1, <2>2, <3>3
      <4>2. link[s[n + 1]] = IF n + 1 < L THEN s[n + 2] ELSE e
        BY <1>1, <1>5, <4>1
      <4> QED
        BY <1>1, <3>2, <4>1, <4>2
    <3>4. CASE ~ (n + 1 <= L)
      <4>1. at[n + 1] \in {Null, stop}
        BY <1>1, <2>2, <3>4
      <4> QED
        BY <1>1, <1>5, <3>2, <3>4, <4>1
    <3> QED
      BY <3>3, <3>4
  <2> HIDE DEF T
  <2>3. \A n \in 0 .. N : n \in T
    BY <1>1, <2>1, <2>2, Induct
  <2> QED
    BY <1>1, <2>3 DEF T
<1>7. \A n \in 1 .. N : IF n <= L THEN at[n] = s[n] ELSE at[n] \in {Null, stop}
  <2> SUFFICES ASSUME NEW n \in 1 .. N
               PROVE  IF n <= L THEN at[n] = s[n] ELSE at[n] \in {Null, stop}
    OBVIOUS
  <2>1. n - 1 \in 0 .. N - 1 /\ (n - 1) + 1 = n
    BY <1>1
  <2> QED
    BY <1>6, <2>1
<1>8. {i \in DOMAIN at : at[i] \in Addr \ {stop}} = 1 .. L
  BY <1>1, <1>4, <1>7, AddrAssumption DEF Leads, L
<1>9. Chain(x, a, f, stop) = [n \in 1 .. L |-> at[n]]
  BY <1>3, <1>8
<1> QED
  BY <1>1, <1>7, <1>9

-----------------------------------------------------------------------------
(* Inserting into and removing from a sequence *)

Inserted(t, s, p, e) ==
    /\ Len(t) = Len(s) + 1
    /\ \A j \in 1 .. Len(s) + 1 :
         t[j] = IF j < p THEN s[j] ELSE IF j = p THEN e ELSE s[j - 1]
Removed(t, s, p) ==
    /\ Len(t) = Len(s) - 1
    /\ \A j \in 1 .. Len(s) - 1 : t[j] = IF j < p THEN s[j] ELSE s[j + 1]

Joint(t, u, k, v, n) ==
    /\ Len(t) = k + n
    /\ \A i \in 1 .. k : t[i] = u[i]
    /\ \A i \in 1 .. n : t[k + i] = v[i]

LEMMA ConcatIs ==
    ASSUME NEW S, NEW u \in Seq(S), NEW v \in Seq(S), NEW t, t = u \o v,
           NEW k, k = Len(u), NEW n, n = Len(v)
    PROVE  t \in Seq(S) /\ Joint(t, u, k, v, n)
<1>1. t \in Seq(S)
  OBVIOUS
<1>2. k \in Nat /\ n \in Nat
  OBVIOUS
<1>3. Len(t) = k + n
  OBVIOUS
<1>4. \A i \in 1 .. k : t[i] = u[i]
  OBVIOUS
<1>5. \A i \in 1 .. n : t[k + i] = v[i]
  OBVIOUS
<1> QED
  BY <1>1, <1>3, <1>4, <1>5 DEF Joint

LEMMA InsertAtIs ==
    ASSUME NEW S, NEW s \in Seq(S), NEW p \in 1 .. Len(s) + 1, NEW e \in S,
           NEW t, t = InsertAt(s, p, e)
    PROVE  t \in Seq(S) /\ Inserted(t, s, p, e)
<1> DEFINE L == Len(s)
           u == SubSeq(s, 1, p - 1)
           v == SubSeq(s, p, L)
           w == u \o <<e>>
<1>1. L \in Nat /\ \A i \in 1 .. L : s[i] \in S
  BY LenProperties, ElementOfSeq
<1>2. u \in Seq(S) /\ Len(u) = p - 1 /\ \A i \in 1 .. p - 1 : u[i] = s[i]
  <2>1. /\ u \in Seq(S) /\ Len(u) = IF 1 <= p - 1 THEN (p - 1) - 1 + 1 ELSE 0
        /\ \A i \in 1 .. (p - 1) - 1 + 1 : u[i] = s[1 + i - 1]
    BY <1>1, SubSeqProperties
  <2> QED
    BY <1>1, <2>1
<1>3. /\ v \in Seq(S) /\ Len(v) = L + 1 - p
      /\ \A i \in 1 .. L + 1 - p : v[i] = s[p + i - 1]
  <2>1. /\ v \in Seq(S) /\ Len(v) = IF p <= L THEN L - p + 1 ELSE 0
        /\ \A i \in 1 .. L - p + 1 : v[i] = s[p + i - 1]
    BY <1>1, SubSeqProperties
  <2> QED
    BY <1>1, <2>1
<1>4. t = w \o v
  BY DEF InsertAt
<1> HIDE DEF u, v
<1>5. <<e>> \in Seq(S) /\ Len(<<e>>) = 1 /\ <<e>>[1] = e
  OBVIOUS
<1>6. w \in Seq(S) /\ Joint(w, u, p - 1, <<e>>, 1)
  BY <1>2, <1>5, ConcatIs
<1> HIDE DEF w
<1>a. Len(w) = p /\ \A i \in 1 .. p : w[i] = IF i = p THEN e ELSE s[i]
  <2>1. Len(w) = p /\ \A i \in 1 .. p - 1 : w[i] = s[i]
    BY <1>1, <1>2, <1>6 DEF Joint
  <2>2. w[(p - 1) + 1] = e /\ (p - 1) + 1 = p
    BY <1>1, <1>5, <1>6 DEF Joint
  <2> QED
    BY <1>1, <2>1, <2>2
<1>7. t \in Seq(S) /\ Joint(t, w, p, v, L + 1 - p)
  <2>1. p = Len(w) /\ L + 1 - p = Len(v)
    BY <1>3, <1>a
  <2> QED
    BY <1>3, <1>4, <1>6, <2>1, ConcatIs
<1>8. Len(t) = L + 1
  BY <1>1, <1>7 DEF Joint
<1>9. ASSUME NEW j \in 1 .. L + 1
      PROVE  t[j] = IF j < p THEN s[j] ELSE IF j = p THEN e ELSE s[j - 1]
  <2>1. CASE j <= p
    <3>1. j \in 1 .. p /\ t[j] = w[j]
      BY <1>1, <1>7, <2>1 DEF Joint
    <3> QED
      BY <1>1, <1>a, <2>1, <3>1
  <2>2. CASE j > p
    <3>1. j - p \in 1 .. L + 1 - p /\ p + (j - p) = j /\ p + (j - p) - 1 = j - 1
      BY <1>1, <2>2
    <3>2. t[j] = v[j - p]
      BY <1>1, <1>7, <3>1 DEF Joint
    <3> QED
      BY <1>1, <1>3, <2>2, <3>1, <3>2
  <2> QED
    BY <1>1, <2>1, <2>2
<1> QED
  BY <1>7, <1>8, <1>9 DEF Inserted

LEMMA RemoveAtIs ==
    ASSUME NEW S, NEW s \in Seq(S), NEW p \in 1 .. Len(s), NEW t, t = RemoveAt(s, p)
    PROVE  t \in Seq(S) /\ Removed(t, s, p)
<1> DEFINE L == Len(s)
           u == SubSeq(s, 1, p - 1)
           v == SubSeq(s, p + 1, L)
<1>1. L \in Nat /\ \A i \in 1 .. L : s[i] \in S
  BY LenProperties, ElementOfSeq
<1>2. u \in Seq(S) /\ Len(u) = p - 1 /\ \A i \in 1 .. p - 1 : u[i] = s[i]
  <2>1. /\ u \in Seq(S) /\ Len(u) = IF 1 <= p - 1 THEN (p - 1) - 1 + 1 ELSE 0
        /\ \A i \in 1 .. (p - 1) - 1 + 1 : u[i] = s[1 + i - 1]
    BY <1>1, SubSeqProperties
  <2> QED
    BY <1>1, <2>1
<1>3. /\ v \in Seq(S) /\ Len(v) = L - p
      /\ \A i \in 1 .. L - p : v[i] = s[p + i]
  <2>1. /\ v \in Seq(S) /\ Len(v) = IF p + 1 <= L THEN L - (p + 1) + 1 ELSE 0
        /\ \A i \in 1 .. L - (p + 1) + 1 : v[i] = s[(p + 1) + i - 1]
    BY <1>1, SubSeqProperties
  <2>2. \A i \in 1 .. L - p : i \in 1 .. L - (p + 1) + 1 /\ (p + 1) + i - 1 = p + i
    BY <1>1
  <2> HIDE DEF v
  <2>3. Len(v) = L - p
    BY <1>1, <2>1
  <2>4. \A i \in 1 .. L - p : v[i] = s[p + i]
    BY <2>1, <2>2
  <2> QED
    BY <2>1, <2>3, <2>4
<1>4. t = u \o v
  BY DEF RemoveAt
<1> HIDE DEF u, v
<1>5. t \in Seq(S) /\ Joint(t, u, p - 1, v, L - p)
  <2>1. p - 1 = Len(u) /\ L - p = Len(v)
    BY <1>2, <1>3
  <2> QED
    BY <1>2, <1>3, <1>4, <2>1, ConcatIs
<1>6. Len(t) = L - 1
  BY <1>1, <1>5 DEF Joint
<1>7. ASSUME NEW j \in 1 .. L - 1 PROVE t[j] = IF j < p THEN s[j] ELSE s[j + 1]
  <2>1. CASE j < p
    <3>1. j \in 1 .. p - 1 /\ t[j] = u[j]
      BY <1>1, <1>5, <2>1 DEF Joint
    <3> QED
      BY <1>2, <2>1, <3>1
  <2>2. CASE j >= p
    <3>1. /\ j - (p - 1) \in 1 .. L - p /\ (p - 1) + (j - (p - 1)) = j
          /\ p + (j - (p - 1)) = j + 1
      BY <1>1, <2>2
    <3>2. t[j] = v[j - (p - 1)]
      BY <1>5, <3>1 DEF Joint
    <3> QED
      BY <1>1, <1>3, <2>2, <3>1, <3>2
  <2> QED
    BY <1>1, <2>1, <2>2
<1> QED
  BY <1>5, <1>6, <1>7 DEF Removed

LEMMA InsertDistinct ==
    ASSUME NEW S, NEW s \in Seq(S), Distinct(s), NEW p \in 1 .. Len(s) + 1, NEW e,
           \A i \in 1 .. Len(s) : s[i] # e, NEW t, Inserted(t, s, p, e)
    PROVE  Distinct(t)
<1> DEFINE L == Len(s)
           at(j) == IF j < p THEN j ELSE j - 1
<1>1. L \in Nat /\ Len(t) = L + 1
  BY LenProperties DEF Inserted
<1>2. ASSUME NEW j \in 1 .. L + 1
      PROVE  IF j = p THEN t[j] = e ELSE at(j) \in 1 .. L /\ t[j] = s[at(j)] /\ t[j] # e
  BY <1>1 DEF Inserted
<1>3. ASSUME NEW i \in 1 .. L + 1, NEW j \in 1 .. L + 1, t[i] = t[j] PROVE i = j
  <2>1. CASE i = p \/ j = p
    BY <1>2, <1>3, <2>1
  <2>2. CASE i # p /\ j # p
    <3>1. at(i) \in 1 .. L /\ at(j) \in 1 .. L /\ s[at(i)] = s[at(j)]
      BY <1>2, <1>3, <2>2
    <3>2. at(i) = at(j)
      BY <3>1 DEF Distinct
    <3> QED
      BY <1>1, <2>2, <3>2
  <2> QED
    BY <2>1, <2>2
<1> QED
  BY <1>1, <1>3 DEF Distinct

LEMMA RemoveDistinct ==
    ASSUME NEW S, NEW s \in Seq(S), Distinct(s), NEW p \in 1 .. Len(s), NEW t, Removed(t, s, p)
    PROVE  Distinct(t)
<1> DEFINE L == Len(s)
           at(j) == IF j < p THEN j ELSE j + 1
<1>1. L \in Nat /\ Len(t) = L - 1
  BY LenProperties DEF Removed
<1>2. ASSUME NEW j \in 1 .. L - 1 PROVE at(j) \in 1 .. L /\ t[j] = s[at(j)]
  BY <1>1 DEF Removed
<1>3. ASSUME NEW i \in 1 .. L - 1, NEW j \in 1 .. L - 1, t[i] = t[j] PROVE i = j
  <2>1. at(i) = at(j)
    BY <1>2, <1>3 DEF Distinct
  <2> QED
    BY <1>1, <2>1
<1> QED
  BY <1>1, <1>3 DEF Distinct

-----------------------------------------------------------------------------
(* A container is a sequence of items.  What a step may do to its memory: the *)
(* items were s and are t, and every other item in use is left alone.         *)

In(b, s) == \E i \in 1 .. Len(s) : s[i] = b
Used(x, s) == \A i \in 1 .. Len(s) : s[i] \notin x.free

\* Every item in use after the step is in t, or was in use before and not in s.
Accounted(x, y, s, t) ==
    \A b \in Addr \ y.free : In(b, t) \/ (b \notin x.free /\ ~ In(b, s))

Change(x, y, s, t) ==
    /\ y \in Memory /\ t \in Seq(Addr) /\ Distinct(t) /\ Used(y, t)
    /\ \A b \in Addr : In(b, t) => In(b, s) \/ b \in x.free
    /\ \A b \in Addr \ x.free : ~ In(b, s) => b \notin y.free /\ Same(x, y, b)
    /\ Accounted(x, y, s, t)

LEMMA ChangeTwice ==
    ASSUME NEW x \in Memory, NEW y, NEW z, NEW s, NEW t, NEW u,
           Change(x, y, s, t), Change(y, z, t, u)
    PROVE  Change(x, z, s, u)
<1>1. y \in Memory /\ z \in Memory /\ u \in Seq(Addr) /\ Distinct(u) /\ Used(z, u)
  BY DEF Change
<1>2. ASSUME NEW b \in Addr, In(b, u) PROVE In(b, s) \/ b \in x.free
  BY <1>2 DEF Change
<1>3. ASSUME NEW b \in Addr \ x.free, ~ In(b, s) PROVE b \notin z.free /\ Same(x, z, b)
  <2>1. b \notin y.free /\ Same(x, y, b) /\ ~ In(b, t)
    BY <1>3 DEF Change
  <2>2. b \notin z.free /\ Same(y, z, b)
    BY <2>1 DEF Change
  <2> QED
    BY <2>1, <2>2 DEF Same, SamePrev, SameNext, SameData
<1>4. Accounted(x, z, s, u)
  <2>1. Accounted(x, y, s, t) /\ Accounted(y, z, t, u)
    BY DEF Change
  <2> QED
    BY <2>1 DEF Accounted
<1> QED
  BY <1>1, <1>2, <1>3, <1>4 DEF Change

LEMMA NoChange ==
    ASSUME NEW x \in Memory, NEW s \in Seq(Addr), Distinct(s), Used(x, s)
    PROVE  Change(x, x, s, s)
BY DEF Change, Accounted, Same, SamePrev, SameNext, SameData

\* An item joins or leaves the sequence.
LEMMA InsertedIn ==
    ASSUME NEW s \in Seq(Addr), NEW p \in 1 .. Len(s) + 1, NEW a, NEW t, Inserted(t, s, p, a),
           NEW b, b = a \/ In(b, s)
    PROVE  In(b, t)
<1>1. Len(s) \in Nat
  BY LenProperties
<1>2. CASE b = a
  BY <1>1, <1>2 DEF In, Inserted
<1>3. CASE In(b, s)
  <2>1. PICK i \in 1 .. Len(s) : s[i] = b
    BY <1>3 DEF In
  <2> DEFINE j == IF i < p THEN i ELSE i + 1
  <2>2. j \in 1 .. Len(s) + 1 /\ (i < p => j = i) /\ (~ (i < p) => j > p /\ j - 1 = i)
    BY <1>1
  <2> HIDE DEF j
  <2>3. t[j] = s[i] /\ j \in 1 .. Len(t)
    BY <1>1, <2>2 DEF Inserted
  <2> QED
    BY <2>1, <2>3 DEF In
<1> QED
  BY <1>2, <1>3

LEMMA RemovedIn ==
    ASSUME NEW s \in Seq(Addr), NEW p \in 1 .. Len(s), NEW t, Removed(t, s, p),
           NEW b, b # s[p], In(b, s)
    PROVE  In(b, t)
<1>1. Len(s) \in Nat
  BY LenProperties
<1>2. PICK i \in 1 .. Len(s) : s[i] = b
  BY DEF In
<1> DEFINE j == IF i < p THEN i ELSE i - 1
<1>3. i # p
  BY <1>2
<1>4. /\ j \in 1 .. Len(s) - 1
      /\ (i < p => j < p /\ j = i) /\ (~ (i < p) => ~ (j < p) /\ j + 1 = i)
  BY <1>1, <1>3
<1> HIDE DEF j
<1>5. t[j] = s[i] /\ j \in 1 .. Len(t)
  BY <1>1, <1>4 DEF Removed
<1> QED
  BY <1>2, <1>5 DEF In

LEMMA InsertChange ==
    ASSUME NEW x \in Memory, NEW s \in Seq(Addr), Distinct(s), Used(x, s),
           NEW p \in 1 .. Len(s) + 1, NEW a \in x.free, NEW t, t = InsertAt(s, p, a),
           NEW y \in Memory, y.free = x.free \ {a},
           \A b \in Addr \ x.free : ~ In(b, s) => Same(x, y, b)
    PROVE  Change(x, y, s, t) /\ Inserted(t, s, p, a)
<1>1. Len(s) \in Nat /\ a \in Addr /\ \A i \in 1 .. Len(s) : s[i] \in Addr
  BY ElementOfSeq, LenProperties DEF Memory
<1>2. t \in Seq(Addr) /\ Inserted(t, s, p, a)
  BY <1>1, InsertAtIs
<1>3. Distinct(t)
  <2>1. \A i \in 1 .. Len(s) : s[i] # a
    BY DEF Used
  <2> QED
    BY <1>2, <2>1, InsertDistinct
<1>4. ASSUME NEW j \in 1 .. Len(t) PROVE t[j] = a \/ In(t[j], s)
  BY <1>1, <1>2, <1>4 DEF Inserted, In
<1>5. Used(y, t)
  BY <1>4 DEF Used, In
<1>6. ASSUME NEW b \in Addr, In(b, t) PROVE In(b, s) \/ b \in x.free
  BY <1>4, <1>6 DEF In
<1>7. ASSUME NEW b, b = a \/ In(b, s) PROVE In(b, t)
  BY <1>7, <1>2, InsertedIn
<1>8. Accounted(x, y, s, t)
  BY <1>7 DEF Accounted
<1> QED
  BY <1>2, <1>3, <1>5, <1>6, <1>8 DEF Change

LEMMA RemoveChange ==
    ASSUME NEW x \in Memory, NEW s \in Seq(Addr), Distinct(s), Used(x, s),
           NEW p \in 1 .. Len(s), NEW t, t = RemoveAt(s, p),
           NEW y \in Memory, y.free = x.free \cup {s[p]},
           \A b \in Addr \ x.free : ~ In(b, s) => Same(x, y, b)
    PROVE  Change(x, y, s, t) /\ Removed(t, s, p)
<1>1. Len(s) \in Nat /\ \A i \in 1 .. Len(s) : s[i] \in Addr
  BY ElementOfSeq, LenProperties
<1>2. t \in Seq(Addr) /\ Removed(t, s, p)
  BY <1>1, RemoveAtIs
<1>3. Distinct(t)
  BY <1>2, RemoveDistinct
<1>4. ASSUME NEW j \in 1 .. Len(t) PROVE t[j] # s[p] /\ In(t[j], s)
  <2> DEFINE i == IF j < p THEN j ELSE j + 1
  <2>1. i \in 1 .. Len(s) /\ i # p /\ t[j] = s[i]
    BY <1>1, <1>2, <1>4 DEF Removed
  <2> QED
    BY <2>1 DEF In, Distinct
<1>5. Used(y, t)
  BY <1>4 DEF Used, In
<1>6. ASSUME NEW b \in Addr, In(b, t) PROVE In(b, s)
  BY <1>4, <1>6 DEF In
<1>7. ASSUME NEW b \in Addr \ x.free, ~ In(b, s) PROVE b \notin y.free
  BY <1>7 DEF In
<1>8. ASSUME NEW b, b # s[p], In(b, s) PROVE In(b, t)
  BY <1>2, <1>8, RemovedIn
<1>9. Accounted(x, y, s, t)
  BY <1>8 DEF Accounted
<1> QED
  BY <1>2, <1>3, <1>5, <1>6, <1>7, <1>9 DEF Change

-----------------------------------------------------------------------------
(* The lists of list.c *)

HeadOf(s) == IF Len(s) = 0 THEN Null ELSE s[1]
Linked(x, s) ==
    \A i \in 1 .. Len(s) : x.item[s[i]].prev = IF i < Len(s) THEN s[i + 1] ELSE Null
Backed(x, s) ==
    \A i \in 1 .. Len(s) : x.item[s[i]].next = IF i > 1 THEN s[i - 1] ELSE Null

LEMMA ListChain ==
    ASSUME NEW x, NEW s \in Seq(Addr), Distinct(s), Linked(x, s)
    PROVE  Chain(x, HeadOf(s), "prev", Null) = s
<1>1. Leads(x, s, "prev", Null, HeadOf(s), Null)
  BY ElementOfSeq, AddrAssumption DEF Leads, Linked, HeadOf
<1> QED
  BY <1>1, ChainIs DEF Ptr

\* jt_list_add
LEMMA AddKeeps ==
    ASSUME NEW x \in Memory, NEW s \in Seq(Addr), Distinct(s), Used(x, s), Linked(x, s),
           NEW a \in x.free, NEW d \in Contents, NEW y, y = list_add(x, HeadOf(s), a, d),
           NEW t, t = InsertAt(s, 1, a)
    PROVE  /\ Change(x, y, s, t) /\ Inserted(t, s, 1, a)
           /\ Linked(y, t) /\ (Backed(x, s) => Backed(y, t)) /\ HeadOf(t) = a
           /\ y.item[a].data = d /\ \A b \in Addr \ {a} : SameData(x, y, b)
<1>1. Len(s) \in Nat /\ \A i \in 1 .. Len(s) : s[i] \in Addr \ {Null}
  BY ElementOfSeq, LenProperties, AddrAssumption
<1>2. HeadOf(s) \in Ptr \ x.free /\ a \in Addr
  BY <1>1, AddrAssumption DEF HeadOf, Used, Ptr, Memory
<1>3. /\ y \in Memory /\ y.free = x.free \ {a} /\ y.item[a].data = d
      /\ y.item[a].prev = HeadOf(s) /\ y.item[a].next = Null
      /\ \A b \in Addr \ {a} :
           /\ SamePrev(x, y, b) /\ SameData(x, y, b)
           /\ y.item[b].next = IF b = HeadOf(s) THEN a ELSE x.item[b].next
  BY <1>2, AddIs
<1>4. \A b \in Addr \ x.free : ~ In(b, s) => Same(x, y, b)
  <2> SUFFICES ASSUME NEW b \in Addr \ x.free, ~ In(b, s) PROVE Same(x, y, b)
    OBVIOUS
  <2>1. b # HeadOf(s)
    BY <1>1, AddrAssumption DEF HeadOf, In
  <2> QED
    BY <1>3, <2>1 DEF Same, SameNext
<1>5. Change(x, y, s, t) /\ Inserted(t, s, 1, a)
  <2>1. 1 \in 1 .. Len(s) + 1
    BY <1>1
  <2> QED
    BY <1>3, <1>4, <2>1, InsertChange
<1>6. /\ Len(t) = Len(s) + 1 /\ t[1] = a
      /\ \A j \in 2 .. Len(s) + 1 : t[j] = s[j - 1] /\ j - 1 \in 1 .. Len(s)
  BY <1>1, <1>5 DEF Inserted
<1>7. \A i \in 1 .. Len(s) : s[i] # a
  BY DEF Used
<1>8. Linked(y, t)
  <2> SUFFICES ASSUME NEW j \in 1 .. Len(s) + 1
               PROVE  y.item[t[j]].prev = IF j < Len(s) + 1 THEN t[j + 1] ELSE Null
    BY <1>6 DEF Linked
  <2>1. CASE j = 1
    <3>1. Len(s) # 0 => t[2] = s[1]
      BY <1>1, <1>6
    <3> QED
      BY <1>1, <1>3, <1>6, <2>1, <3>1 DEF HeadOf
  <2>2. CASE j # 1
    <3>1. j - 1 \in 1 .. Len(s) /\ t[j] = s[j - 1]
      BY <1>1, <1>6, <2>2
    <3>2. y.item[t[j]].prev = x.item[s[j - 1]].prev
      BY <1>1, <1>3, <1>7, <3>1 DEF SamePrev
    <3>3. x.item[s[j - 1]].prev = IF j - 1 < Len(s) THEN s[(j - 1) + 1] ELSE Null
      BY <3>1 DEF Linked
    <3>4. j < Len(s) + 1 => t[j + 1] = s[(j - 1) + 1]
      <4> SUFFICES ASSUME j < Len(s) + 1 PROVE t[j + 1] = s[(j - 1) + 1]
        OBVIOUS
      <4>1. j + 1 \in 2 .. Len(s) + 1 /\ (j + 1) - 1 = (j - 1) + 1
        BY <1>1
      <4> QED
        BY <1>6, <4>1
    <3> QED
      BY <1>1, <3>1, <3>2, <3>3, <3>4
  <2> QED
    BY <2>1, <2>2
<1>9. ASSUME Backed(x, s) PROVE Backed(y, t)
  <2> SUFFICES ASSUME NEW j \in 1 .. Len(s) + 1
               PROVE  y.item[t[j]].next = IF j > 1 THEN t[j - 1] ELSE Null
    BY <1>6 DEF Backed
  <2>1. CASE j = 1
    BY <1>3, <1>6, <2>1
  <2>2. CASE j = 2
    <3>1. t[j] = s[1] /\ 1 \in 1 .. Len(s) /\ HeadOf(s) = s[1] /\ t[j - 1] = a
      BY <1>1, <1>6, <2>2 DEF HeadOf
    <3> QED
      BY <1>1, <1>3, <1>7, <2>2, <3>1
  <2>3. CASE j > 2
    <3>1. /\ j - 1 \in 1 .. Len(s) /\ t[j] = s[j - 1] /\ t[j - 1] = s[(j - 1) - 1]
          /\ j - 1 > 1 /\ 1 \in 1 .. Len(s) /\ HeadOf(s) = s[1]
      <4>1. j \in 2 .. Len(s) + 1 /\ j - 1 \in 2 .. Len(s) + 1 /\ j - 1 > 1 /\ Len(s) # 0
        BY <1>1, <2>3
      <4> QED
        BY <1>1, <1>6, <4>1 DEF HeadOf
    <3>2. s[j - 1] # s[1]
      BY <3>1 DEF Distinct
    <3>3. y.item[t[j]].next = x.item[s[j - 1]].next
      BY <1>1, <1>3, <1>7, <3>1, <3>2
    <3> QED
      BY <1>9, <2>3, <3>1, <3>3 DEF Backed
  <2> QED
    BY <1>1, <2>1, <2>2, <2>3
<1>10. HeadOf(t) = a
  BY <1>1, <1>6 DEF HeadOf
<1> QED
  BY <1>3, <1>5, <1>8, <1>9, <1>10

\* jt_list_removehead
LEMMA RemoveHeadKeeps ==
    ASSUME NEW x \in Memory, NEW s \in Seq(Addr), Distinct(s), Used(x, s), Linked(x, s),
           Len(s) # 0, NEW y, y = list_removehead(x, s[1]), NEW t, t = RemoveAt(s, 1)
    PROVE  /\ Change(x, y, s, t) /\ Removed(t, s, 1)
           /\ Linked(y, t) /\ HeadOf(t) = x.item[s[1]].prev
           /\ \A b \in Addr \ {s[1]} : SameData(x, y, b)
<1>1. /\ Len(s) \in Nat /\ 1 \in 1 .. Len(s)
      /\ \A i \in 1 .. Len(s) : s[i] \in Addr
  BY ElementOfSeq, LenProperties
<1>2. s[1] \in Addr \ x.free
  BY <1>1 DEF Used
<1>3. /\ y \in Memory /\ y.free = x.free \cup {s[1]}
      /\ \A b \in Addr \ {s[1]} : Same(x, y, b)
  BY <1>2, DeleteIs DEF list_removehead
<1>4. \A b \in Addr \ x.free : ~ In(b, s) => Same(x, y, b)
  BY <1>1, <1>3 DEF In
<1>5. Change(x, y, s, t) /\ Removed(t, s, 1)
  BY <1>1, <1>3, <1>4, RemoveChange
<1>6. /\ Len(t) = Len(s) - 1
      /\ \A j \in 1 .. Len(s) - 1 : t[j] = s[j + 1] /\ j + 1 \in 1 .. Len(s)
  BY <1>1, <1>5 DEF Removed
<1>7. Linked(y, t)
  <2> SUFFICES ASSUME NEW j \in 1 .. Len(s) - 1
               PROVE  y.item[t[j]].prev = IF j < Len(s) - 1 THEN t[j + 1] ELSE Null
    BY <1>6 DEF Linked
  <2>1. t[j] = s[j + 1] /\ j + 1 \in 1 .. Len(s) /\ j + 1 # 1
    BY <1>1, <1>6
  <2>2. s[j + 1] # s[1] /\ s[j + 1] \in Addr
    BY <1>1, <2>1 DEF Distinct
  <2>3. y.item[t[j]].prev = x.item[s[j + 1]].prev
    BY <1>3, <2>1, <2>2 DEF Same, SamePrev
  <2>4. x.item[s[j + 1]].prev = IF j + 1 < Len(s) THEN s[(j + 1) + 1] ELSE Null
    BY <2>1 DEF Linked
  <2>5. ASSUME j < Len(s) - 1 PROVE t[j + 1] = s[(j + 1) + 1]
    <3>1. j + 1 \in 1 .. Len(s) - 1
      BY <1>1, <2>5
    <3> QED
      BY <1>6, <3>1
  <2> QED
    BY <1>1, <2>3, <2>4, <2>5
<1>8. HeadOf(t) = x.item[s[1]].prev
  <2>1. x.item[s[1]].prev = IF 1 < Len(s) THEN s[1 + 1] ELSE Null
    BY <1>1 DEF Linked
  <2>2. ASSUME 1 < Len(s) PROVE t[1] = s[1 + 1]
    <3>1. 1 \in 1 .. Len(s) - 1
      BY <1>1, <2>2
    <3> QED
      BY <1>6, <3>1
  <2> QED
    BY <1>1, <1>6, <2>1, <2>2 DEF HeadOf
<1> QED
  BY <1>3, <1>5, <1>7, <1>8 DEF Same

\* jt_list_delinkitem
LEMMA DelinkKeeps ==
    ASSUME NEW x \in Memory, NEW s \in Seq(Addr), Distinct(s), Used(x, s),
           Linked(x, s), Backed(x, s), NEW p \in 1 .. Len(s),
           NEW y, y = list_delinkitem(x, s[p]), NEW t, t = RemoveAt(s, p)
    PROVE  /\ Change(x, y, s, t) /\ Removed(t, s, p)
           /\ Linked(y, t) /\ Backed(y, t) /\ HeadOf(t) = DelinkedHead(x, HeadOf(s), s[p])
           /\ \A b \in Addr \ {s[p]} : SameData(x, y, b)
<1> DEFINE L == Len(s)
           l == x.item[s[p]].prev
           r == x.item[s[p]].next
<1>1. /\ L \in Nat /\ \A i \in 1 .. L : s[i] \in Addr \ x.free /\ s[i] # Null
  BY ElementOfSeq, LenProperties, AddrAssumption DEF Used
<1>2. l = IF p < L THEN s[p + 1] ELSE Null
  BY DEF Linked
<1>3. r = IF p > 1 THEN s[p - 1] ELSE Null
  BY DEF Backed
<1>4. Null \notin x.free
  BY AddrAssumption DEF Memory
<1> HIDE DEF l, r
<1>5. l \in Ptr \ x.free /\ r \in Ptr \ x.free
  <2>1. p < L => p + 1 \in 1 .. L
    BY <1>1
  <2>2. p > 1 => p - 1 \in 1 .. L
    BY <1>1
  <2>3. l \in Ptr \ x.free
    BY <1>1, <1>2, <1>4, <2>1 DEF Ptr
  <2>4. r \in Ptr \ x.free
    BY <1>1, <1>3, <1>4, <2>2 DEF Ptr
  <2> QED
    BY <2>3, <2>4
<1>6. y \in Memory /\ y.free = x.free \cup {s[p]} /\ Unlinks(x, y, l, s[p], r)
  BY <1>1, <1>5, DelinkIs DEF l, r
<1>7. /\ l # s[p] /\ r # s[p]
      /\ \A i \in 1 .. L : (s[i] = l <=> i = p + 1) /\ (s[i] = r <=> i = p - 1)
  <2>1. ASSUME NEW i \in 1 .. L PROVE s[i] = l <=> i = p + 1
    <3>1. CASE p < L
      <4>1. p + 1 \in 1 .. L /\ l = s[p + 1]
        BY <1>1, <1>2, <3>1
      <4> QED
        BY <4>1 DEF Distinct
    <3>2. CASE ~ (p < L)
      BY <1>1, <1>2, <3>2
    <3> QED
      BY <3>1, <3>2
  <2>2. ASSUME NEW i \in 1 .. L PROVE s[i] = r <=> i = p - 1
    <3>1. CASE p > 1
      <4>1. p - 1 \in 1 .. L /\ r = s[p - 1]
        BY <1>1, <1>3, <3>1
      <4> QED
        BY <4>1 DEF Distinct
    <3>2. CASE ~ (p > 1)
      BY <1>1, <1>3, <3>2
    <3> QED
      BY <3>1, <3>2
  <2>3. p # p + 1 /\ p # p - 1
    OBVIOUS
  <2> QED
    BY <2>1, <2>2, <2>3
<1>8. \A b \in Addr \ x.free : ~ In(b, s) => Same(x, y, b)
  <2> SUFFICES ASSUME NEW b \in Addr \ x.free, ~ In(b, s) PROVE Same(x, y, b)
    OBVIOUS
  <2>1. b # s[p]
    BY DEF In
  <2>2. b # l
    <3>1. p < L => p + 1 \in 1 .. L
      BY <1>1
    <3> QED
      BY <1>2, <3>1, AddrAssumption DEF In
  <2>3. b # r
    <3>1. p > 1 => p - 1 \in 1 .. L
      BY <1>1
    <3> QED
      BY <1>3, <3>1, AddrAssumption DEF In
  <2> QED
    BY <1>6, <2>1, <2>2, <2>3 DEF Unlinks, Same, SamePrev, SameNext
<1>9. Change(x, y, s, t) /\ Removed(t, s, p)
  BY <1>6, <1>8, RemoveChange
<1> DEFINE at(j) == IF j < p THEN j ELSE j + 1
<1>10. /\ Len(t) = L - 1
       /\ \A j \in 1 .. L - 1 : t[j] = s[at(j)] /\ at(j) \in 1 .. L /\ at(j) # p
  BY <1>1, <1>9 DEF Removed
<1>11. ASSUME NEW i \in 1 .. L, i # p
       PROVE  /\ y.item[s[i]].prev = IF i = p - 1 THEN l ELSE IF i < L THEN s[i + 1] ELSE Null
              /\ y.item[s[i]].next = IF i = p + 1 THEN r ELSE IF i > 1 THEN s[i - 1] ELSE Null
  <2>1. s[i] \in Addr \ {s[p]}
    BY <1>1, <1>11 DEF Distinct
  <2>2. /\ y.item[s[i]].prev = IF i = p - 1 THEN l ELSE x.item[s[i]].prev
        /\ y.item[s[i]].next = IF i = p + 1 THEN r ELSE x.item[s[i]].next
    BY <1>6, <1>7, <2>1 DEF Unlinks
  <2> QED
    BY <2>2 DEF Linked, Backed
<1>12. Linked(y, t)
  <2> SUFFICES ASSUME NEW j \in 1 .. L - 1
               PROVE  y.item[t[j]].prev = IF j < L - 1 THEN t[j + 1] ELSE Null
    BY <1>10 DEF Linked
  <2>1. j < L - 1 => t[j + 1] = s[at(j + 1)]
    <3>1. j < L - 1 => j + 1 \in 1 .. L - 1
      BY <1>1
    <3> QED
      BY <1>10, <3>1
  <2>2. y.item[t[j]].prev =
          IF at(j) = p - 1 THEN l ELSE IF at(j) < L THEN s[at(j) + 1] ELSE Null
    <3> DEFINE i == at(j)
    <3>1. i \in 1 .. L /\ i # p /\ t[j] = s[i]
      BY <1>10
    <3> HIDE DEF i
    <3>2. y.item[s[i]].prev = IF i = p - 1 THEN l ELSE IF i < L THEN s[i + 1] ELSE Null
      BY <1>11, <3>1
    <3>3. y.item[t[j]].prev = IF i = p - 1 THEN l ELSE IF i < L THEN s[i + 1] ELSE Null
      BY <3>1, <3>2
    <3> QED
      BY <3>3 DEF i
  <2>3. CASE j < p - 1
    <3>1. at(j) = j /\ at(j + 1) = at(j) + 1 /\ at(j) # p - 1 /\ j < L - 1 /\ at(j) < L
      BY <1>1, <2>3
    <3> QED
      BY <2>1, <2>2, <3>1
  <2>4. CASE j = p - 1
    <3>1. at(j) = p - 1 /\ at(j + 1) = p + 1 /\ (j < L - 1 <=> p < L)
      BY <1>1, <2>4
    <3> QED
      BY <1>2, <2>1, <2>2, <3>1
  <2>5. CASE j > p - 1
    <3>1. at(j) # p - 1 /\ at(j + 1) = at(j) + 1 /\ (j < L - 1 <=> at(j) < L)
      BY <1>1, <2>5
    <3> QED
      BY <2>1, <2>2, <3>1
  <2> QED
    BY <1>1, <2>3, <2>4, <2>5
<1>13. Backed(y, t)
  <2> SUFFICES ASSUME NEW j \in 1 .. L - 1
               PROVE  y.item[t[j]].next = IF j > 1 THEN t[j - 1] ELSE Null
    BY <1>10 DEF Backed
  <2>1. j > 1 => t[j - 1] = s[at(j - 1)]
    <3>1. j > 1 => j - 1 \in 1 .. L - 1
      BY <1>1
    <3> QED
      BY <1>10, <3>1
  <2>2. y.item[t[j]].next =
          IF at(j) = p + 1 THEN r ELSE IF at(j) > 1 THEN s[at(j) - 1] ELSE Null
    <3> DEFINE i == at(j)
    <3>1. i \in 1 .. L /\ i # p /\ t[j] = s[i]
      BY <1>10
    <3> HIDE DEF i
    <3>2. y.item[s[i]].next = IF i = p + 1 THEN r ELSE IF i > 1 THEN s[i - 1] ELSE Null
      BY <1>11, <3>1
    <3>3. y.item[t[j]].next = IF i = p + 1 THEN r ELSE IF i > 1 THEN s[i - 1] ELSE Null
      BY <3>1, <3>2
    <3> QED
      BY <3>3 DEF i
  <2>3. CASE j < p
    <3>1. at(j) = j /\ (j > 1 => at(j - 1) = at(j) - 1) /\ at(j) # p + 1
      BY <1>1, <2>3
    <3> QED
      BY <2>1, <2>2, <3>1
  <2>4. CASE j = p
    <3>1. at(j) = p + 1 /\ at(j - 1) = p - 1 /\ (j > 1 <=> p > 1)
      BY <1>1, <2>4
    <3> QED
      BY <1>3, <2>1, <2>2, <3>1
  <2>5. CASE j > p
    <3>1. at(j) # p + 1 /\ at(j - 1) = at(j) - 1 /\ j > 1 /\ at(j) > 1
      BY <1>1, <2>5
    <3> QED
      BY <2>1, <2>2, <3>1
  <2> QED
    BY <1>1, <2>3, <2>4, <2>5
<1>14. HeadOf(t) = DelinkedHead(x, HeadOf(s), s[p])
  <2>1. HeadOf(s) = s[1] /\ 1 \in 1 .. L
    BY <1>1 DEF HeadOf
  <2>2. Get(x, s[p], "prev") = l
    BY <1>1 DEF Get, l
  <2>3. CASE p = 1
    <3>1. DelinkedHead(x, HeadOf(s), s[p]) = l
      BY <2>1, <2>2, <2>3 DEF DelinkedHead
    <3>2. L > 1 => t[1] = s[1 + 1]
      BY <1>1, <1>10, <2>3
    <3> QED
      BY <1>1, <1>2, <1>10, <2>3, <3>1, <3>2 DEF HeadOf
  <2>4. CASE p # 1
    <3>1. s[1] # s[p]
      BY <2>1, <2>4 DEF Distinct
    <3>2. DelinkedHead(x, HeadOf(s), s[p]) = s[1]
      BY <2>1, <3>1 DEF DelinkedHead
    <3>3. 1 \in 1 .. L - 1 /\ at(1) = 1
      BY <1>1, <2>4
    <3> QED
      BY <1>1, <1>10, <3>2, <3>3 DEF HeadOf
  <2> QED
    BY <2>3, <2>4
<1> QED
  BY <1>6, <1>9, <1>12, <1>13, <1>14 DEF Unlinks

\* The loop of jt_hash_nuke over one list
IsDestroy(f, x, s, N) ==
    f = [n \in 0 .. N |-> IF n = 0 THEN x ELSE list_removehead(f[n - 1], s[n])]

LEMMA DestroyExists ==
    ASSUME NEW x, NEW s, NEW N \in Nat PROVE \E f : IsDestroy(f, x, s, N)
<1> DEFINE S == {n \in 0 .. N : \E f : IsDestroy(f, x, s, n)}
<1>1. 0 \in S
  <2>1. IsDestroy([n \in 0 .. 0 |-> x], x, s, 0)
    BY DEF IsDestroy
  <2> QED
    BY <2>1
<1>2. \A n \in 0 .. N - 1 : n \in S => n + 1 \in S
  <2> SUFFICES ASSUME NEW n \in 0 .. N - 1, NEW f, IsDestroy(f, x, s, n)
               PROVE  \E g : IsDestroy(g, x, s, n + 1)
    OBVIOUS
  <2> DEFINE g == [k \in 0 .. n + 1 |->
                     IF k = n + 1 THEN list_removehead(f[n], s[n + 1]) ELSE f[k]]
  <2>1. \A k \in 0 .. n + 1 : g[k] = IF k = 0 THEN x ELSE list_removehead(g[k - 1], s[k])
    <3> SUFFICES ASSUME NEW k \in 0 .. n + 1
                 PROVE  g[k] = IF k = 0 THEN x ELSE list_removehead(g[k - 1], s[k])
      OBVIOUS
    <3>1. CASE k = n + 1
      BY <3>1
    <3>2. CASE k # n + 1
      <4>1. k \in 0 .. n /\ (k # 0 => k - 1 \in 0 .. n)
        BY <3>2
      <4>2. f[k] = IF k = 0 THEN x ELSE list_removehead(f[k - 1], s[k])
        BY <4>1 DEF IsDestroy
      <4> QED
        BY <3>2, <4>1, <4>2
    <3> QED
      BY <3>1, <3>2
  <2>2. IsDestroy(g, x, s, n + 1)
    BY <2>1 DEF IsDestroy
  <2> QED
    BY <2>2
<1> HIDE DEF S
<1>3. N \in S
  BY <1>1, <1>2, Induct
<1> QED
  BY <1>3 DEF S

\* What is left of the sequence s when n items are gone
Behind(t, s, n) ==
    Len(t) = Len(s) - n /\ \A j \in 1 .. Len(s) - n : t[j] = s[n + j]

LEMMA DestroyIs ==
    ASSUME NEW x \in Memory, NEW s \in Seq(Addr), Distinct(s), Used(x, s), Linked(x, s),
           NEW y, y = list_destroy(x, HeadOf(s))
    PROVE  Change(x, y, s, << >>)
<1> DEFINE L == Len(s)
           f == CHOOSE f : IsDestroy(f, x, s, L)
<1>1. L \in Nat
  BY LenProperties
<1>2. IsDestroy(f, x, s, L)
  BY <1>1, DestroyExists
<1>3. y = f[L]
  <2>1. Chain(x, HeadOf(s), "prev", Null) = s
    BY ListChain
  <2> QED
    BY <2>1, Zenon DEF list_destroy, IsDestroy
<1> HIDE DEF f, L
<1>4. f[0] = x /\ \A n \in 1 .. L : f[n] = list_removehead(f[n - 1], s[n])
  BY <1>1, <1>2 DEF IsDestroy
<1> DEFINE S == {n \in 0 .. L : \E t : Change(x, f[n], s, t) /\ Linked(f[n], t)
                                        /\ Behind(t, s, n)}
<1>5. 0 \in S
  <2>1. Change(x, f[0], s, s) /\ Linked(f[0], s)
    BY <1>4, NoChange
  <2>2. Behind(s, s, 0)
    BY <1>1 DEF Behind, L
  <2> QED
    BY <1>1, <2>1, <2>2
<1>6. ASSUME NEW n \in 0 .. L - 1, n \in S PROVE n + 1 \in S
  <2>1. PICK t : Change(x, f[n], s, t) /\ Linked(f[n], t) /\ Behind(t, s, n)
    BY <1>6
  <2> DEFINE u == RemoveAt(t, 1)
  <2>2. /\ Len(t) = L - n /\ Len(t) # 0 /\ t[1] = s[n + 1]
        /\ \A j \in 1 .. L - n : t[j] = s[n + j]
    BY <1>1, <2>1 DEF Behind, L
  <2>3. f[n + 1] = list_removehead(f[n], t[1])
    <3>1. n + 1 \in 1 .. L /\ (n + 1) - 1 = n
      BY <1>1
    <3> QED
      BY <1>4, <2>2, <3>1
  <2>4. /\ f[n] \in Memory /\ t \in Seq(Addr) /\ Distinct(t) /\ Used(f[n], t)
    BY <2>1 DEF Change
  <2>5. Change(f[n], f[n + 1], t, u) /\ Removed(u, t, 1) /\ Linked(f[n + 1], u)
    BY <2>1, <2>2, <2>3, <2>4, RemoveHeadKeeps
  <2>6. Change(x, f[n + 1], s, u)
    BY <2>1, <2>5, ChangeTwice
  <2> HIDE DEF u
  <2>7. Behind(u, s, n + 1)
    <3>1. Len(u) = L - (n + 1)
      BY <1>1, <2>2, <2>5 DEF Removed
    <3>2. ASSUME NEW j \in 1 .. L - (n + 1) PROVE u[j] = s[(n + 1) + j]
      <4>1. j \in 1 .. Len(t) - 1 /\ j + 1 \in 1 .. L - n /\ n + (j + 1) = (n + 1) + j
        BY <1>1, <2>2
      <4>2. u[j] = t[j + 1]
        BY <2>5, <4>1 DEF Removed
      <4> QED
        BY <2>2, <4>1, <4>2
    <3> QED
      BY <3>1, <3>2 DEF Behind, L
  <2> QED
    BY <1>1, <2>5, <2>6, <2>7
<1> HIDE DEF S
<1>7. L \in S
  <2>1. \A n \in 0 .. L : n \in S
    BY <1>1, <1>5, <1>6, Induct
  <2> QED
    BY <1>1, <2>1
<1>8. PICK t : Change(x, f[L], s, t) /\ Behind(t, s, L)
  BY <1>7 DEF S
<1>9. t = << >>
  <2>1. t \in Seq(Addr) /\ Len(t) = 0
    BY <1>1, <1>8 DEF Change, Behind, L
  <2> QED
    BY <2>1, EmptySeq
<1> QED
  BY <1>3, <1>8, <1>9

\* jt_list_reverse
IsReverse(f, x, s, N) ==
    f = [n \in 0 .. N |-> IF n = 0 THEN x ELSE Turned(f[n - 1], s[n])]

LEMMA ReverseExists ==
    ASSUME NEW x, NEW s, NEW N \in Nat PROVE \E f : IsReverse(f, x, s, N)
<1> DEFINE S == {n \in 0 .. N : \E f : IsReverse(f, x, s, n)}
<1>1. 0 \in S
  <2>1. IsReverse([n \in 0 .. 0 |-> x], x, s, 0)
    BY DEF IsReverse
  <2> QED
    BY <2>1
<1>2. \A n \in 0 .. N - 1 : n \in S => n + 1 \in S
  <2> SUFFICES ASSUME NEW n \in 0 .. N - 1, NEW f, IsReverse(f, x, s, n)
               PROVE  \E g : IsReverse(g, x, s, n + 1)
    OBVIOUS
  <2> DEFINE g == [k \in 0 .. n + 1 |->
                     IF k = n + 1 THEN Turned(f[n], s[n + 1]) ELSE f[k]]
  <2>1. \A k \in 0 .. n + 1 : g[k] = IF k = 0 THEN x ELSE Turned(g[k - 1], s[k])
    <3> SUFFICES ASSUME NEW k \in 0 .. n + 1
                 PROVE  g[k] = IF k = 0 THEN x ELSE Turned(g[k - 1], s[k])
      OBVIOUS
    <3>1. CASE k = n + 1
      BY <3>1
    <3>2. CASE k # n + 1
      <4>1. k \in 0 .. n /\ (k # 0 => k - 1 \in 0 .. n)
        BY <3>2
      <4>2. f[k] = IF k = 0 THEN x ELSE Turned(f[k - 1], s[k])
        BY <4>1 DEF IsReverse
      <4> QED
        BY <3>2, <4>1, <4>2
    <3> QED
      BY <3>1, <3>2
  <2>2. IsReverse(g, x, s, n + 1)
    BY <2>1 DEF IsReverse
  <2> QED
    BY <2>2
<1> HIDE DEF S
<1>3. N \in S
  BY <1>1, <1>2, Induct
<1> QED
  BY <1>3 DEF S

\* The links of the first n items have changed places.
Swapped(x, z, s, n) ==
    /\ z \in Memory /\ z.free = x.free
    /\ \A i \in 1 .. Len(s) :
         /\ z.item[s[i]].prev = IF i <= n THEN x.item[s[i]].next ELSE x.item[s[i]].prev
         /\ z.item[s[i]].next = IF i <= n THEN x.item[s[i]].prev ELSE x.item[s[i]].next
    /\ \A b \in Addr : SameData(x, z, b) /\ (~ In(b, s) => Same(x, z, b))

LEMMA ReverseKeeps ==
    ASSUME NEW x \in Memory, NEW s \in Seq(Addr), Distinct(s), Used(x, s),
           Linked(x, s), Backed(x, s), NEW y, y = list_reverse(x, HeadOf(s)),
           NEW t, t = Reverse(s)
    PROVE  /\ Change(x, y, s, t) /\ Linked(y, t) /\ Backed(y, t)
           /\ HeadOf(t) = ReversedHead(x, HeadOf(s)) /\ \A b \in Addr : SameData(x, y, b)
<1> DEFINE L == Len(s)
           f == CHOOSE f : IsReverse(f, x, s, L)
<1>1. L \in Nat /\ \A i \in 1 .. L : s[i] \in Addr \ x.free /\ s[i] # Null
  BY ElementOfSeq, LenProperties, AddrAssumption DEF Used
<1>2. IsReverse(f, x, s, L)
  BY <1>1, ReverseExists
<1>c. Chain(x, HeadOf(s), "prev", Null) = s
  BY ListChain
<1>3. y = f[L]
  BY <1>c, Zenon DEF list_reverse, IsReverse
<1> HIDE DEF f, L
<1>4. f[0] = x /\ \A n \in 1 .. L : f[n] = Turned(f[n - 1], s[n])
  BY <1>1, <1>2 DEF IsReverse
<1> DEFINE S == {n \in 0 .. L : Swapped(x, f[n], s, n)}
<1>5. 0 \in S
  BY <1>1, <1>4 DEF Swapped, Same, SamePrev, SameNext, SameData, L
<1>6. ASSUME NEW n \in 0 .. L - 1, n \in S PROVE n + 1 \in S
  <2>1. Swapped(x, f[n], s, n)
    BY <1>6
  <2>2. n + 1 \in 1 .. L /\ (n + 1) - 1 = n
    BY <1>1
  <2> DEFINE w == f[n]
             z == f[n + 1]
             a == s[n + 1]
  <2>3. z = Turned(w, a)
    BY <1>4, <2>2
  <2>4. w \in Memory /\ w.free = x.free /\ a \in Addr \ x.free
    BY <1>1, <2>1, <2>2 DEF Swapped
  <2>5. /\ z \in Memory /\ z.free = w.free
        /\ z.item[a].prev = w.item[a].next /\ z.item[a].next = w.item[a].prev
        /\ SameData(w, z, a)
        /\ \A b \in Addr \ {a} : Same(w, z, b)
    <3> HIDE DEF w, z, a
    <3> QED
      BY <2>3, <2>4, TurnedIs
  <2>6. ASSUME NEW i \in 1 .. L
        PROVE  /\ z.item[s[i]].prev =
                    IF i <= n + 1 THEN x.item[s[i]].next ELSE x.item[s[i]].prev
               /\ z.item[s[i]].next =
                    IF i <= n + 1 THEN x.item[s[i]].prev ELSE x.item[s[i]].next
    <3>1. /\ w.item[s[i]].prev = IF i <= n THEN x.item[s[i]].next ELSE x.item[s[i]].prev
          /\ w.item[s[i]].next = IF i <= n THEN x.item[s[i]].prev ELSE x.item[s[i]].next
      BY <2>1 DEF Swapped, L
    <3>2. CASE i = n + 1
      BY <1>1, <2>5, <3>1, <3>2
    <3>3. CASE i # n + 1
      <4>1. s[i] \in Addr \ {a} /\ (i <= n <=> i <= n + 1)
        BY <1>1, <2>2, <3>3 DEF Distinct, L
      <4> HIDE DEF w, z, a
      <4> QED
        BY <2>5, <3>1, <4>1 DEF Same, SamePrev, SameNext
    <3> QED
      BY <3>2, <3>3
  <2>7. ASSUME NEW b \in Addr PROVE SameData(x, z, b) /\ (~ In(b, s) => Same(x, z, b))
    <3>1. SameData(x, w, b) /\ (~ In(b, s) => Same(x, w, b) /\ b # a)
      BY <2>1, <2>2 DEF Swapped, In, L
    <3> HIDE DEF w, z, a
    <3> QED
      BY <2>5, <3>1 DEF Same, SamePrev, SameNext, SameData
  <2>8. Swapped(x, z, s, n + 1)
    <3> HIDE DEF z
    <3> QED
      BY <2>4, <2>5, <2>6, <2>7 DEF Swapped, L
  <2> QED
    BY <1>1, <2>8
<1> HIDE DEF S
<1>7. L \in S
  <2>1. \A n \in 0 .. L : n \in S
    BY <1>1, <1>5, <1>6, Induct
  <2> QED
    BY <1>1, <2>1
<1>8. Swapped(x, y, s, L)
  BY <1>3, <1>7 DEF S
<1>9. /\ t \in Seq(Addr) /\ Len(t) = L
      /\ \A j \in 1 .. L : t[j] = s[(L - j) + 1] /\ (L - j) + 1 \in 1 .. L
  <2>1. t = [i \in 1 .. L |-> s[(L - i) + 1]]
    BY DEF Reverse, L
  <2>2. \A j \in 1 .. L : (L - j) + 1 \in 1 .. L
    BY <1>1
  <2> QED
    BY <1>1, <2>1, <2>2
<1>10. Distinct(t)
  <2> SUFFICES ASSUME NEW i \in 1 .. L, NEW j \in 1 .. L, t[i] = t[j] PROVE i = j
    BY <1>9 DEF Distinct
  <2> DEFINE a == (L - i) + 1
             b == (L - j) + 1
  <2>1. a \in 1 .. L /\ b \in 1 .. L /\ s[a] = s[b]
    BY <1>9
  <2> HIDE DEF a, b
  <2>2. a = b
    BY <2>1 DEF Distinct, L
  <2> QED
    BY <1>1, <2>2 DEF a, b
<1>11. \A b \in Addr : In(b, t) <=> In(b, s)
  <2>1. ASSUME NEW b, In(b, s) PROVE In(b, t)
    <3>1. PICK i \in 1 .. L : s[i] = b
      BY <2>1 DEF In, L
    <3>2. (L - i) + 1 \in 1 .. L /\ (L - ((L - i) + 1)) + 1 = i
      BY <1>1
    <3> QED
      BY <1>9, <3>1, <3>2 DEF In
  <2>2. ASSUME NEW b, In(b, t) PROVE In(b, s)
    BY <1>9, <2>2 DEF In, L
  <2> QED
    BY <2>1, <2>2
<1>12. Change(x, y, s, t)
  <2>1. Used(y, t)
    BY <1>1, <1>8, <1>9 DEF Used, Swapped
  <2>2. Accounted(x, y, s, t)
    BY <1>8, <1>11 DEF Accounted, Swapped
  <2> QED
    BY <1>8, <1>9, <1>10, <1>11, <2>1, <2>2 DEF Change, Swapped
<1>13. Linked(y, t)
  <2> SUFFICES ASSUME NEW j \in 1 .. L
               PROVE  y.item[t[j]].prev = IF j < L THEN t[j + 1] ELSE Null
    BY <1>9 DEF Linked
  <2> DEFINE i == (L - j) + 1
  <2>1. i \in 1 .. L /\ t[j] = s[i] /\ (j < L <=> i > 1) /\ i <= L
    BY <1>1, <1>9
  <2>2. j < L => t[j + 1] = s[i - 1]
    <3>1. j < L => j + 1 \in 1 .. L /\ (L - (j + 1)) + 1 = i - 1
      BY <1>1
    <3> HIDE DEF i
    <3>2. ASSUME NEW k \in 1 .. L, (L - k) + 1 = i - 1 PROVE t[k] = s[i - 1]
      BY <1>9, <3>2
    <3> QED
      BY <3>1, <3>2
  <2> HIDE DEF i
  <2>3. y.item[s[i]].prev = x.item[s[i]].next
    BY <1>8, <2>1 DEF Swapped, L
  <2>4. x.item[s[i]].next = IF i > 1 THEN s[i - 1] ELSE Null
    BY <2>1 DEF Backed, L
  <2> QED
    BY <2>1, <2>2, <2>3, <2>4
<1>14. Backed(y, t)
  <2> SUFFICES ASSUME NEW j \in 1 .. L
               PROVE  y.item[t[j]].next = IF j > 1 THEN t[j - 1] ELSE Null
    BY <1>9 DEF Backed
  <2> DEFINE i == (L - j) + 1
  <2>1. i \in 1 .. L /\ t[j] = s[i] /\ (j > 1 <=> i < L) /\ i <= L
    BY <1>1, <1>9
  <2>2. j > 1 => t[j - 1] = s[i + 1]
    <3>1. j > 1 => j - 1 \in 1 .. L /\ (L - (j - 1)) + 1 = i + 1
      BY <1>1
    <3> HIDE DEF i
    <3>2. ASSUME NEW k \in 1 .. L, (L - k) + 1 = i + 1 PROVE t[k] = s[i + 1]
      BY <1>9, <3>2
    <3> QED
      BY <3>1, <3>2
  <2> HIDE DEF i
  <2>3. y.item[s[i]].next = x.item[s[i]].prev
    BY <1>8, <2>1 DEF Swapped, L
  <2>4. x.item[s[i]].prev = IF i < L THEN s[i + 1] ELSE Null
    BY <2>1 DEF Linked, L
  <2> QED
    BY <2>1, <2>2, <2>3, <2>4
<1>15. HeadOf(t) = ReversedHead(x, HeadOf(s))
  <2>1. CASE L = 0
    BY <1>9, <2>1 DEF HeadOf, ReversedHead, L
  <2>2. CASE L # 0
    <3>1. HeadOf(s) # Null
      <4>1. 1 \in 1 .. L
        BY <1>1, <2>2
      <4> QED
        BY <1>1, <2>2, <4>1 DEF HeadOf, L
    <3>2. ReversedHead(x, HeadOf(s)) = s[L]
      BY <1>c, <3>1 DEF ReversedHead, Last, L
    <3>3. t[1] = s[L]
      <4>1. 1 \in 1 .. L /\ (L - 1) + 1 = L
        BY <1>1, <2>2
      <4> QED
        BY <1>9, <4>1
    <3> QED
      BY <1>9, <2>2, <3>2, <3>3 DEF HeadOf
  <2> QED
    BY <2>1, <2>2
<1> QED
  BY <1>8, <1>12, <1>13, <1>14, <1>15 DEF Swapped

-----------------------------------------------------------------------------
(* The chains of the hash table *)

KeyAt(x, b) == x.item[b].data.key

\* The items of a chain hold entries of different keys, which hash to i.
Keyed(x, s, i) ==
    /\ \A j \in 1 .. Len(s) : x.item[s[j]].data \in Entries /\ HASHFN(KeyAt(x, s[j])) = i
    /\ \A j, k \in 1 .. Len(s) : KeyAt(x, s[j]) = KeyAt(x, s[k]) => j = k
BucketOk(x, s, i) == Linked(x, s) /\ Backed(x, s) /\ Keyed(x, s, i)

Miss(x, s, k) == \A j \in 1 .. Len(s) : KeyAt(x, s[j]) # k
Hit(x, s, k, p) == p \in 1 .. Len(s) /\ KeyAt(x, s[p]) = k

FirstHit(x, s, k) ==
  LET hits == {n \in DOMAIN s : x.item[s[n]].data.key = k}
  IN IF hits = {} THEN Null
     ELSE s[CHOOSE n \in hits : \A i \in hits : n <= i]

\* jt_hash_lookup finds the one item of the chain that has the key.
LEMMA FoundIs ==
    ASSUME NEW k, NEW s \in Seq(Addr), Bucket(k) = s
    PROVE  \/ Found(k) = Null /\ Miss(m, s, k)
           \/ \E p \in 1 .. Len(s) : Found(k) = s[p] /\ Found(k) # Null /\ Hit(m, s, k, p)
<1> DEFINE hits == {n \in DOMAIN s : m.item[s[n]].data.key = k}
           p == CHOOSE n \in hits : \A i \in hits : n <= i
<1>1. Found(k) = IF hits = {} THEN Null ELSE s[p]
  <2>1. Found(k) = FirstHit(m, Bucket(k), k)
    BY DEF Found, FirstHit
  <2>2. Found(k) = FirstHit(m, s, k)
    BY <2>1
  <2> QED
    BY <2>2 DEF FirstHit
<1>2. Len(s) \in Nat /\ DOMAIN s = 1 .. Len(s) /\ \A i \in 1 .. Len(s) : s[i] \in Addr
  BY ElementOfSeq, LenProperties
<1>3. CASE hits = {}
  <2>1. Miss(m, s, k)
    BY <1>2, <1>3 DEF Miss, KeyAt
  <2> QED
    BY <1>1, <1>3, <2>1
<1>4. CASE hits # {}
  <2>1. \E n \in hits : \A i \in hits : n <= i
    <3>1. hits \subseteq Nat
      BY <1>2
    <3> HIDE DEF hits
    <3> QED
      BY <1>4, <3>1, Least
  <2>2. p \in hits
    <3> HIDE DEF hits
    <3> QED
      BY <2>1
  <2> HIDE DEF p
  <2>3. Hit(m, s, k, p) /\ s[p] # Null
    BY <1>2, <2>2, AddrAssumption DEF Hit, KeyAt
  <2> QED
    BY <1>1, <1>4, <2>3 DEF Hit
<1> QED
  BY <1>3, <1>4

\* The loop of jt_hash_remove
IsRemove(f, x, s, k, N) ==
    f = [n \in 0 .. N |-> IF n = 0 THEN x ELSE Without(f[n - 1], s[n], k)]

LEMMA RemoveExists ==
    ASSUME NEW x, NEW s, NEW k, NEW N \in Nat PROVE \E f : IsRemove(f, x, s, k, N)
<1> DEFINE S == {n \in 0 .. N : \E f : IsRemove(f, x, s, k, n)}
<1>1. 0 \in S
  <2>1. IsRemove([n \in 0 .. 0 |-> x], x, s, k, 0)
    BY DEF IsRemove
  <2> QED
    BY <2>1
<1>2. \A n \in 0 .. N - 1 : n \in S => n + 1 \in S
  <2> SUFFICES ASSUME NEW n \in 0 .. N - 1, NEW f, IsRemove(f, x, s, k, n)
               PROVE  \E g : IsRemove(g, x, s, k, n + 1)
    OBVIOUS
  <2> DEFINE g == [i \in 0 .. n + 1 |->
                     IF i = n + 1 THEN Without(f[n], s[n + 1], k) ELSE f[i]]
  <2>1. \A i \in 0 .. n + 1 : g[i] = IF i = 0 THEN x ELSE Without(g[i - 1], s[i], k)
    <3> SUFFICES ASSUME NEW i \in 0 .. n + 1
                 PROVE  g[i] = IF i = 0 THEN x ELSE Without(g[i - 1], s[i], k)
      OBVIOUS
    <3>1. CASE i = n + 1
      BY <3>1
    <3>2. CASE i # n + 1
      <4>1. i \in 0 .. n /\ (i # 0 => i - 1 \in 0 .. n)
        BY <3>2
      <4>2. f[i] = IF i = 0 THEN x ELSE Without(f[i - 1], s[i], k)
        BY <4>1 DEF IsRemove
      <4> QED
        BY <3>2, <4>1, <4>2
    <3> QED
      BY <3>1, <3>2
  <2>2. IsRemove(g, x, s, k, n + 1)
    BY <2>1 DEF IsRemove
  <2> QED
    BY <2>2
<1> HIDE DEF S
<1>3. N \in S
  BY <1>1, <1>2, Induct
<1> QED
  BY <1>3 DEF S

\* Only the item with the key is taken out.
LEMMA RemoveRuns ==
    ASSUME NEW x, NEW s, NEW k, NEW N \in Nat, N = Len(s), NEW f, IsRemove(f, x, s, k, N),
           NEW z, z = x.m, Miss(z, s, k)
    PROVE  f[N] = x
<1>1. f[0] = x /\ \A n \in 1 .. N : f[n] = Without(f[n - 1], s[n], k)
  BY DEF IsRemove
<1> DEFINE S == {n \in 0 .. N : f[n] = x}
<1>2. 0 \in S
  BY <1>1
<1>3. ASSUME NEW n \in 0 .. N - 1, n \in S PROVE n + 1 \in S
  <2>1. n + 1 \in 1 .. N /\ (n + 1) - 1 = n
    OBVIOUS
  <2>2. f[n + 1] = Without(x, s[n + 1], k)
    BY <1>1, <1>3, <2>1
  <2>3. x.m.item[s[n + 1]].data.key # k
    BY <2>1 DEF Miss, KeyAt
  <2> QED
    BY <2>1, <2>2, <2>3 DEF Without
<1> HIDE DEF S
<1>4. \A n \in 0 .. N : n \in S
  BY <1>2, <1>3, Induct
<1> QED
  BY <1>4 DEF S

LEMMA RemoveRunsOnce ==
    ASSUME NEW x, NEW s, NEW k, NEW N \in Nat, N = Len(s), NEW f, IsRemove(f, x, s, k, N),
           NEW p \in 1 .. N,
           NEW z, z = x.m, KeyAt(z, s[p]) = k,
           \A j \in 1 .. N : j # p => KeyAt(z, s[j]) # k,
           NEW y, y = list_delinkitem(z, s[p]),
           \A j \in 1 .. N : j # p => KeyAt(y, s[j]) # k
    PROVE  f[N] = [m |-> y, head |-> DelinkedHead(z, x.head, s[p]),
                   data |-> z.item[s[p]].data.data]
<1> DEFINE e == [m |-> y, head |-> DelinkedHead(z, x.head, s[p]),
                 data |-> z.item[s[p]].data.data]
<1>1. f[0] = x /\ \A n \in 1 .. N : f[n] = Without(f[n - 1], s[n], k)
  BY DEF IsRemove
<1>e. Without(x, s[p], k) = e /\ e.m = y
  BY DEF Without, KeyAt
<1> HIDE DEF e
<1> DEFINE S == {n \in 0 .. N : f[n] = IF n < p THEN x ELSE e}
<1>2. 0 \in S
  BY <1>1
<1>3. ASSUME NEW n \in 0 .. N - 1, n \in S PROVE n + 1 \in S
  <2>1. n + 1 \in 1 .. N /\ (n + 1) - 1 = n
    OBVIOUS
  <2>2. f[n + 1] = Without(f[n], s[n + 1], k)
    BY <1>1, <2>1
  <2>3. CASE n + 1 < p
    <3>1. f[n] = x /\ z.item[s[n + 1]].data.key # k
      BY <1>3, <2>1, <2>3 DEF KeyAt
    <3>2. f[n + 1] = x
      BY <2>2, <3>1 DEF Without
    <3> QED
      BY <2>1, <2>3, <3>2
  <2>4. CASE n + 1 = p
    <3>1. f[n] = x
      BY <1>3, <2>4
    <3> QED
      BY <1>e, <2>1, <2>2, <2>4, <3>1
  <2>5. CASE n + 1 > p
    <3>1. f[n] = e /\ y.item[s[n + 1]].data.key # k
      BY <1>3, <2>1, <2>5 DEF KeyAt
    <3>2. f[n + 1] = e
      BY <1>e, <2>2, <3>1 DEF Without
    <3> QED
      BY <2>1, <2>5, <3>2
  <2> QED
    BY <2>1, <2>3, <2>4, <2>5
<1> HIDE DEF S
<1>4. \A n \in 0 .. N : n \in S
  BY <1>2, <1>3, Induct
<1> QED
  BY <1>4 DEF S, e

\* jt_hash_remove
Removes(s, k) ==
    \/ /\ Miss(m, s, k) /\ m' = m /\ ret' = Null
       /\ table' = [table EXCEPT ![HASHFN(k)] = HeadOf(s)]
    \/ \E p \in 1 .. Len(s) :
         /\ Hit(m, s, k, p)
         /\ m' = list_delinkitem(m, s[p])
         /\ ret' = m.item[s[p]].data.data
         /\ table' = [table EXCEPT ![HASHFN(k)] = DelinkedHead(m, HeadOf(s), s[p])]

LEMMA RemoveIs ==
    ASSUME NEW k, NEW s \in Seq(Addr), m \in Memory, Distinct(s), Used(m, s),
           NEW i, BucketOk(m, s, i), table[HASHFN(k)] = HeadOf(s), HashRemove(k)
    PROVE  Removes(s, k)
<1> DEFINE N == Len(s)
           x == [m |-> m, head |-> HeadOf(s), data |-> Null]
           f == CHOOSE f : IsRemove(f, x, s, k, N)
<1>1. N \in Nat /\ \A j \in 1 .. N : s[j] \in Addr
  BY ElementOfSeq, LenProperties
<1>2. IsRemove(f, x, s, k, N)
  BY <1>1, RemoveExists
<1>3. Bucket(k) = s
  BY ListChain DEF Bucket, BucketOk
<1>4. /\ m' = f[N].m
      /\ table' = [table EXCEPT ![HASHFN(k)] = f[N].head]
      /\ ret' = f[N].data
  BY <1>3, Zenon DEF HashRemove, IsRemove
<1>5. x.m = m /\ x.head = HeadOf(s) /\ x.data = Null
  OBVIOUS
<1> HIDE DEF f, x
<1>6. CASE Miss(m, s, k)
  <2>1. f[N] = x
    BY <1>1, <1>2, <1>5, <1>6, RemoveRuns
  <2> QED
    BY <1>4, <1>5, <1>6, <2>1 DEF Removes
<1>7. CASE ~ Miss(m, s, k)
  <2>1. PICK p \in 1 .. N : KeyAt(m, s[p]) = k
    BY <1>7 DEF Miss
  <2> DEFINE y == list_delinkitem(m, s[p])
  <2>2. \A j \in 1 .. N : j # p => KeyAt(m, s[j]) # k
    BY <2>1 DEF BucketOk, Keyed
  <2>3. \A b \in Addr \ {s[p]} : SameData(m, y, b)
    <3> DEFINE t == RemoveAt(s, p)
    <3> HIDE DEF y, t
    <3>1. y = list_delinkitem(m, s[p]) /\ t = RemoveAt(s, p)
      BY DEF y, t
    <3> QED
      BY <3>1, DelinkKeeps DEF BucketOk
  <2>4. \A j \in 1 .. N : j # p => KeyAt(y, s[j]) # k
    <3> HIDE DEF y
    <3> QED
      BY <1>1, <2>2, <2>3 DEF SameData, KeyAt, Distinct
  <2>5. f[N] = [m |-> y, head |-> DelinkedHead(m, x.head, s[p]),
                data |-> m.item[s[p]].data.data]
    <3> HIDE DEF y
    <3>1. y = list_delinkitem(m, s[p])
      BY DEF y
    <3> QED
      BY <1>1, <1>2, <1>5, <2>1, <2>2, <2>4, <3>1, RemoveRunsOnce
  <2>6. Hit(m, s, k, p)
    BY <2>1 DEF Hit
  <2>7. f[N].m = y /\ f[N].data = m.item[s[p]].data.data
        /\ f[N].head = DelinkedHead(m, HeadOf(s), s[p])
    <3> HIDE DEF y
    <3> QED
      BY <1>5, <2>5
  <2>8. m' = list_delinkitem(m, s[p]) /\ ret' = m.item[s[p]].data.data
        /\ table' = [table EXCEPT ![HASHFN(k)] = DelinkedHead(m, HeadOf(s), s[p])]
    BY <1>4, <2>7
  <2> HIDE DEF y
  <2> QED
    BY <2>6, <2>8 DEF Removes
<1> QED
  BY <1>6, <1>7

-----------------------------------------------------------------------------
(* The circular list of clist.c, whose first item is the sentry *)

After(s, i) == IF i < Len(s) THEN s[i + 1] ELSE s[1]
Pair(x, u, v) == x.item[u].next = v /\ x.item[v].prev = u
RingLinked(x, s) == \A i \in 1 .. Len(s) : Pair(x, s[i], After(s, i))

LEMMA AfterDistinct ==
    ASSUME NEW s \in Seq(Addr), Distinct(s), NEW i \in 1 .. Len(s), NEW j \in 1 .. Len(s),
           After(s, i) = After(s, j)
    PROVE  i = j
<1> DEFINE k(n) == IF n < Len(s) THEN n + 1 ELSE 1
<1>1. Len(s) \in Nat
  BY LenProperties
<1>2. k(i) \in 1 .. Len(s) /\ k(j) \in 1 .. Len(s)
  BY <1>1
<1>3. s[k(i)] = s[k(j)]
  BY DEF After
<1>4. k(i) = k(j)
  <2> HIDE DEF k
  <2> QED
    BY <1>2, <1>3 DEF Distinct
<1> QED
  BY <1>1, <1>4

LEMMA AfterIn ==
    ASSUME NEW s \in Seq(Addr), NEW i \in 1 .. Len(s)
    PROVE  After(s, i) \in Addr /\ In(After(s, i), s) /\ In(s[i], s) /\ s[i] \in Addr
<1>1. Len(s) \in Nat /\ \A k \in 1 .. Len(s) : s[k] \in Addr
  BY ElementOfSeq, LenProperties
<1>2. 1 \in 1 .. Len(s) /\ (i < Len(s) => i + 1 \in 1 .. Len(s))
  BY <1>1
<1> QED
  BY <1>1, <1>2 DEF After, In

\* Where an item of the longer or shorter sequence comes from
AtInsert(p, j) == IF j < p THEN j ELSE j - 1
AtRemove(p, j) == IF j < p THEN j ELSE j + 1

LEMMA InsertedAfter ==
    ASSUME NEW s \in Seq(Addr), NEW p \in 2 .. Len(s) + 1, NEW a, NEW t, Inserted(t, s, p, a),
           NEW j \in 1 .. Len(s) + 1, NEW i, i = AtInsert(p, j)
    PROVE  /\ Len(t) = Len(s) + 1
           /\ j = p => t[j] = a /\ After(t, j) = After(s, p - 1)
           /\ j = p - 1 => t[j] = s[p - 1] /\ After(t, j) = a
           /\ j # p /\ j # p - 1 =>
                i \in 1 .. Len(s) /\ i # p - 1 /\ t[j] = s[i] /\ After(t, j) = After(s, i)
<1> DEFINE L == Len(s)
<1>1. L \in Nat /\ Len(t) = L + 1
  BY LenProperties DEF Inserted
<1>2. \A n \in 1 .. L + 1 : t[n] = IF n < p THEN s[n] ELSE IF n = p THEN a ELSE s[n - 1]
  BY DEF Inserted
<1> HIDE DEF L
<1>3. t[1] = s[1]
  <2>1. 1 \in 1 .. L + 1 /\ 1 < p
    BY <1>1
  <2> QED
    BY <1>2, <2>1
<1>4. CASE j = p
  <2>1. t[j] = a
    BY <1>2, <1>4 DEF L
  <2>2. CASE j < L + 1
    <3>1. j + 1 \in 1 .. L + 1 /\ ~ (j + 1 < p) /\ j + 1 # p /\ (j + 1) - 1 = (p - 1) + 1
          /\ p - 1 < L
      BY <1>1, <1>4, <2>2
    <3>2. t[j + 1] = s[(p - 1) + 1]
      BY <1>2, <3>1
    <3> QED
      BY <1>1, <1>4, <2>1, <2>2, <3>1, <3>2 DEF After, L
  <2>3. CASE ~ (j < L + 1)
    <3>1. ~ (p - 1 < L)
      BY <1>1, <1>4, <2>3
    <3> QED
      BY <1>1, <1>3, <1>4, <2>1, <2>3, <3>1 DEF After, L
  <2> QED
    BY <2>2, <2>3
<1>5. CASE j = p - 1
  <2>1. j < p /\ j < L + 1 /\ j + 1 = p /\ p \in 1 .. L + 1 /\ j # p
    BY <1>1, <1>5 DEF L
  <2>2. t[j] = s[j] /\ t[p] = a
    BY <1>2, <2>1 DEF L
  <2> QED
    BY <1>1, <1>5, <2>1, <2>2 DEF After, L
<1>6. CASE j < p - 1
  <2>1. i = j /\ j < p /\ j + 1 < p /\ j + 1 \in 1 .. L + 1 /\ j < L /\ j < L + 1
        /\ j \in 1 .. L /\ j # p - 1 /\ j # p
    BY <1>1, <1>6 DEF AtInsert, L
  <2>2. t[j] = s[j] /\ t[j + 1] = s[j + 1]
    BY <1>2, <2>1 DEF L
  <2> QED
    BY <1>1, <2>1, <2>2 DEF After, L
<1>7. CASE j > p
  <2>1. i = j - 1 /\ ~ (j < p) /\ j # p /\ i \in 1 .. L /\ i # p - 1 /\ j # p - 1
        /\ (j < L + 1 <=> i < L)
    BY <1>1, <1>7 DEF AtInsert, L
  <2>2. t[j] = s[i]
    BY <1>2, <2>1 DEF L
  <2>3. CASE j < L + 1
    <3>1. j + 1 \in 1 .. L + 1 /\ ~ (j + 1 < p) /\ j + 1 # p /\ (j + 1) - 1 = i + 1
      BY <1>1, <1>7, <2>1, <2>3
    <3>2. t[j + 1] = s[i + 1]
      BY <1>2, <3>1
    <3> QED
      BY <1>1, <2>1, <2>2, <2>3, <3>2 DEF After, L
  <2>4. CASE ~ (j < L + 1)
    BY <1>1, <1>3, <2>1, <2>2, <2>4 DEF After, L
  <2> QED
    BY <2>3, <2>4
<1>8. j < p - 1 \/ j = p - 1 \/ j = p \/ j > p
  BY <1>1 DEF L
<1> QED
  BY <1>4, <1>5, <1>6, <1>7, <1>8

LEMMA RemovedAfter ==
    ASSUME NEW s \in Seq(Addr), NEW p \in 2 .. Len(s), NEW t, Removed(t, s, p),
           NEW j \in 1 .. Len(s) - 1, NEW i, i = AtRemove(p, j)
    PROVE  /\ Len(t) = Len(s) - 1
           /\ i \in 1 .. Len(s) /\ i # p /\ t[j] = s[i]
           /\ After(t, j) = IF i = p - 1 THEN After(s, p) ELSE After(s, i)
<1> DEFINE L == Len(s)
<1>1. L \in Nat /\ Len(t) = L - 1
  BY LenProperties DEF Removed
<1>2. \A n \in 1 .. L - 1 : t[n] = IF n < p THEN s[n] ELSE s[n + 1]
  BY DEF Removed
<1> HIDE DEF L
<1>3. t[1] = s[1]
  <2>1. 1 \in 1 .. L - 1 /\ 1 < p
    BY <1>1 DEF L
  <2> QED
    BY <1>2, <2>1
<1>4. CASE j = p - 1
  <2>1. i = j /\ i = p - 1 /\ j < p /\ i \in 1 .. L /\ i # p /\ (j < L - 1 <=> p < L)
    BY <1>1, <1>4 DEF AtRemove, L
  <2>2. t[j] = s[i]
    BY <1>2, <2>1 DEF L
  <2>3. CASE j < L - 1
    <3>1. j + 1 \in 1 .. L - 1 /\ ~ (j + 1 < p) /\ (j + 1) + 1 = p + 1
      BY <1>1, <1>4, <2>3
    <3>2. t[j + 1] = s[p + 1]
      BY <1>2, <3>1
    <3> QED
      BY <1>1, <2>1, <2>2, <2>3, <3>2 DEF After, L
  <2>4. CASE ~ (j < L - 1)
    BY <1>1, <1>3, <2>1, <2>2, <2>4 DEF After, L
  <2> QED
    BY <2>3, <2>4
<1>5. CASE j < p - 1
  <2>1. i = j /\ i # p - 1 /\ j < p /\ i \in 1 .. L /\ i # p /\ j < L - 1 /\ i < L
        /\ j + 1 < p /\ j + 1 \in 1 .. L - 1
    BY <1>1, <1>5 DEF AtRemove, L
  <2>2. t[j] = s[i] /\ t[j + 1] = s[i + 1]
    BY <1>2, <2>1 DEF L
  <2> QED
    BY <1>1, <2>1, <2>2 DEF After, L
<1>6. CASE j > p - 1
  <2>1. i = j + 1 /\ ~ (j < p) /\ i # p - 1 /\ i \in 1 .. L /\ i # p /\ (j < L - 1 <=> i < L)
    BY <1>1, <1>6 DEF AtRemove, L
  <2>2. t[j] = s[i]
    BY <1>2, <2>1 DEF L
  <2>3. CASE j < L - 1
    <3>1. j + 1 \in 1 .. L - 1 /\ ~ (j + 1 < p) /\ (j + 1) + 1 = i + 1
      BY <1>1, <1>6, <2>1, <2>3
    <3>2. t[j + 1] = s[i + 1]
      BY <1>2, <3>1
    <3> QED
      BY <1>1, <2>1, <2>2, <2>3, <3>2 DEF After, L
  <2>4. CASE ~ (j < L - 1)
    BY <1>1, <1>3, <2>1, <2>2, <2>4 DEF After, L
  <2> QED
    BY <2>3, <2>4
<1>7. j < p - 1 \/ j = p - 1 \/ j > p - 1
  BY <1>1 DEF L
<1> QED
  BY <1>1, <1>4, <1>5, <1>6, <1>7 DEF L

LEMMA RingInsert ==
    ASSUME NEW x, NEW y, NEW s \in Seq(Addr), Distinct(s), RingLinked(x, s),
           NEW p \in 2 .. Len(s) + 1, NEW a \in Addr, ~ In(a, s),
           NEW l, l = s[p - 1], NEW r, r = After(s, p - 1), Links(x, y, l, a, r),
           NEW t, Inserted(t, s, p, a)
    PROVE  RingLinked(y, t)
<1>1. Len(s) \in Nat /\ p - 1 \in 1 .. Len(s)
  BY LenProperties
<1>2. /\ l \in Addr /\ r \in Addr /\ l # a /\ r # a
      /\ \A i \in 1 .. Len(s) : s[i] \in Addr \ {a} /\ After(s, i) \in Addr \ {a}
  BY <1>1, AfterIn
<1>3. \A i \in 1 .. Len(s) : i # p - 1 => s[i] # l /\ After(s, i) # r
  BY <1>1, AfterDistinct DEF Distinct
<1>4. ASSUME NEW i \in 1 .. Len(s), i # p - 1 PROVE Pair(y, s[i], After(s, i))
  BY <1>2, <1>3, <1>4 DEF RingLinked, Pair, Links
<1>5. Pair(y, l, a) /\ Pair(y, a, r)
  BY <1>2 DEF Pair, Links
<1>6. Len(t) = Len(s) + 1
  BY DEF Inserted
<1> SUFFICES ASSUME NEW j \in 1 .. Len(s) + 1 PROVE Pair(y, t[j], After(t, j))
  BY <1>6 DEF RingLinked
<1> DEFINE i == AtInsert(p, j)
<1> HIDE DEF i
<1>7. i = AtInsert(p, j)
  BY DEF i
<1>8. /\ j = p => t[j] = a /\ After(t, j) = After(s, p - 1)
      /\ j = p - 1 => t[j] = s[p - 1] /\ After(t, j) = a
      /\ j # p /\ j # p - 1 =>
           i \in 1 .. Len(s) /\ i # p - 1 /\ t[j] = s[i] /\ After(t, j) = After(s, i)
  BY <1>7, InsertedAfter
<1> QED
  BY <1>4, <1>5, <1>8

LEMMA RingRemove ==
    ASSUME NEW x, NEW y, NEW s \in Seq(Addr), Distinct(s), RingLinked(x, s),
           NEW p \in 2 .. Len(s), NEW a, a = s[p],
           NEW l, l = s[p - 1], NEW r, r = After(s, p), Unlinks(x, y, l, a, r),
           NEW t, Removed(t, s, p)
    PROVE  RingLinked(y, t)
<1>1. Len(s) \in Nat /\ p - 1 \in 1 .. Len(s) /\ p \in 1 .. Len(s) /\ p - 1 # p
  BY LenProperties
<1>2. \A i \in 1 .. Len(s) : s[i] \in Addr /\ After(s, i) \in Addr
  BY AfterIn
<1>a. After(s, p - 1) = a
  BY <1>1 DEF After
<1>3. \A i \in 1 .. Len(s) : i # p => s[i] # a /\ After(s, i) # r
  BY <1>1, AfterDistinct DEF Distinct
<1>b. \A i \in 1 .. Len(s) : i # p - 1 => s[i] # l /\ After(s, i) # a
  BY <1>1, <1>a, AfterDistinct DEF Distinct
<1>4. ASSUME NEW i \in 1 .. Len(s), i # p, i # p - 1 PROVE Pair(y, s[i], After(s, i))
  <2>1. s[i] \in Addr \ {a} /\ After(s, i) \in Addr \ {a} /\ s[i] # l /\ After(s, i) # r
    BY <1>2, <1>3, <1>4, <1>b
  <2> QED
    BY <2>1 DEF RingLinked, Pair, Unlinks
<1>5. Pair(y, l, r)
  <2>1. l \in Addr \ {a} /\ r \in Addr \ {a}
    BY <1>1, <1>2, <1>3, <1>b
  <2> QED
    BY <2>1 DEF Pair, Unlinks
<1>6. Len(t) = Len(s) - 1
  BY DEF Removed
<1> SUFFICES ASSUME NEW j \in 1 .. Len(s) - 1 PROVE Pair(y, t[j], After(t, j))
  BY <1>6 DEF RingLinked
<1> DEFINE i == AtRemove(p, j)
<1> HIDE DEF i
<1>7. i = AtRemove(p, j)
  BY DEF i
<1>8. /\ i \in 1 .. Len(s) /\ i # p /\ t[j] = s[i]
      /\ After(t, j) = IF i = p - 1 THEN After(s, p) ELSE After(s, i)
  BY <1>7, RemovedAfter
<1> QED
  BY <1>4, <1>5, <1>8

RingOk(x, s) ==
    /\ Len(s) # 0 /\ s[1] = Sentry /\ RingLinked(x, s)
    /\ \A i \in 2 .. Len(s) : x.item[s[i]].data \in Data

LEMMA RingChain ==
    ASSUME NEW x \in Memory, NEW s \in Seq(Addr), Distinct(s),
           Len(s) # 0, s[1] = Sentry, RingLinked(x, s)
    PROVE  Chain(x, Get(x, Sentry, "next"), "next", Sentry) = Tail(s)
<1> DEFINE L == Len(s)
           c == Tail(s)
           a == Get(x, Sentry, "next")
<1>1. L \in Nat /\ L # 0 /\ s # << >> /\ 1 \in 1 .. L
  BY LenProperties
<1>2. /\ c \in Seq(Addr) /\ Len(c) = L - 1
      /\ \A j \in 1 .. L - 1 : c[j] = s[j + 1] /\ j + 1 \in 1 .. L
  <2>1. /\ c \in Seq(Addr) /\ Len(c) = L - 1
        /\ \A j \in 1 .. Len(c) : c[j] = s[j + 1]
    BY <1>1, HeadTailProperties
  <2>2. \A j \in 1 .. L - 1 : j + 1 \in 1 .. L
    BY <1>1
  <2> QED
    BY <2>1, <2>2
<1> HIDE DEF c, L
<1>3. Distinct(c)
  <2> SUFFICES ASSUME NEW i \in 1 .. L - 1, NEW j \in 1 .. L - 1, c[i] = c[j] PROVE i = j
    BY <1>2 DEF Distinct
  <2>1. i + 1 = j + 1
    BY <1>2 DEF Distinct, L
  <2> QED
    BY <1>1, <2>1
<1>4. Leads(x, c, "next", Sentry, a, Sentry)
  <2>1. \A j \in 1 .. L - 1 : c[j] # Sentry
    <3> SUFFICES ASSUME NEW j \in 1 .. L - 1, c[j] = Sentry PROVE FALSE
      OBVIOUS
    <3>1. s[j + 1] = s[1] /\ j + 1 \in 1 .. L
      BY <1>2
    <3>2. j + 1 = 1
      BY <1>1, <3>1 DEF Distinct, L
    <3> QED
      BY <1>1, <3>2
  <2>2. ASSUME NEW j \in 1 .. L - 1
        PROVE  x.item[c[j]].next = IF j < L - 1 THEN c[j + 1] ELSE Sentry
    <3>1. j + 1 \in 1 .. L /\ c[j] = s[j + 1]
      BY <1>2
    <3>2. x.item[c[j]].next = After(s, j + 1)
      BY <3>1 DEF RingLinked, Pair, L
    <3>3. After(s, j + 1) = IF j + 1 < L THEN s[(j + 1) + 1] ELSE Sentry
      BY DEF After, L
    <3>4. j < L - 1 => c[j + 1] = s[(j + 1) + 1]
      <4>1. j < L - 1 => j + 1 \in 1 .. L - 1
        BY <1>1
      <4> QED
        BY <1>2, <4>1
    <3> QED
      BY <1>1, <3>2, <3>3, <3>4
  <2>3. a = IF L - 1 = 0 THEN Sentry ELSE c[1]
    <3>1. Sentry \in Addr
      BY SizeAssumption
    <3>2. a = After(s, 1)
      BY <1>1, <3>1 DEF Get, RingLinked, Pair, L
    <3>3. After(s, 1) = IF 1 < L THEN s[1 + 1] ELSE Sentry
      BY DEF After, L
    <3>4. 1 < L => c[1] = s[1 + 1]
      <4>1. 1 < L => 1 \in 1 .. L - 1
        BY <1>1
      <4> QED
        BY <1>2, <4>1
    <3> QED
      BY <1>1, <3>2, <3>3, <3>4
  <2> QED
    BY <1>2, <2>1, <2>2, <2>3 DEF Leads
<1> HIDE DEF a
<1>5. Sentry \in Ptr /\ Sentry \in {Null, Sentry}
  BY SizeAssumption DEF Ptr
<1>6. Chain(x, a, "next", Sentry) = c
  BY <1>2, <1>3, <1>4, <1>5, ChainIs
<1> QED
  BY <1>6 DEF a, c

\* jt_clist_append and jt_clist_prepend
Spliced(y, x, s, p, a, d) ==
    \/ y = clist_append(x, After(s, p - 1), a, d)
    \/ y = clist_prepend(x, s[p - 1], a, d)
LEMMA RingInsertKeeps ==
    ASSUME NEW x \in Memory, NEW s \in Seq(Addr), Distinct(s), Used(x, s), RingLinked(x, s),
           NEW p \in 2 .. Len(s) + 1, NEW a \in x.free, NEW d \in Contents,
           NEW y, Spliced(y, x, s, p, a, d), NEW t, t = InsertAt(s, p, a)
    PROVE  /\ Change(x, y, s, t) /\ Inserted(t, s, p, a) /\ RingLinked(y, t)
           /\ y.item[a].data = d /\ \A b \in Addr \ {a} : SameData(x, y, b)
<1> DEFINE l == s[p - 1]
           r == After(s, p - 1)
<1>0. /\ l = s[p - 1] /\ r = After(s, p - 1)
      /\ y = clist_append(x, r, a, d) \/ y = clist_prepend(x, l, a, d)
  BY DEF Spliced
<1> HIDE DEF l, r
<1>1. Len(s) \in Nat /\ p - 1 \in 1 .. Len(s) /\ p \in 1 .. Len(s) + 1
  BY LenProperties
<1>2. In(l, s) /\ In(r, s) /\ l \in Addr /\ r \in Addr
  BY <1>0, <1>1, AfterIn
<1>3. l \in Addr \ x.free /\ r \in Addr \ x.free
  BY <1>2 DEF In, Used
<1>4. x.item[l].next = r /\ x.item[r].prev = l
  BY <1>0, <1>1 DEF RingLinked, Pair
<1>5. y \in Memory /\ y.free = x.free \ {a} /\ y.item[a].data = d /\ Links(x, y, l, a, r)
  BY <1>0, <1>3, <1>4, InsertIs
<1>6. a \in Addr /\ ~ In(a, s)
  BY DEF Memory, In, Used
<1>7. \A b \in Addr \ x.free : ~ In(b, s) => Same(x, y, b)
  <2> SUFFICES ASSUME NEW b \in Addr \ x.free, ~ In(b, s) PROVE Same(x, y, b)
    OBVIOUS
  <2>1. b # a /\ b # l /\ b # r
    BY <1>2
  <2> QED
    BY <1>5, <2>1 DEF Links, Same, SamePrev, SameNext
<1>8. Change(x, y, s, t) /\ Inserted(t, s, p, a)
  BY <1>1, <1>5, <1>7, InsertChange
<1>9. RingLinked(y, t)
  BY <1>0, <1>5, <1>6, <1>8, RingInsert
<1> QED
  BY <1>5, <1>8, <1>9 DEF Links

\* jt_clist_delinkitem
LEMMA RingRemoveKeeps ==
    ASSUME NEW x \in Memory, NEW s \in Seq(Addr), Distinct(s), Used(x, s), RingLinked(x, s),
           NEW p \in 2 .. Len(s), NEW y, y = clist_delinkitem(x, s[p]),
           NEW t, t = RemoveAt(s, p)
    PROVE  /\ Change(x, y, s, t) /\ Removed(t, s, p) /\ RingLinked(y, t)
           /\ \A b \in Addr \ {s[p]} : SameData(x, y, b)
<1> DEFINE l == s[p - 1]
           r == After(s, p)
<1>1. Len(s) \in Nat /\ p - 1 \in 1 .. Len(s) /\ p \in 1 .. Len(s)
  BY LenProperties
<1>2. /\ In(l, s) /\ In(r, s) /\ In(s[p], s)
      /\ l \in Addr /\ r \in Addr /\ s[p] \in Addr
  BY <1>1, AfterIn
<1>3. l \in Addr \ x.free /\ r \in Addr \ x.free /\ s[p] \in Addr \ x.free
  BY <1>2 DEF In, Used
<1>4. l = x.item[s[p]].prev /\ r = x.item[s[p]].next
  <2>1. After(s, p - 1) = s[p]
    BY <1>1 DEF After
  <2> QED
    BY <1>1, <2>1 DEF RingLinked, Pair
<1> HIDE DEF l, r
<1>5. y \in Memory /\ y.free = x.free \cup {s[p]} /\ Unlinks(x, y, l, s[p], r)
  BY <1>3, <1>4, ClistDelinkIs
<1>6. \A b \in Addr \ x.free : ~ In(b, s) => Same(x, y, b)
  <2> SUFFICES ASSUME NEW b \in Addr \ x.free, ~ In(b, s) PROVE Same(x, y, b)
    OBVIOUS
  <2>1. b # s[p] /\ b # l /\ b # r
    BY <1>2
  <2> QED
    BY <1>5, <2>1 DEF Unlinks, Same, SamePrev, SameNext
<1>7. Change(x, y, s, t) /\ Removed(t, s, p)
  BY <1>1, <1>5, <1>6, RemoveChange
<1>8. RingLinked(y, t)
  BY <1>5, <1>7, RingRemove DEF l, r
<1> QED
  BY <1>5, <1>7, <1>8 DEF Unlinks

\* jt_clist_moveitem: the item at p leaves and goes behind the one at q of those left.
LEMMA RingMoveKeeps ==
    ASSUME NEW x \in Memory, NEW s \in Seq(Addr), Distinct(s), Used(x, s), RingLinked(x, s),
           NEW p \in 2 .. Len(s), NEW u, u = RemoveAt(s, p),
           NEW q \in 1 .. Len(s) - 1, NEW y, y = clist_moveitem(x, u[q], s[p]),
           NEW t, t = InsertAt(u, q + 1, s[p])
    PROVE  /\ Change(x, y, s, t) /\ Removed(u, s, p) /\ Inserted(t, u, q + 1, s[p])
           /\ u \in Seq(Addr)
           /\ RingLinked(y, t) /\ \A b \in Addr : SameData(x, y, b)
<1> DEFINE l == s[p - 1]
           r == After(s, p)
           a == s[p]
           i == AtRemove(p, q)
           to == u[q]
           g == After(u, q)
<1>1. Len(s) \in Nat /\ p - 1 \in 1 .. Len(s) /\ p \in 1 .. Len(s) /\ p - 1 # p
  BY LenProperties
<1>2. /\ In(l, s) /\ In(r, s) /\ In(a, s)
      /\ l \in Addr /\ r \in Addr /\ a \in Addr
  BY <1>1, AfterIn
<1>3. u \in Seq(Addr) /\ Removed(u, s, p) /\ Distinct(u)
  <2>1. u \in Seq(Addr) /\ Removed(u, s, p)
    BY <1>1, RemoveAtIs
  <2> QED
    BY <1>1, <2>1, RemoveDistinct
<1>4. /\ Len(u) = Len(s) - 1 /\ i \in 1 .. Len(s) /\ i # p /\ to = s[i]
      /\ g = IF i = p - 1 THEN r ELSE After(s, i)
  <2> HIDE DEF i
  <2>1. i = AtRemove(p, q)
    BY DEF i
  <2> QED
    BY <1>3, <2>1, RemovedAfter
<1>5. l = x.item[a].prev /\ r = x.item[a].next
  <2>1. After(s, p - 1) = s[p]
    BY <1>1 DEF After
  <2> QED
    BY <1>1, <2>1 DEF RingLinked, Pair
<1>6. q \in 1 .. Len(u) /\ Len(u) \in Nat
  BY <1>1, <1>4
<1>7. \A j \in 1 .. Len(u) : u[j] # a /\ In(u[j], s) /\ u[j] \in Addr
  <2> SUFFICES ASSUME NEW j \in 1 .. Len(u) PROVE u[j] # a /\ In(u[j], s)
    BY <1>3, ElementOfSeq
  <2>1. /\ AtRemove(p, j) \in 1 .. Len(s) /\ AtRemove(p, j) # p
        /\ u[j] = s[AtRemove(p, j)]
    BY <1>1, <1>3 DEF Removed, AtRemove
  <2> QED
    BY <1>1, <2>1 DEF In, Distinct
<1>8. ~ In(a, u)
  BY <1>7 DEF In
<1>9. g \in Addr /\ In(g, u) /\ to \in Addr /\ In(to, u)
  BY <1>3, <1>6, AfterIn
<1>10. to # a /\ g # a /\ In(to, s) /\ In(g, s)
  BY <1>7, <1>9 DEF In
<1>11. /\ a \in Addr \ x.free /\ to \in Addr \ x.free /\ l \in Addr \ x.free
       /\ r \in Addr \ x.free /\ g \in Addr \ x.free
  BY <1>2, <1>9, <1>10 DEF In, Used
<1>12. g = IF to = l THEN r ELSE x.item[to].next
  <2>1. to = l <=> i = p - 1
    BY <1>1, <1>4 DEF Distinct
  <2>2. x.item[to].next = After(s, i)
    BY <1>4 DEF RingLinked, Pair
  <2> QED
    BY <1>4, <2>1, <2>2
<1>13. y = clist_moveitem(x, to, a) /\ t = InsertAt(u, q + 1, a)
  OBVIOUS
<1> HIDE DEF l, r, a, i, to, g
<1>14. /\ y \in Memory /\ y.free = x.free /\ SameData(x, y, a)
       /\ \E z : Unlinks(x, z, l, a, r) /\ Links(z, y, to, a, g)
  BY <1>5, <1>10, <1>11, <1>12, <1>13, MoveIs
<1>15. PICK z : Unlinks(x, z, l, a, r) /\ Links(z, y, to, a, g)
  BY <1>14
<1>16. RingLinked(z, u)
  BY <1>3, <1>15, RingRemove DEF l, r, a
<1>17. t \in Seq(Addr) /\ Inserted(t, u, q + 1, a)
  <2>1. q + 1 \in 1 .. Len(u) + 1
    BY <1>6
  <2> QED
    BY <1>2, <1>3, <1>13, <2>1, InsertAtIs
<1>18. RingLinked(y, t)
  <2> DEFINE k == q + 1
  <2>1. k \in 2 .. Len(u) + 1 /\ to = u[k - 1] /\ g = After(u, k - 1)
    BY <1>6 DEF to, g
  <2>2. Inserted(t, u, k, a)
    BY <1>17
  <2> HIDE DEF k
  <2> QED
    BY <1>2, <1>3, <1>8, <1>15, <1>16, <2>1, <2>2, RingInsert
<1>19. Distinct(t)
  <2>1. \A j \in 1 .. Len(u) : u[j] # a
    BY <1>7
  <2>2. q + 1 \in 1 .. Len(u) + 1
    BY <1>6
  <2> QED
    BY <1>3, <1>17, <2>1, <2>2, InsertDistinct
<1>20. \A j \in 1 .. Len(t) : In(t[j], s)
  <2> SUFFICES ASSUME NEW j \in 1 .. Len(u) + 1 PROVE In(t[j], s)
    BY <1>17 DEF Inserted
  <2>1. t[j] = IF j < q + 1 THEN u[j] ELSE IF j = q + 1 THEN a ELSE u[j - 1]
    BY <1>17 DEF Inserted
  <2> QED
    BY <1>2, <1>6, <1>7, <2>1
<1>21. \A b \in Addr \ x.free : ~ In(b, s) => b \notin y.free /\ Same(x, y, b)
  <2> SUFFICES ASSUME NEW b \in Addr \ x.free, ~ In(b, s) PROVE b \notin y.free /\ Same(x, y, b)
    OBVIOUS
  <2>1. b # a /\ b # l /\ b # r /\ b # to /\ b # g
    BY <1>2, <1>10
  <2> QED
    BY <1>14, <1>15, <2>1 DEF Unlinks, Links, Same, SamePrev, SameNext, SameData
<1>22. Change(x, y, s, t)
  <2>1. Used(y, t)
    BY <1>14, <1>20 DEF Used, In
  <2>2. \A b \in Addr : In(b, t) => In(b, s)
    BY <1>20 DEF In
  <2>3. Accounted(x, y, s, t)
    <3> SUFFICES ASSUME NEW b \in Addr, In(b, s) PROVE In(b, t)
      BY <1>14 DEF Accounted
    <3>1. b # a => In(b, u)
      BY <1>1, <1>3, RemovedIn DEF a
    <3>2. q + 1 \in 1 .. Len(u) + 1
      BY <1>6
    <3> QED
      BY <1>3, <1>17, <3>1, <3>2, InsertedIn
  <2> QED
    BY <1>14, <1>17, <1>19, <1>21, <2>1, <2>2, <2>3 DEF Change
<1>23. \A b \in Addr : SameData(x, y, b)
  BY <1>14, <1>15 DEF Unlinks, Links, SameData
<1> QED
  BY <1>3, <1>17, <1>18, <1>22, <1>23 DEF a

-----------------------------------------------------------------------------
(* The priority queue: its array is rearranged, and its order restored. *)

QItem == [key : Keys, at : Addr]
Perm(y, r) ==
    /\ y \in Seq(QItem) /\ Len(y) = Len(r)
    /\ \E f \in Bijection(1 .. Len(r), 1 .. Len(r)) : \A i \in 1 .. Len(r) : y[i] = r[f[i]]
Transposed(z, y, a, b) ==
    /\ z \in Seq(QItem) /\ Len(z) = Len(y)
    /\ \A i \in 1 .. Len(y) : z[i] = IF i = a THEN y[b] ELSE IF i = b THEN y[a] ELSE y[i]

LEMMA ItemIs ==
    ASSUME NEW y \in Seq(QItem), NEW i \in 1 .. Len(y)
    PROVE  y[i] \in QItem /\ y[i].key \in Keys /\ y[i].key \in Nat /\ y[i].at \in Addr
<1>1. y[i] \in QItem
  BY ElementOfSeq
<1>2. y[i].key \in Keys /\ y[i].at \in Addr
  BY <1>1 DEF QItem
<1> QED
  BY <1>1, <1>2, KeysAssumption

LEMMA PermSame == ASSUME NEW r \in Seq(QItem) PROVE Perm(r, r)
<1> DEFINE f == [i \in 1 .. Len(r) |-> i]
<1>1. f \in Bijection(1 .. Len(r), 1 .. Len(r))
  BY DEF Bijection, Injection, Surjection, IsInjective
<1>2. \A i \in 1 .. Len(r) : r[i] = r[f[i]]
  OBVIOUS
<1> QED
  BY <1>1, <1>2 DEF Perm

LEMMA PermSwap ==
    ASSUME NEW r, NEW y, Perm(y, r), NEW N, N = Len(r),
           NEW a \in 1 .. N, NEW b \in 1 .. N, NEW z, Transposed(z, y, a, b)
    PROVE  Perm(z, r)
<1>1. PICK f \in Bijection(1 .. N, 1 .. N) : \A i \in 1 .. N : y[i] = r[f[i]]
  BY DEF Perm
<1> DEFINE D == 1 .. N
<1>2. f \in [D -> D] /\ (\A i, j \in D : f[i] = f[j] => i = j) /\ (\A t \in D : \E i \in D : f[i] = t)
  BY DEF Bijection, Injection, Surjection, IsInjective
<1>3. a \in D /\ b \in D
  OBVIOUS
<1> DEFINE w == [i \in D |-> IF i = a THEN b ELSE IF i = b THEN a ELSE i]
           g == [i \in D |-> f[w[i]]]
<1>4. /\ Len(y) = N /\ z \in Seq(QItem) /\ Len(z) = N
      /\ \A i \in D : z[i] = IF i = a THEN y[b] ELSE IF i = b THEN y[a] ELSE y[i]
      /\ \A i \in D : y[i] = r[f[i]]
  BY <1>1 DEF Transposed, Perm
<1> HIDE DEF D
<1>5. \A i \in D : w[i] \in D /\ w[w[i]] = i
  BY <1>3
<1>6. \A i \in D : z[i] = r[f[w[i]]]
  BY <1>3, <1>4
<1> HIDE DEF w
<1>7. g \in Bijection(D, D)
  <2>1. g \in [D -> D]
    BY <1>2, <1>5
  <2>2. ASSUME NEW i \in D, NEW j \in D, g[i] = g[j] PROVE i = j
    <3>1. w[i] = w[j]
      BY <1>2, <1>5, <2>2
    <3> QED
      BY <1>5, <3>1
  <2>3. ASSUME NEW t \in D PROVE \E i \in D : g[i] = t
    <3>1. PICK i \in D : f[i] = t
      BY <1>2
    <3>2. w[i] \in D /\ g[w[i]] = t
      BY <1>5, <3>1
    <3> QED
      BY <3>2
  <2> QED
    BY <2>1, <2>2, <2>3 DEF Bijection, Injection, Surjection, IsInjective
<1>8. \A i \in D : z[i] = r[g[i]]
  BY <1>6
<1> QED
  BY <1>4, <1>7, <1>8 DEF Perm, D

LEMMA PermIn ==
    ASSUME NEW r, NEW y, Perm(y, r), NEW i \in 1 .. Len(r)
    PROVE  \E j \in 1 .. Len(r) : y[i] = r[j]
<1>1. PICK f \in Bijection(1 .. Len(r), 1 .. Len(r)) : \A n \in 1 .. Len(r) : y[n] = r[f[n]]
  BY DEF Perm
<1>2. f[i] \in 1 .. Len(r)
  BY DEF Bijection, Injection, Surjection
<1> QED
  BY <1>1, <1>2

LEMMA PermOut ==
    ASSUME NEW r, NEW y, Perm(y, r), NEW j \in 1 .. Len(r)
    PROVE  \E i \in 1 .. Len(r) : y[i] = r[j]
<1>1. PICK f \in Bijection(1 .. Len(r), 1 .. Len(r)) : \A n \in 1 .. Len(r) : y[n] = r[f[n]]
  BY DEF Perm
<1>2. PICK i \in 1 .. Len(r) : f[i] = j
  BY DEF Bijection, Surjection
<1> QED
  BY <1>1, <1>2

LEMMA PermDistinct ==
    ASSUME NEW r, NEW y, Perm(y, r),
           \A i, j \in 1 .. Len(r) : r[i].at = r[j].at => i = j,
           NEW i \in 1 .. Len(r), NEW j \in 1 .. Len(r), y[i].at = y[j].at
    PROVE  i = j
<1>1. PICK f \in Bijection(1 .. Len(r), 1 .. Len(r)) : \A n \in 1 .. Len(r) : y[n] = r[f[n]]
  BY DEF Perm
<1>2. f[i] \in 1 .. Len(r) /\ f[j] \in 1 .. Len(r)
  BY DEF Bijection, Injection, Surjection
<1>3. f[i] = f[j]
  BY <1>1, <1>2
<1> QED
  BY <1>3 DEF Bijection, Injection, IsInjective

-----------------------------------------------------------------------------
(* The places above and below a place in the array *)

LEMMA Halves ==
    ASSUME NEW j \in Nat, j > 1
    PROVE  /\ j \div 2 \in Nat /\ 1 <= j \div 2 /\ j \div 2 < j
           /\ \A i \in Nat : j \div 2 = i <=> j = 2 * i \/ j = 2 * i + 1
OBVIOUS

Ordered(q) == \A j \in 2 .. Len(q) : q[j \div 2].key <= q[j].key
\* ... but perhaps for the item at a and the one above it,
OrderedAbove(q, a) ==
    /\ \A j \in 2 .. Len(q) : j # a => q[j \div 2].key <= q[j].key
    /\ a > 1 => \A j \in 2 .. Len(q) : j \div 2 = a => q[a \div 2].key <= q[j].key
\* ... or those below it.
OrderedBelow(q, a) ==
    /\ \A j \in 2 .. Len(q) : j \div 2 # a => q[j \div 2].key <= q[j].key
    /\ a > 1 => \A j \in 2 .. Len(q) : j \div 2 = a => q[a \div 2].key <= q[j].key

LEMMA OrderedUp ==
    ASSUME NEW y \in Seq(QItem), NEW N, N = Len(y), NEW a \in 2 .. N, OrderedAbove(y, a),
           NEW p, p = a \div 2, y[p].key > y[a].key,
           NEW z, Transposed(z, y, a, p)
    PROVE  OrderedAbove(z, p)
<1>1. N \in Nat /\ p \in 1 .. N /\ p < a
  <2>1. N \in Nat
    BY LenProperties
  <2> QED
    BY <2>1, Halves
<1>2. \A j \in 2 .. N : j \div 2 \in 1 .. N /\ j \div 2 < j
  <2> SUFFICES ASSUME NEW j \in 2 .. N PROVE j \div 2 \in 1 .. N /\ j \div 2 < j
    OBVIOUS
  <2> QED
    BY <1>1, Halves
<1>3. /\ Len(z) = N
      /\ \A i \in 1 .. N : z[i] = IF i = a THEN y[p] ELSE IF i = p THEN y[a] ELSE y[i]
  BY DEF Transposed
<1>4. \A i \in 1 .. N : y[i].key \in Nat
  BY ItemIs
<1>5. /\ \A j \in 2 .. N : j # a => y[j \div 2].key <= y[j].key
      /\ \A j \in 2 .. N : j \div 2 = a => y[p].key <= y[j].key
  BY DEF OrderedAbove
<1>6. ASSUME NEW j \in 2 .. N, j # p PROVE z[j \div 2].key <= z[j].key
  <2> DEFINE i == j \div 2
  <2>1. i \in 1 .. N /\ i < j /\ j \in 1 .. N
    BY <1>1, <1>2
  <2>2. (j # a => y[i].key <= y[j].key) /\ (i = a => y[p].key <= y[j].key)
        /\ (j = a => i = p)
    BY <1>5
  <2> SUFFICES z[i].key <= z[j].key
    OBVIOUS
  <2> HIDE DEF i
  <2>3. CASE j = a
    BY <1>1, <1>3, <1>4, <2>1, <2>2, <2>3
  <2>4. CASE j # a /\ i = a
    BY <1>1, <1>3, <1>4, <1>6, <2>1, <2>2, <2>4
  <2>5. CASE j # a /\ i = p
    <3>1. z[i].key = y[a].key /\ z[j].key = y[j].key /\ y[p].key <= y[j].key
      BY <1>1, <1>3, <1>6, <2>1, <2>2, <2>5
    <3> QED
      BY <1>1, <1>4, <2>1, <3>1
  <2>6. CASE j # a /\ i # a /\ i # p
    BY <1>1, <1>3, <1>4, <1>6, <2>1, <2>2, <2>6
  <2> QED
    BY <2>3, <2>4, <2>5, <2>6
<1>7. ASSUME p > 1, NEW j \in 2 .. N, j \div 2 = p PROVE z[p \div 2].key <= z[j].key
  <2> DEFINE g == p \div 2
  <2>1. g \in 1 .. N /\ g < p /\ p \in 2 .. N /\ j > p /\ j \in 1 .. N
    BY <1>1, <1>2, <1>7
  <2>2. y[g].key <= y[p].key
    BY <1>1, <1>5, <2>1
  <2>3. j # a => y[p].key <= y[j].key
    BY <1>5, <1>7
  <2> SUFFICES z[g].key <= z[j].key
    OBVIOUS
  <2> HIDE DEF g
  <2>4. z[g] = y[g]
    BY <1>1, <1>3, <2>1
  <2>5. z[j] = IF j = a THEN y[p] ELSE y[j]
    BY <1>3, <2>1
  <2>6. y[g].key \in Nat /\ y[p].key \in Nat /\ y[j].key \in Nat
    BY <1>1, <1>4, <2>1
  <2>7. CASE j = a
    BY <2>2, <2>4, <2>5, <2>7
  <2>8. CASE j # a
    BY <2>2, <2>3, <2>4, <2>5, <2>6, <2>8
  <2> QED
    BY <2>7, <2>8
<1> QED
  BY <1>3, <1>6, <1>7 DEF OrderedAbove

LEMMA OrderedDown ==
    ASSUME NEW y \in Seq(QItem), NEW N, N = Len(y), NEW a \in 1 .. N, OrderedBelow(y, a),
           NEW c \in 2 .. N, c \div 2 = a, y[c].key < y[a].key,
           \A j \in 2 .. N : j \div 2 = a => y[c].key <= y[j].key,
           NEW z, Transposed(z, y, a, c)
    PROVE  OrderedBelow(z, c)
<1>1. N \in Nat /\ a < c /\ c \in 1 .. N
  <2>1. N \in Nat
    BY LenProperties
  <2> QED
    BY <2>1, Halves
<1>2. \A j \in 2 .. N : j \div 2 \in 1 .. N /\ j \div 2 < j
  <2> SUFFICES ASSUME NEW j \in 2 .. N PROVE j \div 2 \in 1 .. N /\ j \div 2 < j
    OBVIOUS
  <2> QED
    BY <1>1, Halves
<1>3. /\ Len(z) = N
      /\ \A i \in 1 .. N : z[i] = IF i = a THEN y[c] ELSE IF i = c THEN y[a] ELSE y[i]
  BY DEF Transposed
<1>4. \A i \in 1 .. N : y[i].key \in Nat
  BY ItemIs
<1>5. /\ \A j \in 2 .. N : j \div 2 # a => y[j \div 2].key <= y[j].key
      /\ a > 1 => y[a \div 2].key <= y[c].key
  BY DEF OrderedBelow
<1>6. ASSUME NEW j \in 2 .. N, j \div 2 # c PROVE z[j \div 2].key <= z[j].key
  <2> DEFINE i == j \div 2
  <2>1. i \in 1 .. N /\ i < j /\ j \in 1 .. N /\ i # c
    BY <1>1, <1>2, <1>6
  <2>2. /\ i # a => y[i].key <= y[j].key
        /\ i = a => y[c].key <= y[j].key
        /\ j = a => y[i].key <= y[c].key
        /\ j = c => i = a
    BY <1>5
  <2> SUFFICES z[i].key <= z[j].key
    OBVIOUS
  <2> HIDE DEF i
  <2>3. y[i].key \in Nat /\ y[j].key \in Nat /\ y[a].key \in Nat /\ y[c].key \in Nat
    BY <1>1, <1>4, <2>1
  <2>4. z[i] = IF i = a THEN y[c] ELSE y[i]
    BY <1>3, <2>1
  <2>5. z[j] = IF j = a THEN y[c] ELSE IF j = c THEN y[a] ELSE y[j]
    BY <1>3, <2>1
  <2>6. CASE i = a
    <3>1. j # a /\ z[i] = y[c]
      BY <1>1, <2>1, <2>4, <2>6
    <3>2. CASE j = c
      BY <1>1, <2>3, <2>5, <3>1, <3>2
    <3>3. CASE j # c
      BY <2>2, <2>5, <2>6, <3>1, <3>3
    <3> QED
      BY <3>2, <3>3
  <2>7. CASE i # a
    <3>1. j # c /\ z[i] = y[i]
      BY <2>2, <2>4, <2>7
    <3> QED
      BY <2>2, <2>5, <2>7, <3>1
  <2> QED
    BY <2>6, <2>7
<1>7. ASSUME c > 1, NEW j \in 2 .. N, j \div 2 = c PROVE z[c \div 2].key <= z[j].key
  <2>1. j # c /\ j # a /\ j \in 1 .. N /\ c # a
    <3>1. c < j
      BY <1>2, <1>7
    <3> QED
      BY <1>1, <3>1
  <2>2. z[a] = y[c] /\ z[j] = y[j]
    BY <1>1, <1>3, <2>1
  <2>3. y[c].key <= y[j].key
    BY <1>5, <1>7, <2>1
  <2> QED
    BY <2>2, <2>3
<1> QED
  BY <1>3, <1>6, <1>7 DEF OrderedBelow

LEMMA ExceptIs ==
    ASSUME NEW q \in Seq(QItem), NEW a \in 1 .. Len(q), NEW e \in QItem,
           NEW z, z = [q EXCEPT ![a] = e]
    PROVE  /\ z \in Seq(QItem) /\ Len(z) = Len(q)
           /\ \A i \in 1 .. Len(q) : z[i] = IF i = a THEN e ELSE q[i]
BY ExceptSeq

Appended(z, q, e) ==
    /\ z \in Seq(QItem) /\ Len(z) = Len(q) + 1
    /\ \A i \in 1 .. Len(q) : z[i] = q[i]
    /\ z[Len(q) + 1] = e

LEMMA AppendIs ==
    ASSUME NEW q \in Seq(QItem), NEW e \in QItem, NEW z, z = Append(q, e)
    PROVE  Appended(z, q, e)
BY AppendProperties DEF Appended

LEMMA FillSame ==
    ASSUME NEW r \in Seq(QItem), NEW a \in 1 .. Len(r), NEW e, e = r[a],
           NEW z, z = [r EXCEPT ![a] = e]
    PROVE  z = r
<1>1. e \in QItem
  BY ItemIs
<1>2. /\ z \in Seq(QItem) /\ Len(z) = Len(r)
      /\ \A i \in 1 .. Len(r) : z[i] = IF i = a THEN e ELSE r[i]
  BY <1>1, ExceptIs
<1>3. \A i \in 1 .. Len(r) : z[i] = r[i]
  BY <1>2
<1> QED
  BY <1>2, <1>3, SeqEqual

\* jt_pqueue_insert
IsClimb(f, e, item, N) ==
    f = [t \in 0 .. N |-> IF t = 0 THEN e ELSE Up(f[t - 1], item)]

LEMMA ClimbExists ==
    ASSUME NEW e, NEW item, NEW N \in Nat PROVE \E f : IsClimb(f, e, item, N)
<1> DEFINE S == {n \in 0 .. N : \E f : IsClimb(f, e, item, n)}
<1>1. 0 \in S
  <2>1. IsClimb([n \in 0 .. 0 |-> e], e, item, 0)
    BY DEF IsClimb
  <2> QED
    BY <2>1
<1>2. \A n \in 0 .. N - 1 : n \in S => n + 1 \in S
  <2> SUFFICES ASSUME NEW n \in 0 .. N - 1, NEW f, IsClimb(f, e, item, n)
               PROVE  \E g : IsClimb(g, e, item, n + 1)
    OBVIOUS
  <2> DEFINE g == [i \in 0 .. n + 1 |-> IF i = n + 1 THEN Up(f[n], item) ELSE f[i]]
  <2>1. \A i \in 0 .. n + 1 : g[i] = IF i = 0 THEN e ELSE Up(g[i - 1], item)
    <3> SUFFICES ASSUME NEW i \in 0 .. n + 1
                 PROVE  g[i] = IF i = 0 THEN e ELSE Up(g[i - 1], item)
      OBVIOUS
    <3>1. CASE i = n + 1
      BY <3>1
    <3>2. CASE i # n + 1
      <4>1. i \in 0 .. n /\ (i # 0 => i - 1 \in 0 .. n)
        BY <3>2
      <4>2. f[i] = IF i = 0 THEN e ELSE Up(f[i - 1], item)
        BY <4>1 DEF IsClimb
      <4> QED
        BY <3>2, <4>1, <4>2
    <3> QED
      BY <3>1, <3>2
  <2>2. IsClimb(g, e, item, n + 1)
    BY <2>1 DEF IsClimb
  <2> QED
    BY <2>2
<1> HIDE DEF S
<1>3. N \in S
  BY <1>1, <1>2, Induct
<1> QED
  BY <1>3 DEF S

\* The array with the item in the place it has come to is the array the loop
\* began with, rearranged, and in order but for that place.
Fill(x, item) == [x.q EXCEPT ![x.at] = item]
Arrived(x, item) == ~ (x.at > 1 /\ x.q[x.at \div 2].key > item.key)
Climbing(x, item, r, t) ==
    /\ x.q \in Seq(QItem) /\ Len(x.q) = Len(r) /\ x.at \in 1 .. Len(r)
    /\ Perm(Fill(x, item), r) /\ OrderedAbove(Fill(x, item), x.at)
    /\ Arrived(x, item) \/ x.at <= Len(r) - t

LEMMA ClimbStep ==
    ASSUME NEW r \in Seq(QItem), NEW item \in QItem, NEW t \in Nat,
           NEW x, Climbing(x, item, r, t), NEW w, w = Up(x, item)
    PROVE  Climbing(w, item, r, t + 1)
<1>1. Len(r) \in Nat
  BY LenProperties
<1>2. CASE Arrived(x, item)
  <2>1. w = x
    BY <1>2 DEF Up, Arrived
  <2> QED
    BY <1>2, <2>1 DEF Climbing
<1>3. CASE ~ Arrived(x, item)
  <2> DEFINE a == x.at
             p == x.at \div 2
             q == x.q
             y == Fill(x, item)
             z == Fill(w, item)
             u == [q EXCEPT ![a] = q[p]]
  <2>1. /\ q \in Seq(QItem) /\ Len(q) = Len(r) /\ a \in 1 .. Len(r) /\ a > 1
        /\ Perm(y, r) /\ OrderedAbove(y, a) /\ a <= Len(r) - t
    BY <1>3 DEF Climbing, Arrived
  <2>2. w = [q |-> u, at |-> p] /\ q[p].key > item.key
    BY <1>3 DEF Up, Arrived
  <2>3. w.q = u /\ w.at = p
    BY <2>2
  <2>4. y = [q EXCEPT ![a] = item] /\ z = [u EXCEPT ![p] = item]
    BY <2>3 DEF Fill
  <2>5. p \in Nat /\ 1 <= p /\ p < a /\ p = a \div 2
    BY <1>1, <2>1, Halves
  <2> HIDE DEF u, a, p, q, y, z
  <2>6. p \in 1 .. Len(r) /\ a \in 2 .. Len(r) /\ a # p
    BY <1>1, <2>1, <2>5
  <2>7. q[p] \in QItem /\ q[p].key \in Nat /\ item.key \in Nat
    BY <2>1, <2>6, ItemIs, KeysAssumption DEF QItem
  <2>8. /\ u \in Seq(QItem) /\ Len(u) = Len(q)
        /\ \A i \in 1 .. Len(q) : u[i] = IF i = a THEN q[p] ELSE q[i]
    BY <2>1, <2>7, ExceptIs DEF u
  <2>9. /\ y \in Seq(QItem) /\ Len(y) = Len(q)
        /\ \A i \in 1 .. Len(q) : y[i] = IF i = a THEN item ELSE q[i]
    BY <2>1, <2>4, ExceptIs
  <2>10. /\ z \in Seq(QItem) /\ Len(z) = Len(u)
         /\ \A i \in 1 .. Len(u) : z[i] = IF i = p THEN item ELSE u[i]
    BY <2>1, <2>4, <2>6, <2>8, ExceptIs
  <2>11. Transposed(z, y, a, p)
    BY <2>1, <2>6, <2>8, <2>9, <2>10 DEF Transposed
  <2>12. Perm(z, r)
    BY <2>1, <2>6, <2>11, PermSwap
  <2>13. OrderedAbove(z, p)
    <3>1. y[p].key > y[a].key
      BY <2>1, <2>2, <2>6, <2>9
    <3>2. a \in 2 .. Len(y)
      BY <2>1, <2>6, <2>9
    <3> QED
      BY <2>1, <2>5, <2>9, <2>11, <3>1, <3>2, OrderedUp
  <2>14. p <= Len(r) - (t + 1)
    BY <1>1, <2>1, <2>5, <2>6
  <2>15. Len(u) = Len(r)
    BY <2>1, <2>8
  <2> QED
    BY <2>3, <2>6, <2>8, <2>12, <2>13, <2>14, <2>15 DEF Climbing, z
<1> QED
  BY <1>2, <1>3

LEMMA PqueueInsertIs ==
    ASSUME NEW q \in Seq(QItem), Ordered(q), NEW item \in QItem, NEW r, r = Append(q, item),
           NEW y, y = pqueue_insert(q, item)
    PROVE  Perm(y, r) /\ Ordered(y)
<1> DEFINE N == Len(q)
           e == [q |-> Append(q, item), at |-> Len(q) + 1]
           f == CHOOSE f : IsClimb(f, e, item, N)
<1>1. N \in Nat
  BY LenProperties
<1>2. IsClimb(f, e, item, N)
  BY <1>1, ClimbExists
<1>3. y = [f[N].q EXCEPT ![f[N].at] = item]
  BY Zenon DEF pqueue_insert, IsClimb
<1>4. e.q = r /\ e.at = N + 1
  OBVIOUS
<1>5. /\ r \in Seq(QItem) /\ Len(r) = N + 1
      /\ \A i \in 1 .. N : r[i] = q[i]
      /\ r[N + 1] = item
  BY AppendIs DEF Appended
<1> HIDE DEF f, e
<1>6. f[0] = e /\ \A t \in 1 .. N : f[t] = Up(f[t - 1], item)
  BY <1>1, <1>2 DEF IsClimb
<1> HIDE DEF N
<1> DEFINE S == {t \in 0 .. N : Climbing(f[t], item, r, t)}
<1>7. 0 \in S
  <2>1. N + 1 \in 1 .. Len(r)
    BY <1>1, <1>5
  <2>2. Fill(e, item) = r
    <3>1. Fill(e, item) = [r EXCEPT ![N + 1] = item]
      BY <1>4 DEF Fill
    <3>2. [r EXCEPT ![N + 1] = item] = r
      <4> DEFINE z == [r EXCEPT ![N + 1] = item]
                 M == N + 1
      <4>1. r \in Seq(QItem) /\ M \in 1 .. Len(r) /\ item = r[M] /\ z = [r EXCEPT ![M] = item]
        BY <1>5, <2>1
      <4> HIDE DEF z, M
      <4>2. z = r
        BY <4>1, FillSame
      <4> QED
        BY <4>2 DEF z
    <3> QED
      BY <3>1, <3>2
  <2>3. Perm(r, r)
    BY <1>5, PermSame
  <2>4. OrderedAbove(r, N + 1)
    <3>1. ASSUME NEW j \in 2 .. N + 1, j # N + 1 PROVE r[j \div 2].key <= r[j].key
      <4>1. j \in 2 .. N
        BY <1>1, <3>1
      <4>2. j \div 2 \in 1 .. N
        BY <1>1, <4>1, Halves
      <4>3. q[j \div 2].key <= q[j].key
        BY <4>1 DEF Ordered, N
      <4> QED
        BY <1>5, <4>1, <4>2, <4>3
    <3>2. ASSUME NEW j \in 2 .. N + 1 PROVE j \div 2 # N + 1
      BY <1>1, Halves
    <3> QED
      BY <1>5, <3>1, <3>2 DEF OrderedAbove
  <2>5. N + 1 <= Len(r) - 0
    BY <1>1, <1>5
  <2>6. Climbing(e, item, r, 0)
    BY <1>4, <1>5, <2>1, <2>2, <2>3, <2>4, <2>5 DEF Climbing
  <2> QED
    BY <1>1, <1>6, <2>6
<1>8. ASSUME NEW t \in 0 .. N - 1, t \in S PROVE t + 1 \in S
  <2>1. Climbing(f[t], item, r, t) /\ t \in Nat
    BY <1>1, <1>8
  <2>2. t + 1 \in 1 .. N /\ (t + 1) - 1 = t /\ t + 1 \in 0 .. N
    BY <1>1
  <2>3. f[t + 1] = Up(f[t], item)
    BY <1>6, <2>2
  <2>4. Climbing(f[t + 1], item, r, t + 1)
    BY <1>5, <2>1, <2>3, ClimbStep
  <2> QED
    BY <2>2, <2>4
<1> HIDE DEF S
<1>9. N \in S
  <2>1. \A t \in 0 .. N : t \in S
    BY <1>1, <1>7, <1>8, Induct
  <2> QED
    BY <1>1, <2>1
<1> DEFINE x == f[N]
           a == x.at
           p == x.at \div 2
<1>10. Climbing(x, item, r, N)
  BY <1>9 DEF S
<1>11. y = Fill(x, item)
  BY <1>3 DEF Fill
<1> HIDE DEF x
<1>12. /\ x.q \in Seq(QItem) /\ Len(x.q) = N + 1 /\ a \in 1 .. N + 1
       /\ Perm(y, r) /\ OrderedAbove(y, a)
       /\ Arrived(x, item) \/ a <= (N + 1) - N
  BY <1>5, <1>10, <1>11 DEF Climbing
<1>13. ~ (a > 1 /\ x.q[p].key > item.key)
  BY <1>1, <1>12 DEF Arrived
<1>14. /\ y \in Seq(QItem) /\ Len(y) = N + 1
       /\ \A i \in 1 .. N + 1 : y[i] = IF i = a THEN item ELSE x.q[i]
  <2>1. y = [x.q EXCEPT ![a] = item]
    BY <1>11 DEF Fill
  <2> HIDE DEF a
  <2> QED
    BY <1>12, <2>1, ExceptIs
<1>15. ASSUME NEW j \in 2 .. N + 1 PROVE y[j \div 2].key <= y[j].key
  <2>1. CASE j # a
    BY <1>12, <1>14, <2>1 DEF OrderedAbove
  <2>2. CASE j = a
    <3>1. p \in 1 .. N + 1 /\ p # a /\ a > 1
      BY <1>1, <2>2, Halves
    <3>2. y[p] = x.q[p] /\ y[a] = item
      BY <1>12, <1>14, <3>1
    <3>3. x.q[p].key \in Nat /\ item.key \in Nat
      BY <1>12, <3>1, ItemIs, KeysAssumption DEF QItem
    <3>4. x.q[p].key <= item.key
      BY <1>13, <3>1, <3>3
    <3> QED
      BY <2>2, <3>2, <3>4
  <2> QED
    BY <2>1, <2>2
<1>16. Ordered(y)
  BY <1>14, <1>15 DEF Ordered
<1> QED
  BY <1>12, <1>16

\* jt_pqueue_heapify
IsSink(f, e, N) == f = [t \in 0 .. N |-> IF t = 0 THEN e ELSE Down(f[t - 1])]

LEMMA SinkExists ==
    ASSUME NEW e, NEW N \in Nat PROVE \E f : IsSink(f, e, N)
<1> DEFINE S == {n \in 0 .. N : \E f : IsSink(f, e, n)}
<1>1. 0 \in S
  <2>1. IsSink([n \in 0 .. 0 |-> e], e, 0)
    BY DEF IsSink
  <2> QED
    BY <2>1
<1>2. \A n \in 0 .. N - 1 : n \in S => n + 1 \in S
  <2> SUFFICES ASSUME NEW n \in 0 .. N - 1, NEW f, IsSink(f, e, n)
               PROVE  \E g : IsSink(g, e, n + 1)
    OBVIOUS
  <2> DEFINE g == [i \in 0 .. n + 1 |-> IF i = n + 1 THEN Down(f[n]) ELSE f[i]]
  <2>1. \A i \in 0 .. n + 1 : g[i] = IF i = 0 THEN e ELSE Down(g[i - 1])
    <3> SUFFICES ASSUME NEW i \in 0 .. n + 1
                 PROVE  g[i] = IF i = 0 THEN e ELSE Down(g[i - 1])
      OBVIOUS
    <3>1. CASE i = n + 1
      BY <3>1
    <3>2. CASE i # n + 1
      <4>1. i \in 0 .. n /\ (i # 0 => i - 1 \in 0 .. n)
        BY <3>2
      <4>2. f[i] = IF i = 0 THEN e ELSE Down(f[i - 1])
        BY <4>1 DEF IsSink
      <4> QED
        BY <3>2, <4>1, <4>2
    <3> QED
      BY <3>1, <3>2
  <2>2. IsSink(g, e, n + 1)
    BY <2>1 DEF IsSink
  <2> QED
    BY <2>2
<1> HIDE DEF S
<1>3. N \in S
  BY <1>1, <1>2, Induct
<1> QED
  BY <1>3 DEF S

\* The least of an item and those below it
Least3(q, a) == Lesser(q, Lesser(q, a, 2 * a), 2 * a + 1)

LEMMA LeastIs ==
    ASSUME NEW q \in Seq(QItem), NEW N, N = Len(q), NEW a \in 1 .. N, NEW c, c = Least3(q, a)
    PROVE  /\ c \in 1 .. N
           /\ c # a => c > a /\ c \div 2 = a /\ q[c].key < q[a].key
           /\ \A j \in 2 .. N : j \div 2 = a => q[c].key <= q[j].key
<1>1. N \in Nat /\ \A i \in 1 .. N : q[i].key \in Nat
  BY ItemIs, LenProperties
<1> DEFINE b == Lesser(q, a, 2 * a)
<1>2. /\ b \in 1 .. N /\ (b # a => b = 2 * a /\ q[b].key < q[a].key)
      /\ 2 * a <= N => q[b].key <= q[2 * a].key
      /\ q[b].key <= q[a].key
  BY <1>1 DEF Lesser
<1>3. c = Lesser(q, b, 2 * a + 1)
  BY DEF Least3
<1> HIDE DEF b
<1>4. /\ c \in 1 .. N /\ (c # b => c = 2 * a + 1 /\ q[c].key < q[b].key)
      /\ 2 * a + 1 <= N => q[c].key <= q[2 * a + 1].key
      /\ q[c].key <= q[b].key
  BY <1>1, <1>2, <1>3 DEF Lesser
<1>5. c # a => c > a /\ c \div 2 = a /\ q[c].key < q[a].key
  <2> SUFFICES ASSUME c # a PROVE c > a /\ c \div 2 = a /\ q[c].key < q[a].key
    OBVIOUS
  <2>1. (c = 2 * a \/ c = 2 * a + 1) /\ q[c].key < q[a].key
    BY <1>1, <1>2, <1>4
  <2>2. c > a /\ c > 1
    BY <1>1, <2>1
  <2>3. c \div 2 = a
    BY <1>1, <1>4, <2>1, <2>2, Halves
  <2> QED
    BY <2>1, <2>2, <2>3
<1>6. ASSUME NEW j \in 2 .. N, j \div 2 = a PROVE q[c].key <= q[j].key
  <2>1. j = 2 * a \/ j = 2 * a + 1
    BY <1>1, <1>6, Halves
  <2>2. CASE j = 2 * a
    <3>1. q[b].key <= q[j].key /\ q[c].key <= q[b].key
      BY <1>1, <1>2, <1>4, <2>2
    <3> QED
      BY <1>1, <1>2, <1>4, <3>1
  <2>3. CASE j = 2 * a + 1
    BY <1>1, <1>4, <2>3
  <2> QED
    BY <2>1, <2>2, <2>3
<1> QED
  BY <1>4, <1>5, <1>6

Settled(x) == Least3(x.q, x.at) = x.at
Sinking(x, r, t) ==
    /\ x.at \in 1 .. Len(r) /\ Perm(x.q, r) /\ OrderedBelow(x.q, x.at)
    /\ Settled(x) \/ x.at > t

LEMMA SinkStep ==
    ASSUME NEW r \in Seq(QItem), NEW t \in Nat, NEW x, Sinking(x, r, t), NEW w, w = Down(x)
    PROVE  Sinking(w, r, t + 1)
<1> DEFINE a == x.at
           q == x.q
           c == Least3(q, a)
<1>1. Len(r) \in Nat
  BY LenProperties
<1>2. /\ q \in Seq(QItem) /\ Len(q) = Len(r) /\ a \in 1 .. Len(r)
      /\ Perm(q, r) /\ OrderedBelow(q, a) /\ (c = a \/ a > t)
  BY DEF Sinking, Settled, Perm
<1>3. w = IF c = a THEN x ELSE [q |-> [q EXCEPT ![a] = q[c], ![c] = q[a]], at |-> c]
  BY DEF Down, Least3
<1>4. CASE c = a
  <2>1. w = x /\ Settled(x)
    BY <1>3, <1>4 DEF Settled
  <2> QED
    BY <2>1 DEF Sinking
<1>5. CASE c # a
  <2> DEFINE u == [q EXCEPT ![a] = q[c]]
             z == [u EXCEPT ![c] = q[a]]
  <2>1. w.q = z /\ w.at = c
    BY <1>3, <1>5
  <2>2. c = Least3(q, a)
    OBVIOUS
  <2> HIDE DEF a, q, c, u, z
  <2>3. /\ c \in 1 .. Len(r) /\ c > a /\ c \div 2 = a /\ q[c].key < q[a].key
        /\ \A j \in 2 .. Len(r) : j \div 2 = a => q[c].key <= q[j].key
    BY <1>2, <1>5, <2>2, LeastIs
  <2>4. q[a] \in QItem /\ q[c] \in QItem
    BY <1>2, <2>3, ItemIs
  <2>5. /\ u \in Seq(QItem) /\ Len(u) = Len(q)
        /\ \A i \in 1 .. Len(q) : u[i] = IF i = a THEN q[c] ELSE q[i]
    BY <1>2, <2>4, ExceptIs DEF u
  <2>6. /\ z \in Seq(QItem) /\ Len(z) = Len(u)
        /\ \A i \in 1 .. Len(u) : z[i] = IF i = c THEN q[a] ELSE u[i]
    BY <1>2, <2>3, <2>4, <2>5, ExceptIs DEF z
  <2>7. Transposed(z, q, a, c)
    BY <1>2, <2>3, <2>5, <2>6 DEF Transposed
  <2>8. Perm(z, r)
    BY <1>2, <2>3, <2>7, PermSwap
  <2>9. OrderedBelow(z, c)
    <3>1. c \in 2 .. Len(q)
      BY <1>1, <1>2, <2>3
    <3> QED
      BY <1>2, <2>3, <2>7, <3>1, OrderedDown
  <2>10. c > t + 1
    BY <1>1, <1>2, <1>5, <2>3
  <2> QED
    BY <2>1, <2>3, <2>8, <2>9, <2>10 DEF Sinking
<1> QED
  BY <1>4, <1>5

LEMMA HeapifyIs ==
    ASSUME NEW r \in Seq(QItem), Len(r) # 0, OrderedBelow(r, 1), NEW y, y = heapify(r, 1)
    PROVE  Perm(y, r) /\ Ordered(y)
<1> DEFINE N == Len(r)
           e == [q |-> r, at |-> 1]
           f == CHOOSE f : IsSink(f, e, N)
<1>1. N \in Nat /\ N # 0
  BY LenProperties
<1>2. IsSink(f, e, N)
  BY <1>1, SinkExists
<1>3. y = f[N].q
  BY Zenon DEF heapify, IsSink
<1>4. e.q = r /\ e.at = 1
  OBVIOUS
<1> HIDE DEF f, e
<1>5. f[0] = e /\ \A t \in 1 .. N : f[t] = Down(f[t - 1])
  BY <1>1, <1>2 DEF IsSink
<1> HIDE DEF N
<1> DEFINE S == {t \in 0 .. N : Sinking(f[t], r, t)}
<1>6. 0 \in S
  <2>1. Perm(r, r)
    BY PermSame
  <2>2. 1 \in 1 .. Len(r)
    BY <1>1 DEF N
  <2>3. Sinking(e, r, 0)
    BY <1>4, <2>1, <2>2 DEF Sinking
  <2> QED
    BY <1>1, <1>5, <2>3
<1>7. ASSUME NEW t \in 0 .. N - 1, t \in S PROVE t + 1 \in S
  <2>1. Sinking(f[t], r, t) /\ t \in Nat
    BY <1>1, <1>7
  <2>2. t + 1 \in 1 .. N /\ (t + 1) - 1 = t /\ t + 1 \in 0 .. N
    BY <1>1
  <2>3. f[t + 1] = Down(f[t])
    BY <1>5, <2>2
  <2>4. Sinking(f[t + 1], r, t + 1)
    BY <2>1, <2>3, SinkStep
  <2> QED
    BY <2>2, <2>4
<1> HIDE DEF S
<1>8. N \in S
  <2>1. \A t \in 0 .. N : t \in S
    BY <1>1, <1>6, <1>7, Induct
  <2> QED
    BY <1>1, <2>1
<1> DEFINE x == f[N]
           a == x.at
<1>9. Sinking(x, r, N) /\ y = x.q
  BY <1>3, <1>8 DEF S
<1> HIDE DEF x
<1>10. /\ y \in Seq(QItem) /\ Len(y) = N /\ a \in 1 .. N /\ Perm(y, r)
       /\ OrderedBelow(y, a) /\ Least3(y, a) = a
  BY <1>1, <1>9 DEF Sinking, Settled, Perm, N
<1> HIDE DEF a
<1>11. \A j \in 2 .. N : j \div 2 = a => y[a].key <= y[j].key
  <2> DEFINE c == Least3(y, a)
  <2>1. c = Least3(y, a) /\ c = a
    BY <1>10
  <2> HIDE DEF c
  <2> QED
    BY <1>10, <2>1, LeastIs
<1>12. Ordered(y)
  BY <1>10, <1>11 DEF Ordered, OrderedBelow
<1> QED
  BY <1>10, <1>12

\* jt_pqueue_extract: the last item takes the place of the first and sinks.
Beheaded(r, q) ==
    /\ r \in Seq(QItem) /\ Len(r) = Len(q) - 1
    /\ \A i \in 1 .. Len(q) - 1 : r[i] = IF i = 1 THEN q[Len(q)] ELSE q[i]

LEMMA PqueueExtractIs ==
    ASSUME NEW q \in Seq(QItem), Ordered(q), Len(q) # 0, NEW y, y = pqueue_extract(q)
    PROVE  Ordered(y) /\ \E r : Beheaded(r, q) /\ Perm(y, r)
<1> DEFINE n == Len(q) - 1
           u == SubSeq(q, 1, n)
           e == q[n + 1]
           r == [u EXCEPT ![1] = e]
<1>1. Len(q) \in Nat /\ n \in Nat /\ n + 1 = Len(q)
  BY LenProperties
<1>2. y = IF n = 0 THEN << >> ELSE heapify(r, 1)
  BY DEF pqueue_extract
<1>3. CASE n = 0
  <2>0. y = << >>
    BY <1>2, <1>3
  <2>1. Len(y) = 0 /\ y \in Seq(QItem)
    BY <2>0
  <2>2. Perm(y, y)
    BY <2>1, PermSame
  <2>3. Beheaded(y, q)
    <3> DEFINE top == Len(q) - 1
    <3>1. top = 0 /\ Len(y) = top
      BY <1>3, <2>1
    <3> HIDE DEF top
    <3>2. \A i \in 1 .. top : y[i] = IF i = 1 THEN q[Len(q)] ELSE q[i]
      BY <3>1
    <3> QED
      BY <2>1, <3>1, <3>2 DEF Beheaded, top
  <2>4. Ordered(y)
    BY <2>1 DEF Ordered
  <2> QED
    BY <2>2, <2>3, <2>4
<1>4. CASE n # 0
  <2>1. u \in Seq(QItem) /\ Len(u) = n /\ \A i \in 1 .. n : u[i] = q[i]
    <3>1. \A i \in 1 .. n : q[i] \in QItem
      BY <1>1, ElementOfSeq
    <3>2. /\ u \in Seq(QItem) /\ Len(u) = IF 1 <= n THEN n - 1 + 1 ELSE 0
          /\ \A i \in 1 .. n - 1 + 1 : u[i] = q[1 + i - 1]
      BY <1>1, <1>4, <3>1, SubSeqProperties
    <3> QED
      BY <1>1, <1>4, <3>2
  <2>2. e \in QItem
    BY <1>1, ElementOfSeq
  <2>3. y = heapify(r, 1)
    BY <1>2, <1>4
  <2> HIDE DEF u, e, r
  <2>4. /\ r \in Seq(QItem) /\ Len(r) = n
        /\ \A i \in 1 .. n : r[i] = IF i = 1 THEN e ELSE q[i]
    <3>1. 1 \in 1 .. Len(u)
      BY <1>1, <1>4, <2>1
    <3>2. /\ r \in Seq(QItem) /\ Len(r) = Len(u)
          /\ \A i \in 1 .. Len(u) : r[i] = IF i = 1 THEN e ELSE u[i]
      BY <2>1, <2>2, <3>1, ExceptIs DEF r
    <3> QED
      BY <2>1, <3>2
  <2>5. OrderedBelow(r, 1)
    <3> SUFFICES ASSUME NEW j \in 2 .. n, j \div 2 # 1 PROVE r[j \div 2].key <= r[j].key
      BY <2>4 DEF OrderedBelow
    <3>1. j \div 2 \in 1 .. n /\ j \in 2 .. Len(q) /\ j \in 1 .. n /\ j # 1
      BY <1>1, Halves
    <3>2. q[j \div 2].key <= q[j].key
      BY <3>1 DEF Ordered
    <3> QED
      BY <2>4, <3>1, <3>2
  <2>6. Perm(y, r) /\ Ordered(y)
    BY <1>4, <2>3, <2>4, <2>5, HeapifyIs
  <2>7. Beheaded(r, q)
    BY <1>1, <2>4 DEF Beheaded, e
  <2> QED
    BY <2>6, <2>7
<1> QED
  BY <1>3, <1>4

\* The items of the queue
Ats(q) == [i \in 1 .. Len(q) |-> q[i].at]

LEMMA AtsIs ==
    ASSUME NEW q \in Seq(QItem), NEW s, s = Ats(q)
    PROVE  s \in Seq(Addr) /\ Len(s) = Len(q) /\ \A i \in 1 .. Len(q) : s[i] = q[i].at
<1>1. Len(q) \in Nat /\ \A i \in 1 .. Len(q) : q[i].at \in Addr
  BY ItemIs, LenProperties
<1> DEFINE N == Len(q)
<1>2. s = [i \in 1 .. N |-> q[i].at]
  BY DEF Ats
<1> HIDE DEF N
<1>3. s \in [1 .. N -> Addr]
  BY <1>1, <1>2 DEF N
<1>4. s \in Seq(Addr) /\ Len(s) = N
  BY <1>1, <1>3 DEF N
<1> QED
  BY <1>2, <1>4 DEF N

LEMMA QueueInsertKeeps ==
    ASSUME NEW x \in Memory, NEW q \in Seq(QItem), NEW s, s = Ats(q), Distinct(s), Used(x, s),
           NEW k \in Keys, NEW a \in x.free, NEW it, it = [key |-> k, at |-> a],
           NEW r, Appended(r, q, it), NEW z, Perm(z, r),
           NEW y, y = New(x, a, Blank), NEW t, t = Ats(z)
    PROVE  Change(x, y, s, t)
<1>1. a \in Addr /\ it \in QItem /\ it.at = a
  BY DEF Memory, QItem
<1>2. /\ r \in Seq(QItem) /\ Len(r) = Len(q) + 1
      /\ \A i \in 1 .. Len(q) : r[i] = q[i]
      /\ r[Len(q) + 1] = it
  BY DEF Appended
<1>3. /\ s \in Seq(Addr) /\ Len(s) = Len(q) /\ Len(q) \in Nat
      /\ \A i \in 1 .. Len(q) : s[i] = q[i].at
  BY AtsIs, LenProperties
<1>4. /\ t \in Seq(Addr) /\ Len(t) = Len(q) + 1
      /\ \A i \in 1 .. Len(q) + 1 : t[i] = z[i].at
  <2>1. z \in Seq(QItem) /\ Len(z) = Len(q) + 1
    BY <1>2 DEF Perm
  <2> QED
    BY <2>1, AtsIs
<1>5. \A i \in 1 .. Len(q) : s[i] # a /\ In(s[i], s)
  BY <1>3 DEF Used, In
<1>6. \A i, j \in 1 .. Len(r) : r[i].at = r[j].at => i = j
  <2> SUFFICES ASSUME NEW i \in 1 .. Len(q) + 1, NEW j \in 1 .. Len(q) + 1, r[i].at = r[j].at
               PROVE  i = j
    BY <1>2
  <2>1. \A n \in 1 .. Len(q) + 1 : r[n].at = IF n = Len(q) + 1 THEN a ELSE s[n]
    BY <1>1, <1>2, <1>3
  <2> QED
    BY <1>3, <1>5, <2>1 DEF Distinct
<1>7. Distinct(t)
  <2> SUFFICES ASSUME NEW i \in 1 .. Len(q) + 1, NEW j \in 1 .. Len(q) + 1, t[i] = t[j]
               PROVE  i = j
    BY <1>4 DEF Distinct
  <2>1. i \in 1 .. Len(r) /\ j \in 1 .. Len(r) /\ z[i].at = z[j].at
    BY <1>2, <1>4
  <2> QED
    BY <1>6, <2>1, PermDistinct
<1>8. ASSUME NEW i \in 1 .. Len(t) PROVE t[i] = a \/ In(t[i], s)
  <2>1. i \in 1 .. Len(r) /\ t[i] = z[i].at
    BY <1>2, <1>4
  <2>2. PICK j \in 1 .. Len(r) : z[i] = r[j]
    BY <2>1, PermIn
  <2>3. CASE j = Len(q) + 1
    BY <1>1, <1>2, <2>1, <2>2, <2>3
  <2>4. CASE j # Len(q) + 1
    <3>1. j \in 1 .. Len(q)
      BY <1>2, <1>3, <2>4
    <3> QED
      BY <1>2, <1>3, <1>5, <2>1, <2>2, <3>1
  <2> QED
    BY <2>3, <2>4
<1>9. /\ y \in Memory /\ y.free = x.free \ {a}
      /\ \A b \in Addr \ {a} : Same(x, y, b)
  BY BlankCell, NewIs
<1>10. Used(y, t)
  BY <1>8, <1>9 DEF Used, In
<1>11. ASSUME NEW b \in Addr, In(b, t) PROVE In(b, s) \/ b \in x.free
  BY <1>8, <1>11 DEF In
<1>12. ASSUME NEW b, b = a \/ In(b, s) PROVE In(b, t)
  <2>1. PICK j \in 1 .. Len(r) : r[j].at = b
    <3>1. CASE b = a
      BY <1>1, <1>2, <1>3, <3>1
    <3>2. CASE In(b, s)
      <4>1. PICK i \in 1 .. Len(q) : s[i] = b
        BY <1>3, <3>2 DEF In
      <4>2. i \in 1 .. Len(r) /\ r[i] = q[i]
        BY <1>2, <1>3
      <4>3. r[i].at = b
        BY <1>3, <4>1, <4>2
      <4> QED
        BY <4>2, <4>3
    <3> QED
      BY <1>12, <3>1, <3>2
  <2>2. PICK i \in 1 .. Len(r) : z[i] = r[j]
    BY PermOut
  <2> QED
    BY <1>2, <1>4, <2>1, <2>2 DEF In
<1>13. Accounted(x, y, s, t)
  BY <1>9, <1>12 DEF Accounted
<1> QED
  BY <1>4, <1>7, <1>9, <1>10, <1>11, <1>13 DEF Change

LEMMA QueueExtractKeeps ==
    ASSUME NEW x \in Memory, NEW q \in Seq(QItem), NEW s, s = Ats(q), Distinct(s), Used(x, s),
           Len(q) # 0, NEW r, Beheaded(r, q), NEW z, Perm(z, r),
           NEW a, a = q[1].at, NEW y, y = Delete(x, a), NEW t, t = Ats(z)
    PROVE  Change(x, y, s, t)
<1>1. /\ s \in Seq(Addr) /\ Len(s) = Len(q) /\ Len(q) \in Nat /\ 1 \in 1 .. Len(q)
      /\ \A i \in 1 .. Len(q) : s[i] = q[i].at
  BY AtsIs, LenProperties
<1> DEFINE n == Len(q) - 1
           at(i) == IF i = 1 THEN Len(q) ELSE i
<1>2. /\ n \in Nat /\ Len(r) = n
      /\ \A i \in 1 .. n : r[i] = q[at(i)] /\ at(i) \in 1 .. Len(q) /\ at(i) # 1
  BY <1>1 DEF Beheaded
<1>3. \A i, j \in 1 .. n : at(i) = at(j) => i = j
  BY <1>1
<1> HIDE DEF n, at
<1>4. /\ t \in Seq(Addr) /\ Len(t) = n
      /\ \A i \in 1 .. n : t[i] = z[i].at
  <2>1. z \in Seq(QItem) /\ Len(z) = n
    BY <1>2 DEF Perm
  <2> QED
    BY <2>1, AtsIs
<1>5. a = s[1] /\ a \in Addr \ x.free
  BY <1>1, ElementOfSeq DEF Used
<1>6. \A i \in 1 .. n : r[i].at = s[at(i)] /\ s[at(i)] # a /\ In(s[at(i)], s)
  BY <1>1, <1>2, <1>5 DEF Distinct, In
<1>7. \A i, j \in 1 .. Len(r) : r[i].at = r[j].at => i = j
  BY <1>1, <1>2, <1>3, <1>6 DEF Distinct
<1>8. Distinct(t)
  <2> SUFFICES ASSUME NEW i \in 1 .. n, NEW j \in 1 .. n, t[i] = t[j] PROVE i = j
    BY <1>4 DEF Distinct
  <2>1. i \in 1 .. Len(r) /\ j \in 1 .. Len(r) /\ z[i].at = z[j].at
    BY <1>2, <1>4
  <2> QED
    BY <1>7, <2>1, PermDistinct
<1>9. ASSUME NEW i \in 1 .. n PROVE t[i] # a /\ In(t[i], s)
  <2>1. i \in 1 .. Len(r) /\ t[i] = z[i].at
    BY <1>2, <1>4
  <2>2. PICK j \in 1 .. Len(r) : z[i] = r[j]
    BY <2>1, PermIn
  <2> QED
    BY <1>2, <1>6, <2>1, <2>2
<1>10. /\ y \in Memory /\ y.free = x.free \cup {a}
       /\ \A b \in Addr \ {a} : Same(x, y, b)
  BY <1>5, DeleteIs
<1>11. Used(y, t)
  BY <1>4, <1>9, <1>10 DEF Used, In
<1>12. ASSUME NEW b \in Addr, In(b, t) PROVE In(b, s)
  <2>1. PICK i \in 1 .. n : t[i] = b
    BY <1>4, <1>12 DEF In
  <2> QED
    BY <1>9, <2>1
<1>13. ASSUME NEW b \in Addr \ x.free, ~ In(b, s) PROVE b # a
  BY <1>1, <1>5, <1>13 DEF In
<1>14. ASSUME NEW b, b # a, In(b, s) PROVE In(b, t)
  <2>1. PICK h \in 1 .. Len(q) : s[h] = b
    BY <1>1, <1>14 DEF In
  <2>2. PICK j \in 1 .. n : at(j) = h
    <3>1. h # 1
      BY <1>5, <1>14, <2>1
    <3> DEFINE j == IF h = Len(q) THEN 1 ELSE h
    <3>2. j \in 1 .. n /\ at(j) = h
      BY <1>1, <3>1 DEF n, at
    <3> QED
      BY <3>2
  <2>3. j \in 1 .. Len(r) /\ r[j].at = b
    BY <1>2, <1>6, <2>1, <2>2
  <2>4. PICK i \in 1 .. Len(r) : z[i] = r[j]
    BY <2>3, PermOut
  <2> QED
    BY <1>2, <1>4, <2>3, <2>4 DEF In
<1>15. Accounted(x, y, s, t)
  BY <1>10, <1>14 DEF Accounted
<1> QED
  BY <1>4, <1>8, <1>10, <1>11, <1>12, <1>13, <1>15 DEF Change

-----------------------------------------------------------------------------
(* All containers in one memory *)

Buckets == 0 .. HashSize - 1
LIST == HashSize
RING == HashSize + 1
HEAP == HashSize + 2
Ids == 0 .. HashSize + 2

LEMMA IdsAre ==
    /\ LIST \in Ids /\ RING \in Ids /\ HEAP \in Ids
    /\ LIST # RING /\ LIST # HEAP /\ RING # HEAP
    /\ \A i \in Buckets : i \in Ids /\ i # LIST /\ i # RING /\ i # HEAP
    /\ \A k \in Keys : HASHFN(k) \in Buckets
<1>1. HashSize \in Nat /\ HashSize > 0
  BY SizeAssumption
<1>2. ASSUME NEW k \in Keys PROVE HASHFN(k) \in Buckets
  <2> DEFINE h == k * 17011
  <2>1. k \in Nat
    BY KeysAssumption
  <2>2. h \in Int
    BY <2>1
  <2> HIDE DEF h
  <2>3. h % HashSize \in 0 .. HashSize - 1
    BY <1>1, <2>2
  <2> QED
    BY <2>3 DEF HASHFN, Buckets, h
<1> QED
  BY <1>1, <1>2 DEF Buckets, LIST, RING, HEAP, Ids

ListOk(x, s, b) ==
    /\ Linked(x, s) /\ (b => Backed(x, s))
    /\ \A i \in 1 .. Len(s) : x.item[s[i]].data \in Data
Ok(x, s, c, b) ==
    /\ c \in Buckets => BucketOk(x, s, c)
    /\ c = LIST => ListOk(x, s, b)
    /\ c = RING => RingOk(x, s)

\* The containers have no item in common, none of their items is free, and every
\* item that is not free is in one of them.
Apart(s, t) == \A a \in Addr : ~ (In(a, s) /\ In(a, t))
Covers(x, K) == \A a \in Addr \ x.free : \E c \in Ids : In(a, K[c])
Family(x, K, b) ==
    /\ x \in Memory /\ K \in [Ids -> Seq(Addr)]
    /\ \A c \in Ids : Distinct(K[c]) /\ Used(x, K[c]) /\ Ok(x, K[c], c, b)
    /\ \A c, d \in Ids : c # d => Apart(K[c], K[d])
    /\ Covers(x, K)

Kept(x, y, s) == \A i \in 1 .. Len(s) : Same(x, y, s[i])
Becomes(K, L, c, t) == L[c] = t /\ \A d \in Ids \ {c} : L[d] = K[d]
Rest(x, y, K, c) == \A d \in Ids \ {c} : Kept(x, y, K[d])

LEMMA KeptOk ==
    ASSUME NEW x, NEW y, NEW s \in Seq(Addr), Kept(x, y, s), NEW c, NEW b, Ok(x, s, c, b)
    PROVE  Ok(y, s, c, b)
<1>1. Len(s) \in Nat
  BY LenProperties
<1>2. \A i \in 1 .. Len(s) : /\ y.item[s[i]].prev = x.item[s[i]].prev
                             /\ y.item[s[i]].next = x.item[s[i]].next
                             /\ y.item[s[i]].data = x.item[s[i]].data
  BY DEF Kept, Same, SamePrev, SameNext, SameData
<1>3. Linked(x, s) => Linked(y, s)
  BY <1>2 DEF Linked
<1>4. Backed(x, s) => Backed(y, s)
  BY <1>2 DEF Backed
<1>5. Keyed(x, s, c) => Keyed(y, s, c)
  BY <1>2 DEF Keyed, KeyAt
<1>6. RingLinked(x, s) => RingLinked(y, s)
  <2> SUFFICES ASSUME RingLinked(x, s), NEW i \in 1 .. Len(s) PROVE Pair(y, s[i], After(s, i))
    BY DEF RingLinked
  <2>1. PICK j \in 1 .. Len(s) : After(s, i) = s[j]
    BY AfterIn DEF In
  <2>2. Pair(x, s[i], s[j])
    BY <2>1 DEF RingLinked
  <2> QED
    BY <1>2, <2>1, <2>2 DEF Pair
<1>7. RingOk(x, s) => RingOk(y, s)
  BY <1>1, <1>2, <1>6 DEF RingOk
<1>8. ListOk(x, s, b) => ListOk(y, s, b)
  BY <1>2, <1>3, <1>4 DEF ListOk
<1> QED
  BY <1>3, <1>4, <1>5, <1>7, <1>8 DEF Ok, BucketOk

\* A step that changes one container
LEMMA FamilyStep ==
    ASSUME NEW x, NEW K, NEW b, Family(x, K, b), NEW c \in Ids, NEW y, NEW t,
           Change(x, y, K[c], t), NEW b2, Ok(y, t, c, b2), c # LIST => b2 = b
    PROVE  (\E L : Becomes(K, L, c, t) /\ Family(y, L, b2)) /\ Rest(x, y, K, c)
<1> DEFINE L == [d \in Ids |-> IF d = c THEN t ELSE K[d]]
<1>1. /\ x \in Memory /\ K \in [Ids -> Seq(Addr)]
      /\ \A d \in Ids : Distinct(K[d]) /\ Used(x, K[d]) /\ Ok(x, K[d], d, b)
      /\ \A d, e \in Ids : d # e => Apart(K[d], K[e])
  BY DEF Family
<1>2. /\ y \in Memory /\ t \in Seq(Addr) /\ Distinct(t) /\ Used(y, t)
      /\ \A a \in Addr : In(a, t) => In(a, K[c]) \/ a \in x.free
      /\ \A a \in Addr \ x.free : ~ In(a, K[c]) => a \notin y.free /\ Same(x, y, a)
  BY DEF Change
<1>3. Becomes(K, L, c, t) /\ L \in [Ids -> Seq(Addr)]
  BY <1>1, <1>2 DEF Becomes
<1> HIDE DEF L
<1>4. ASSUME NEW d \in Ids \ {c}
      PROVE  Used(y, K[d]) /\ Kept(x, y, K[d]) /\ Apart(K[d], t)
  <2>1. K[d] \in Seq(Addr) /\ Apart(K[d], K[c]) /\ Used(x, K[d])
    BY <1>1, <1>4
  <2>2. \A i \in 1 .. Len(K[d]) :
          /\ K[d][i] \in Addr \ x.free /\ In(K[d][i], K[d]) /\ ~ In(K[d][i], K[c])
    <3> SUFFICES ASSUME NEW i \in 1 .. Len(K[d])
                 PROVE  /\ K[d][i] \in Addr \ x.free /\ In(K[d][i], K[d])
                        /\ ~ In(K[d][i], K[c])
      OBVIOUS
    <3>1. K[d][i] \in Addr
      BY <2>1, ElementOfSeq
    <3>2. In(K[d][i], K[d])
      BY DEF In
    <3> QED
      BY <2>1, <3>1, <3>2 DEF Apart, Used
  <2>3. Used(y, K[d]) /\ Kept(x, y, K[d])
    BY <1>2, <2>2 DEF Used, Kept
  <2>4. ASSUME NEW a \in Addr, In(a, K[d]), In(a, t) PROVE FALSE
    <3>1. a \notin x.free /\ ~ In(a, K[c])
      BY <2>1, <2>4 DEF Used, In, Apart
    <3> QED
      BY <1>2, <2>4, <3>1
  <2> QED
    BY <2>3, <2>4 DEF Apart
<1>5. ASSUME NEW d \in Ids PROVE Distinct(L[d]) /\ Used(y, L[d]) /\ Ok(y, L[d], d, b2)
  <2>1. CASE d = c
    BY <1>2, <1>3, <2>1 DEF Becomes
  <2>2. CASE d # c
    <3>1. L[d] = K[d] /\ K[d] \in Seq(Addr)
      BY <1>1, <1>3, <2>2 DEF Becomes
    <3>2. Ok(x, K[d], d, b) /\ Kept(x, y, K[d])
      BY <1>1, <1>4, <2>2
    <3>3. Ok(y, K[d], d, b)
      BY <3>1, <3>2, KeptOk
    <3>4. Ok(y, K[d], d, b2)
      <4>1. CASE c = LIST
        BY <2>2, <3>3, <4>1 DEF Ok
      <4>2. CASE c # LIST
        BY <3>3, <4>2
      <4> QED
        BY <4>1, <4>2
    <3> QED
      BY <1>1, <1>4, <2>2, <3>1, <3>4
  <2> QED
    BY <2>1, <2>2
<1>6. ASSUME NEW d \in Ids, NEW e \in Ids, d # e PROVE Apart(L[d], L[e])
  <2>1. CASE d = c
    <3>1. L[d] = t /\ L[e] = K[e] /\ Apart(K[e], t)
      BY <1>3, <1>4, <1>6, <2>1 DEF Becomes
    <3> QED
      BY <3>1 DEF Apart
  <2>2. CASE e = c
    <3>1. L[e] = t /\ L[d] = K[d] /\ Apart(K[d], t)
      BY <1>3, <1>4, <1>6, <2>2 DEF Becomes
    <3> QED
      BY <3>1
  <2>3. CASE d # c /\ e # c
    BY <1>1, <1>3, <1>6, <2>3 DEF Becomes
  <2> QED
    BY <2>1, <2>2, <2>3
<1>7. Family(y, L, b2)
  <2>1. ASSUME NEW a \in Addr \ y.free PROVE \E d \in Ids : In(a, L[d])
    <3>1. In(a, t) \/ (a \notin x.free /\ ~ In(a, K[c]))
      BY DEF Change, Accounted
    <3>2. CASE In(a, t)
      BY <1>3, <3>2 DEF Becomes
    <3>3. CASE a \notin x.free /\ ~ In(a, K[c])
      <4>1. PICK d \in Ids : In(a, K[d])
        BY <3>3 DEF Family, Covers
      <4> QED
        BY <1>3, <3>3, <4>1 DEF Becomes
    <3> QED
      BY <3>1, <3>2, <3>3
  <2> QED
    BY <1>2, <1>3, <1>5, <1>6, <2>1 DEF Family, Covers
<1>8. Rest(x, y, K, c)
  BY <1>4 DEF Rest
<1> QED
  BY <1>3, <1>7, <1>8

-----------------------------------------------------------------------------
(* The operations on a chain of the hash table *)

Holds(x, s, e) == \E j \in 1 .. Len(s) : x.item[s[j]].data = e
Stored(x, s, y, t, k, d) ==
    \A e \in Entries : Holds(y, t, e) <=> e = Entry(k, d) \/ (e.key # k /\ Holds(x, s, e))
Dropped(x, s, y, t, k) ==
    \A e \in Entries : Holds(y, t, e) <=> e.key # k /\ Holds(x, s, e)

LEMMA EntryIs ==
    ASSUME NEW k \in Keys, NEW d \in Data
    PROVE  Entry(k, d) \in Entries /\ Entry(k, d) \in Contents
           /\ Entry(k, d).key = k /\ Entry(k, d).data = d
BY DEF Entry, Entries, Contents

LEMMA BucketAdd ==
    ASSUME NEW x \in Memory, NEW s \in Seq(Addr), Distinct(s), Used(x, s),
           NEW c, BucketOk(x, s, c), NEW k \in Keys, NEW d \in Data, HASHFN(k) = c,
           Miss(x, s, k), NEW a \in x.free,
           NEW y, y = list_add(x, HeadOf(s), a, Entry(k, d)), NEW t, t = InsertAt(s, 1, a)
    PROVE  Change(x, y, s, t) /\ BucketOk(y, t, c) /\ HeadOf(t) = a /\ Stored(x, s, y, t, k, d)
<1> DEFINE n == Entry(k, d)
<1>1. n \in Entries /\ n \in Contents /\ n.key = k /\ n.data = d
  BY EntryIs
<1> HIDE DEF n
<1>2. /\ Change(x, y, s, t) /\ Inserted(t, s, 1, a)
      /\ Linked(y, t) /\ Backed(y, t) /\ HeadOf(t) = a
      /\ y.item[a].data = n /\ \A b \in Addr \ {a} : SameData(x, y, b)
  <2>1. y = list_add(x, HeadOf(s), a, n)
    BY DEF n
  <2> QED
    BY <1>1, <2>1, AddKeeps DEF BucketOk
<1>3. /\ Len(s) \in Nat /\ Len(t) = Len(s) + 1 /\ t[1] = a
      /\ \A j \in 2 .. Len(s) + 1 : t[j] = s[j - 1] /\ j - 1 \in 1 .. Len(s)
      /\ \A i \in 1 .. Len(s) : s[i] \in Addr \ {a}
  BY <1>2, ElementOfSeq, LenProperties DEF Inserted, Used
<1> DEFINE f(j) == y.item[t[j]].data
           g(i) == x.item[s[i]].data
<1>4. f(1) = n /\ \A j \in 2 .. Len(s) + 1 : f(j) = g(j - 1) /\ j - 1 \in 1 .. Len(s)
  BY <1>2, <1>3 DEF SameData
<1>5. \A i \in 1 .. Len(s) : g(i) \in Entries /\ g(i).key # k /\ HASHFN(g(i).key) = c
  BY DEF BucketOk, Keyed, KeyAt, Miss
<1>6. \A i, j \in 1 .. Len(s) : g(i).key = g(j).key => i = j
  BY DEF BucketOk, Keyed, KeyAt
<1>7. /\ \A j \in 1 .. Len(s) + 1 : f(j) \in Entries /\ HASHFN(f(j).key) = c
      /\ \A i, j \in 1 .. Len(s) + 1 : f(i).key = f(j).key => i = j
  <2> HIDE DEF f, g
  <2>1. \A j \in 1 .. Len(s) + 1 : j = 1 \/ j \in 2 .. Len(s) + 1
    BY <1>3
  <2>2. \A j \in 1 .. Len(s) + 1 : f(j) \in Entries /\ HASHFN(f(j).key) = c
    BY <1>1, <1>4, <1>5, <2>1
  <2>3. ASSUME NEW i \in 1 .. Len(s) + 1, NEW j \in 1 .. Len(s) + 1, f(i).key = f(j).key
        PROVE  i = j
    <3>1. CASE i = 1 \/ j = 1
      BY <1>1, <1>4, <1>5, <2>1, <2>3, <3>1
    <3>2. CASE i # 1 /\ j # 1
      <4>1. i - 1 \in 1 .. Len(s) /\ j - 1 \in 1 .. Len(s) /\ g(i - 1).key = g(j - 1).key
        BY <1>4, <2>1, <2>3, <3>2
      <4>2. i - 1 = j - 1
        BY <1>6, <4>1
      <4> QED
        BY <1>3, <4>2
    <3> QED
      BY <3>1, <3>2
  <2> QED
    BY <2>2, <2>3
<1>8. Keyed(y, t, c)
  BY <1>3, <1>7 DEF Keyed, KeyAt
<1>9. ASSUME NEW e \in Entries
      PROVE  Holds(y, t, e) <=> e = n \/ (e.key # k /\ Holds(x, s, e))
  <2>1. Holds(y, t, e) <=> \E j \in 1 .. Len(s) + 1 : f(j) = e
    BY <1>3 DEF Holds
  <2>2. Holds(x, s, e) <=> \E i \in 1 .. Len(s) : g(i) = e
    BY DEF Holds
  <2> HIDE DEF f, g
  <2>3. (\E j \in 1 .. Len(s) + 1 : f(j) = e) => e = n \/ \E i \in 1 .. Len(s) : g(i) = e
    BY <1>3, <1>4
  <2>4. e = n => \E j \in 1 .. Len(s) + 1 : f(j) = e
    BY <1>3, <1>4
  <2>5. ASSUME NEW i \in 1 .. Len(s), g(i) = e PROVE \E j \in 1 .. Len(s) + 1 : f(j) = e
    <3>1. i + 1 \in 2 .. Len(s) + 1 /\ i + 1 \in 1 .. Len(s) + 1 /\ (i + 1) - 1 = i
      BY <1>3
    <3>2. f(i + 1) = e
      BY <1>4, <2>5, <3>1
    <3> QED
      BY <3>1, <3>2
  <2>6. \A i \in 1 .. Len(s) : g(i) = e => e.key # k
    BY <1>5
  <2> QED
    BY <2>1, <2>2, <2>3, <2>4, <2>5, <2>6
<1>10. Stored(x, s, y, t, k, d)
  BY <1>9 DEF Stored, n
<1> QED
  BY <1>2, <1>8, <1>10 DEF BucketOk

LEMMA BucketSet ==
    ASSUME NEW x \in Memory, NEW s \in Seq(Addr), Distinct(s), Used(x, s),
           NEW c, BucketOk(x, s, c), NEW k \in Keys, NEW d \in Data,
           NEW p \in 1 .. Len(s), KeyAt(x, s[p]) = k,
           NEW y, y = Set(x, s[p], "data", Entry(k, d))
    PROVE  Change(x, y, s, s) /\ BucketOk(y, s, c) /\ Stored(x, s, y, s, k, d)
<1> DEFINE n == Entry(k, d)
           a == s[p]
<1>1. n \in Entries /\ n \in Contents /\ n.key = k
  BY EntryIs
<1>2. \A i \in 1 .. Len(s) : s[i] \in Addr \ x.free /\ In(s[i], s)
  BY ElementOfSeq DEF Used, In
<1>3. a \in Addr \ x.free /\ y = Set(x, a, "data", n)
  BY <1>2
<1> HIDE DEF n, a
<1>4. /\ y \in Memory /\ y.free = x.free
      /\ \A b \in Addr : y.item[b].data = IF b = a THEN n ELSE x.item[b].data
      /\ \A b \in Addr : SamePrev(x, y, b) /\ SameNext(x, y, b)
  BY <1>1, <1>3, SetData
<1>5. Change(x, y, s, s)
  <2>1. \A b \in Addr : ~ In(b, s) => b # a
    BY <1>2 DEF a
  <2> QED
    BY <1>4, <2>1 DEF Change, Accounted, Used, Same, SameData
<1>6. Linked(y, s) /\ Backed(y, s)
  BY <1>2, <1>4 DEF BucketOk, Linked, Backed, SamePrev, SameNext
<1>7. \A i \in 1 .. Len(s) : y.item[s[i]].data = IF i = p THEN n ELSE x.item[s[i]].data
  BY <1>2, <1>4 DEF Distinct, a
<1>8. /\ \A i \in 1 .. Len(s) : x.item[s[i]].data \in Entries /\ HASHFN(KeyAt(x, s[i])) = c
      /\ \A i, j \in 1 .. Len(s) : KeyAt(x, s[i]) = KeyAt(x, s[j]) => i = j
  BY DEF BucketOk, Keyed
<1>9. \A i \in 1 .. Len(s) : KeyAt(y, s[i]) = KeyAt(x, s[i])
  BY <1>1, <1>7 DEF KeyAt
<1>10. Keyed(y, s, c)
  BY <1>1, <1>7, <1>8, <1>9 DEF Keyed
<1>11. ASSUME NEW e \in Entries
       PROVE  Holds(y, s, e) <=> e = n \/ (e.key # k /\ Holds(x, s, e))
  <2>1. ASSUME NEW i \in 1 .. Len(s), y.item[s[i]].data = e
        PROVE  e = n \/ (e.key # k /\ Holds(x, s, e))
    <3>1. CASE i = p
      BY <1>7, <2>1, <3>1
    <3>2. CASE i # p
      <4>1. x.item[s[i]].data = e
        BY <1>7, <2>1, <3>2
      <4>2. KeyAt(x, s[i]) # k
        BY <1>8, <3>2
      <4> QED
        BY <4>1, <4>2 DEF Holds, KeyAt
    <3> QED
      BY <3>1, <3>2
  <2>2. e = n => Holds(y, s, e)
    BY <1>7 DEF Holds
  <2>3. ASSUME e.key # k, NEW i \in 1 .. Len(s), x.item[s[i]].data = e PROVE Holds(y, s, e)
    <3>1. i # p
      BY <2>3 DEF KeyAt
    <3> QED
      BY <1>7, <2>3, <3>1 DEF Holds
  <2> QED
    BY <2>1, <2>2, <2>3 DEF Holds
<1>12. Stored(x, s, y, s, k, d)
  BY <1>11 DEF Stored, n
<1> QED
  BY <1>5, <1>6, <1>10, <1>12 DEF BucketOk

LEMMA BucketRemove ==
    ASSUME NEW x \in Memory, NEW s \in Seq(Addr), Distinct(s), Used(x, s),
           NEW c, BucketOk(x, s, c), NEW p \in 1 .. Len(s), NEW k, KeyAt(x, s[p]) = k,
           NEW y, y = list_delinkitem(x, s[p]), NEW t, t = RemoveAt(s, p)
    PROVE  /\ Change(x, y, s, t) /\ BucketOk(y, t, c)
           /\ HeadOf(t) = DelinkedHead(x, HeadOf(s), s[p]) /\ Dropped(x, s, y, t, k)
<1>1. /\ Change(x, y, s, t) /\ Removed(t, s, p)
      /\ Linked(y, t) /\ Backed(y, t) /\ HeadOf(t) = DelinkedHead(x, HeadOf(s), s[p])
      /\ \A b \in Addr \ {s[p]} : SameData(x, y, b)
  BY DelinkKeeps DEF BucketOk
<1> DEFINE at(j) == AtRemove(p, j)
           L == Len(s) - 1
<1>2. /\ Len(t) = L /\ Len(s) \in Nat
      /\ \A j \in 1 .. L : at(j) \in 1 .. Len(s) /\ at(j) # p /\ t[j] = s[at(j)]
      /\ \A i, j \in 1 .. L : at(i) = at(j) => i = j
      /\ \A i \in 1 .. Len(s) : i # p => \E j \in 1 .. L : at(j) = i
  <2>1. Len(s) \in Nat /\ Len(t) = L
    BY <1>1, LenProperties DEF Removed
  <2>2. \A j \in 1 .. L : at(j) \in 1 .. Len(s) /\ at(j) # p /\ t[j] = s[at(j)]
    BY <1>1, <2>1 DEF Removed, AtRemove
  <2>3. \A i, j \in 1 .. L : at(i) = at(j) => i = j
    BY <2>1 DEF AtRemove
  <2>4. ASSUME NEW i \in 1 .. Len(s), i # p PROVE \E j \in 1 .. L : at(j) = i
    <3> DEFINE j == IF i < p THEN i ELSE i - 1
    <3>1. j \in 1 .. L /\ at(j) = i
      BY <2>1, <2>4 DEF AtRemove
    <3> QED
      BY <3>1
  <2> QED
    BY <2>1, <2>2, <2>3, <2>4
<1> HIDE DEF at, L
<1>3. \A j \in 1 .. L : y.item[t[j]].data = x.item[s[at(j)]].data
  <2> SUFFICES ASSUME NEW j \in 1 .. L PROVE y.item[t[j]].data = x.item[s[at(j)]].data
    OBVIOUS
  <2>1. at(j) \in 1 .. Len(s) /\ at(j) # p /\ t[j] = s[at(j)]
    BY <1>2
  <2>2. s[at(j)] \in Addr \ {s[p]}
    BY <2>1, ElementOfSeq DEF Distinct
  <2> QED
    BY <1>1, <2>1, <2>2 DEF SameData
<1>4. /\ \A i \in 1 .. Len(s) : x.item[s[i]].data \in Entries /\ HASHFN(KeyAt(x, s[i])) = c
      /\ \A i, j \in 1 .. Len(s) : KeyAt(x, s[i]) = KeyAt(x, s[j]) => i = j
  BY DEF BucketOk, Keyed
<1>5. \A j \in 1 .. L : KeyAt(y, t[j]) = KeyAt(x, s[at(j)])
  BY <1>3 DEF KeyAt
<1>6. Keyed(y, t, c)
  <2>1. ASSUME NEW j \in 1 .. L
        PROVE  y.item[t[j]].data \in Entries /\ HASHFN(KeyAt(y, t[j])) = c
    <3> DEFINE i == at(j)
    <3>1. i \in 1 .. Len(s)
      BY <1>2
    <3>2. y.item[t[j]].data = x.item[s[i]].data /\ KeyAt(y, t[j]) = KeyAt(x, s[i])
      BY <1>3, <1>5
    <3> HIDE DEF i
    <3>3. x.item[s[i]].data \in Entries /\ HASHFN(KeyAt(x, s[i])) = c
      BY <1>4, <3>1
    <3>4. y.item[t[j]].data \in Entries
      BY <3>2, <3>3
    <3>5. HASHFN(KeyAt(y, t[j])) = c
      BY <3>2, <3>3
    <3> QED
      BY <3>4, <3>5
  <2>2. ASSUME NEW i \in 1 .. L, NEW j \in 1 .. L, KeyAt(y, t[i]) = KeyAt(y, t[j]) PROVE i = j
    <3>1. at(i) = at(j)
      <4>1. at(i) \in 1 .. Len(s) /\ at(j) \in 1 .. Len(s)
        BY <1>2
      <4>2. KeyAt(x, s[at(i)]) = KeyAt(x, s[at(j)])
        BY <1>5, <2>2
      <4> QED
        BY <1>4, <4>1, <4>2
    <3> QED
      BY <1>2, <3>1
  <2> QED
    BY <1>2, <2>1, <2>2 DEF Keyed
<1>7. ASSUME NEW e \in Entries PROVE Holds(y, t, e) <=> e.key # k /\ Holds(x, s, e)
  <2>1. ASSUME NEW j \in 1 .. L, y.item[t[j]].data = e PROVE e.key # k /\ Holds(x, s, e)
    <3>1. x.item[s[at(j)]].data = e /\ at(j) \in 1 .. Len(s) /\ at(j) # p
      BY <1>2, <1>3, <2>1
    <3>2. KeyAt(x, s[at(j)]) # k
      BY <1>4, <3>1
    <3> QED
      BY <3>1, <3>2 DEF Holds, KeyAt
  <2>2. ASSUME e.key # k, NEW i \in 1 .. Len(s), x.item[s[i]].data = e PROVE Holds(y, t, e)
    <3>1. i # p
      BY <2>2 DEF KeyAt
    <3>2. PICK j \in 1 .. L : at(j) = i
      BY <1>2, <3>1
    <3> QED
      BY <1>2, <1>3, <2>2, <3>2 DEF Holds
  <2>3. Holds(y, t, e) => \E j \in 1 .. L : y.item[t[j]].data = e
    BY <1>2 DEF Holds
  <2>4. Holds(x, s, e) => \E i \in 1 .. Len(s) : x.item[s[i]].data = e
    BY DEF Holds
  <2> QED
    BY <2>1, <2>2, <2>3, <2>4
<1>8. Dropped(x, s, y, t, k)
  BY <1>7 DEF Dropped
<1> QED
  BY <1>1, <1>6, <1>8 DEF BucketOk

-----------------------------------------------------------------------------
(* The inductive invariant: for some family K of sequences of items,         *)
(* pairwise disjoint and none of them free, each container is what its       *)
(* sequence says.                                                            *)

ShapeOf(K, x, tb, hd, b, q, z) ==
    /\ Family(x, K, b) /\ b \in BOOLEAN
    /\ tb = [i \in Buckets |-> HeadOf(K[i])]
    /\ hd = HeadOf(K[LIST])
    /\ q \in Seq(QItem) /\ K[HEAP] = Ats(q) /\ Ordered(q)
    /\ z \in Nat /\ Len(q) < z
Shape(K) == ShapeOf(K, m, table, head, building, queue, size)
Inv == \E K : Shape(K)

\* A step changes the sequence of container c to t.
Moved(K, c, t) ==
    \E L : Shape(L)' /\ Becomes(K, L, c, t) /\ Rest(m, m', K, c)

LEMMA FamilyIs ==
    ASSUME NEW x, NEW K, NEW b, Family(x, K, b), NEW c \in Ids
    PROVE  x \in Memory /\ K[c] \in Seq(Addr) /\ Distinct(K[c]) /\ Used(x, K[c]) /\ Ok(x, K[c], c, b)
BY DEF Family

LEMMA ShapeIs ==
    ASSUME NEW K, Shape(K)
    PROVE  /\ m \in Memory
           /\ \A i \in Buckets : /\ K[i] \in Seq(Addr) /\ Distinct(K[i]) /\ Used(m, K[i])
                                 /\ BucketOk(m, K[i], i) /\ table[i] = HeadOf(K[i])
           /\ K[LIST] \in Seq(Addr) /\ Distinct(K[LIST]) /\ Used(m, K[LIST])
           /\ ListOk(m, K[LIST], building) /\ head = HeadOf(K[LIST])
           /\ K[RING] \in Seq(Addr) /\ Distinct(K[RING]) /\ Used(m, K[RING])
           /\ RingOk(m, K[RING])
           /\ K[HEAP] \in Seq(Addr) /\ Distinct(K[HEAP]) /\ Used(m, K[HEAP])
           /\ queue \in Seq(QItem) /\ K[HEAP] = Ats(queue) /\ Ordered(queue)
           /\ size \in Nat /\ Len(queue) < size
<1>1. Family(m, K, building)
  BY DEF Shape, ShapeOf
<1>2. ASSUME NEW i \in Buckets
      PROVE  /\ K[i] \in Seq(Addr) /\ Distinct(K[i]) /\ Used(m, K[i])
             /\ BucketOk(m, K[i], i) /\ table[i] = HeadOf(K[i])
  <2>1. i \in Ids
    BY IdsAre
  <2>2. K[i] \in Seq(Addr) /\ Distinct(K[i]) /\ Used(m, K[i]) /\ Ok(m, K[i], i, building)
    BY <1>1, <2>1, FamilyIs
  <2>3. table[i] = HeadOf(K[i])
    BY DEF Shape, ShapeOf
  <2> QED
    BY <2>2, <2>3 DEF Ok
<1>3. /\ m \in Memory
      /\ K[LIST] \in Seq(Addr) /\ Distinct(K[LIST]) /\ Used(m, K[LIST]) /\ Ok(m, K[LIST], LIST, building)
  BY <1>1, IdsAre, FamilyIs
<1>4. K[RING] \in Seq(Addr) /\ Distinct(K[RING]) /\ Used(m, K[RING]) /\ Ok(m, K[RING], RING, building)
  BY <1>1, IdsAre, FamilyIs
<1>5. K[HEAP] \in Seq(Addr) /\ Distinct(K[HEAP]) /\ Used(m, K[HEAP])
  BY <1>1, IdsAre, FamilyIs
<1>6. ListOk(m, K[LIST], building) /\ RingOk(m, K[RING])
  BY <1>3, <1>4 DEF Ok
<1>7. /\ head = HeadOf(K[LIST])
      /\ queue \in Seq(QItem) /\ K[HEAP] = Ats(queue) /\ Ordered(queue)
      /\ size \in Nat /\ Len(queue) < size
  BY DEF Shape, ShapeOf
<1> QED
  BY <1>2, <1>3, <1>4, <1>5, <1>6, <1>7

LEMMA BucketStep ==
    ASSUME NEW K, Shape(K), NEW c \in Buckets, NEW t, Change(m, m', K[c], t),
           BucketOk(m', t, c), table' = [table EXCEPT ![c] = HeadOf(t)],
           UNCHANGED <<listVars, queueVars>>
    PROVE  Moved(K, c, t)
<1>1. c \in Ids /\ c # LIST /\ c # RING /\ c # HEAP
  BY IdsAre
<1>2. Ok(m', t, c, building)
  BY <1>1 DEF Ok
<1>3. Family(m, K, building)
  BY DEF Shape, ShapeOf
<1>4. PICK L : Becomes(K, L, c, t) /\ Family(m', L, building)
  BY <1>1, <1>2, <1>3, FamilyStep
<1>5. Rest(m, m', K, c)
  BY <1>1, <1>2, <1>3, FamilyStep
<1>6. L[c] = t /\ L[LIST] = K[LIST] /\ L[HEAP] = K[HEAP] /\ \A i \in Buckets \ {c} : L[i] = K[i]
  BY <1>1, <1>4, IdsAre DEF Becomes
<1>7. table' = [i \in Buckets |-> HeadOf(L[i])]
  <2>1. table = [i \in Buckets |-> HeadOf(K[i])]
    BY DEF Shape, ShapeOf
  <2> QED
    BY <1>6, <2>1
<1>8. ShapeOf(L, m', table', head', building', queue', size')
  BY <1>4, <1>6, <1>7 DEF Shape, ShapeOf, listVars, queueVars
<1>9. Shape(L)'
  BY <1>8 DEF Shape
<1> QED
  BY <1>4, <1>5, <1>9 DEF Moved

LEMMA ListStep ==
    ASSUME NEW K, Shape(K), NEW t, Change(m, m', K[LIST], t),
           ListOk(m', t, building'), building' \in BOOLEAN, head' = HeadOf(t),
           UNCHANGED <<table, queueVars>>
    PROVE  Moved(K, LIST, t)
<1>2. Ok(m', t, LIST, building')
  BY IdsAre DEF Ok
<1>3. Family(m, K, building)
  BY DEF Shape, ShapeOf
<1>4. PICK L : Becomes(K, L, LIST, t) /\ Family(m', L, building')
  BY <1>2, <1>3, IdsAre, FamilyStep
<1>5. Rest(m, m', K, LIST)
  BY <1>2, <1>3, IdsAre, FamilyStep
<1>6. L[LIST] = t /\ L[HEAP] = K[HEAP] /\ \A i \in Buckets : L[i] = K[i]
  BY <1>4, IdsAre DEF Becomes
<1>7. table' = [i \in Buckets |-> HeadOf(L[i])]
  BY <1>6 DEF Shape, ShapeOf
<1>8. ShapeOf(L, m', table', head', building', queue', size')
  BY <1>4, <1>6, <1>7 DEF Shape, ShapeOf, queueVars
<1>9. Shape(L)'
  BY <1>8 DEF Shape
<1> QED
  BY <1>4, <1>5, <1>9 DEF Moved

LEMMA RingStep ==
    ASSUME NEW K, Shape(K), NEW t, Change(m, m', K[RING], t), RingOk(m', t),
           UNCHANGED <<table, listVars, queueVars>>
    PROVE  Moved(K, RING, t)
<1>2. Ok(m', t, RING, building)
  BY IdsAre DEF Ok
<1>3. Family(m, K, building)
  BY DEF Shape, ShapeOf
<1>4. PICK L : Becomes(K, L, RING, t) /\ Family(m', L, building)
  BY <1>2, <1>3, IdsAre, FamilyStep
<1>5. Rest(m, m', K, RING)
  BY <1>2, <1>3, IdsAre, FamilyStep
<1>6. L[LIST] = K[LIST] /\ L[HEAP] = K[HEAP] /\ \A i \in Buckets : L[i] = K[i]
  BY <1>4, IdsAre DEF Becomes
<1>7. table' = [i \in Buckets |-> HeadOf(L[i])]
  BY <1>6 DEF Shape, ShapeOf
<1>8. ShapeOf(L, m', table', head', building', queue', size')
  BY <1>4, <1>6, <1>7 DEF Shape, ShapeOf, listVars, queueVars
<1>9. Shape(L)'
  BY <1>8 DEF Shape
<1> QED
  BY <1>4, <1>5, <1>9 DEF Moved

LEMMA QueueStep ==
    ASSUME NEW K, Shape(K), NEW t, Change(m, m', K[HEAP], t), t = Ats(queue'),
           queue' \in Seq(QItem), Ordered(queue'), size' \in Nat, Len(queue') < size',
           UNCHANGED <<table, listVars>>
    PROVE  Moved(K, HEAP, t)
<1>2. Ok(m', t, HEAP, building)
  BY IdsAre DEF Ok
<1>3. Family(m, K, building)
  BY DEF Shape, ShapeOf
<1>4. PICK L : Becomes(K, L, HEAP, t) /\ Family(m', L, building)
  BY <1>2, <1>3, IdsAre, FamilyStep
<1>5. Rest(m, m', K, HEAP)
  BY <1>2, <1>3, IdsAre, FamilyStep
<1>6. L[LIST] = K[LIST] /\ L[HEAP] = t /\ \A i \in Buckets : L[i] = K[i]
  BY <1>4, IdsAre DEF Becomes
<1>7. table' = [i \in Buckets |-> HeadOf(L[i])]
  BY <1>6 DEF Shape, ShapeOf
<1>8. ShapeOf(L, m', table', head', building', queue', size')
  BY <1>4, <1>6, <1>7 DEF Shape, ShapeOf, listVars
<1>9. Shape(L)'
  BY <1>8 DEF Shape
<1> QED
  BY <1>4, <1>5, <1>9 DEF Moved

-----------------------------------------------------------------------------
(* What each operation does to the family *)

LEMMA BucketIs ==
    ASSUME NEW K, Shape(K), NEW k \in Keys, NEW c, c = HASHFN(k)
    PROVE  c \in Buckets /\ Bucket(k) = K[c] /\ table[c] = HeadOf(K[c])
<1>1. c \in Buckets
  BY IdsAre
<1>2. K[c] \in Seq(Addr) /\ Distinct(K[c]) /\ BucketOk(m, K[c], c) /\ table[c] = HeadOf(K[c])
  BY <1>1, ShapeIs
<1>3. Chain(m, HeadOf(K[c]), "prev", Null) = K[c]
  BY <1>2, ListChain DEF BucketOk
<1> QED
  BY <1>1, <1>2, <1>3 DEF Bucket

LEMMA HashInsertIs ==
    ASSUME NEW K, Shape(K), NEW k \in Keys, NEW d \in Data, HashInsert(k, d), NEW c, c = HASHFN(k)
    PROVE  ret' = Null /\ \E t : Moved(K, c, t) /\ Stored(m, K[c], m', t, k, d)
<1> DEFINE s == K[c]
<1>1. c \in Buckets /\ Bucket(k) = s /\ table[c] = HeadOf(s)
  BY BucketIs
<1>2. m \in Memory /\ s \in Seq(Addr) /\ Distinct(s) /\ Used(m, s) /\ BucketOk(m, s, c)
  BY <1>1, ShapeIs
<1> HIDE DEF s
<1>3. \/ Found(k) = Null /\ Miss(m, s, k)
      \/ \E p \in 1 .. Len(s) : Found(k) = s[p] /\ Found(k) # Null /\ Hit(m, s, k, p)
  BY <1>1, <1>2, FoundIs
<1>4. ret' = Null /\ UNCHANGED <<listVars, queueVars>>
  BY DEF HashInsert
<1>5. CASE Found(k) = Null /\ Miss(m, s, k)
  <2>1. PICK a \in m.free : /\ m' = list_add(m, table[HASHFN(k)], a, Entry(k, d))
                            /\ table' = [table EXCEPT ![HASHFN(k)] = a]
    BY <1>5 DEF HashInsert
  <2> DEFINE t == InsertAt(s, 1, a)
  <2>2. m' = list_add(m, HeadOf(s), a, Entry(k, d)) /\ table' = [table EXCEPT ![c] = a]
    BY <1>1, <2>1
  <2>3. t = InsertAt(s, 1, a)
    OBVIOUS
  <2> HIDE DEF t
  <2>4. /\ Change(m, m', s, t) /\ BucketOk(m', t, c) /\ HeadOf(t) = a
        /\ Stored(m, s, m', t, k, d)
    BY <1>2, <1>5, <2>2, <2>3, BucketAdd
  <2>5. Moved(K, c, t)
    <3>1. table' = [table EXCEPT ![c] = HeadOf(t)] /\ Change(m, m', K[c], t)
      BY <2>2, <2>4 DEF s
    <3> QED
      BY <1>1, <1>4, <2>4, <3>1, BucketStep
  <2> QED
    BY <1>4, <2>4, <2>5 DEF s
<1>6. CASE \E p \in 1 .. Len(s) : Found(k) = s[p] /\ Found(k) # Null /\ Hit(m, s, k, p)
  <2>1. PICK p \in 1 .. Len(s) : Found(k) = s[p] /\ Found(k) # Null /\ Hit(m, s, k, p)
    BY <1>6
  <2>2. m' = Set(m, s[p], "data", Entry(k, d)) /\ table' = table
    BY <2>1 DEF HashInsert
  <2>3. KeyAt(m, s[p]) = k
    BY <2>1 DEF Hit
  <2>4. Change(m, m', s, s) /\ BucketOk(m', s, c) /\ Stored(m, s, m', s, k, d)
    BY <1>2, <2>2, <2>3, BucketSet
  <2>5. Moved(K, c, s)
    <3>1. table' = [table EXCEPT ![c] = HeadOf(s)]
      BY <1>1, <2>2 DEF Shape, ShapeOf
    <3>2. Change(m, m', K[c], s)
      BY <2>4 DEF s
    <3> QED
      BY <1>1, <1>4, <2>4, <3>1, <3>2, BucketStep
  <2> QED
    BY <1>4, <2>4, <2>5 DEF s
<1> QED
  BY <1>3, <1>5, <1>6

\* What a lookup or a removal gives
Given(x, s, k, r) ==
    \/ r = Null /\ Miss(x, s, k)
    \/ \E p \in 1 .. Len(s) : Hit(x, s, k, p) /\ r = x.item[s[p]].data.data

LEMMA HashRemoveIs ==
    ASSUME NEW K, Shape(K), NEW k \in Keys, HashRemove(k), NEW c, c = HASHFN(k)
    PROVE  Given(m, K[c], k, ret') /\ \E t : Moved(K, c, t) /\ Dropped(m, K[c], m', t, k)
<1> DEFINE s == K[c]
<1>1. c \in Buckets /\ Bucket(k) = s /\ table[c] = HeadOf(s)
  BY BucketIs
<1>2. m \in Memory /\ s \in Seq(Addr) /\ Distinct(s) /\ Used(m, s) /\ BucketOk(m, s, c)
  BY <1>1, ShapeIs
<1> HIDE DEF s
<1>3. \/ /\ Miss(m, s, k) /\ m' = m /\ ret' = Null
         /\ table' = [table EXCEPT ![HASHFN(k)] = HeadOf(s)]
      \/ \E p \in 1 .. Len(s) :
           /\ Hit(m, s, k, p)
           /\ m' = list_delinkitem(m, s[p])
           /\ ret' = m.item[s[p]].data.data
           /\ table' = [table EXCEPT ![HASHFN(k)] = DelinkedHead(m, HeadOf(s), s[p])]
  <2>1. table[HASHFN(k)] = HeadOf(s)
    BY <1>1
  <2> QED
    <3>1. Removes(s, k)
      BY <1>2, <2>1, RemoveIs
    <3> QED
      BY <3>1 DEF Removes
<1>4. UNCHANGED <<listVars, queueVars>>
  BY DEF HashRemove
<1>5. CASE /\ Miss(m, s, k) /\ m' = m /\ ret' = Null
           /\ table' = [table EXCEPT ![HASHFN(k)] = HeadOf(s)]
  <2>1. Change(m, m', s, s) /\ BucketOk(m', s, c)
    BY <1>2, <1>5, NoChange
  <2>2. Dropped(m, s, m', s, k)
    BY <1>5 DEF Dropped, Holds, Miss, KeyAt
  <2>3. Moved(K, c, s)
    <3>1. table' = [table EXCEPT ![c] = HeadOf(s)] /\ Change(m, m', K[c], s)
      BY <1>5, <2>1 DEF s
    <3> QED
      BY <1>1, <1>4, <2>1, <3>1, BucketStep
  <2>4. Given(m, s, k, ret')
    BY <1>5 DEF Given
  <2> QED
    BY <2>2, <2>3, <2>4 DEF s
<1>6. ASSUME NEW p \in 1 .. Len(s), Hit(m, s, k, p), m' = list_delinkitem(m, s[p]),
             ret' = m.item[s[p]].data.data,
             table' = [table EXCEPT ![HASHFN(k)] = DelinkedHead(m, HeadOf(s), s[p])]
      PROVE  Given(m, K[c], k, ret') /\ \E t : Moved(K, c, t) /\ Dropped(m, K[c], m', t, k)
  <2> DEFINE t == RemoveAt(s, p)
  <2>1. t = RemoveAt(s, p) /\ KeyAt(m, s[p]) = k
    BY <1>6 DEF Hit
  <2> HIDE DEF t
  <2>2. /\ Change(m, m', s, t) /\ BucketOk(m', t, c)
        /\ HeadOf(t) = DelinkedHead(m, HeadOf(s), s[p]) /\ Dropped(m, s, m', t, k)
    BY <1>2, <1>6, <2>1, BucketRemove
  <2>3. Moved(K, c, t)
    <3>1. table' = [table EXCEPT ![c] = HeadOf(t)] /\ Change(m, m', K[c], t)
      BY <1>6, <2>2 DEF s
    <3> QED
      BY <1>1, <1>4, <2>2, <3>1, BucketStep
  <2>4. Given(m, s, k, ret')
    BY <1>6 DEF Given
  <2> QED
    BY <2>2, <2>3, <2>4 DEF s
<1> QED
  BY <1>3, <1>5, <1>6

LEMMA HashFindIs ==
    ASSUME NEW K, Shape(K), NEW k \in Keys, HashFind(k), NEW c, c = HASHFN(k)
    PROVE  Given(m, K[c], k, ret')
<1> DEFINE s == K[c]
<1>1. c \in Buckets /\ Bucket(k) = s
  BY BucketIs
<1>2. s \in Seq(Addr)
  BY <1>1, ShapeIs
<1> HIDE DEF s
<1>3. \/ Found(k) = Null /\ Miss(m, s, k)
      \/ \E p \in 1 .. Len(s) : Found(k) = s[p] /\ Found(k) # Null /\ Hit(m, s, k, p)
  BY <1>1, <1>2, FoundIs
<1>4. ret' = IF Found(k) = Null THEN Null ELSE m.item[Found(k)].data.data
  BY DEF HashFind
<1>5. Given(m, s, k, ret')
  BY <1>3, <1>4 DEF Given
<1> QED
  BY <1>5 DEF s

\* The list
LEMMA DataIs == \A d \in Data : d \in Contents
BY DEF Contents

LEMMA ListAddIs ==
    ASSUME NEW K, Shape(K), NEW d \in Data, ListAdd(d), NEW s, s = K[LIST]
    PROVE  /\ ret' = Null
           /\ \E t, a : /\ Moved(K, LIST, t) /\ Inserted(t, s, 1, a) /\ m'.item[a].data = d
                        /\ a \in m.free /\ \A b \in Addr \ {a} : SameData(m, m', b)
<1>1. /\ m \in Memory /\ s \in Seq(Addr) /\ Distinct(s) /\ Used(m, s)
      /\ ListOk(m, s, building) /\ head = HeadOf(s)
  BY ShapeIs
<1>2. building /\ ret' = Null /\ building' = building /\ UNCHANGED <<table, queueVars>>
  BY DEF ListAdd
<1>3. PICK a \in m.free : m' = list_add(m, head, a, d) /\ head' = a
  BY DEF ListAdd
<1> DEFINE t == InsertAt(s, 1, a)
<1>4. t = InsertAt(s, 1, a) /\ m' = list_add(m, HeadOf(s), a, d) /\ d \in Contents
  BY <1>1, <1>3, DataIs
<1> HIDE DEF t
<1>5. /\ Change(m, m', s, t) /\ Inserted(t, s, 1, a)
      /\ Linked(m', t) /\ Backed(m', t) /\ HeadOf(t) = a
      /\ m'.item[a].data = d /\ \A b \in Addr \ {a} : SameData(m, m', b)
  BY <1>1, <1>2, <1>4, AddKeeps DEF ListOk
<1>6. ListOk(m', t, building')
  <2> SUFFICES ASSUME NEW j \in 1 .. Len(s) + 1 PROVE m'.item[t[j]].data \in Data
    BY <1>5 DEF ListOk, Inserted
  <2>1. t[j] = IF j = 1 THEN a ELSE s[j - 1]
    BY <1>1, <1>5, LenProperties DEF Inserted
  <2>2. CASE j = 1
    BY <1>5, <2>1, <2>2
  <2>3. CASE j # 1
    <3>1. j - 1 \in 1 .. Len(s) /\ t[j] = s[j - 1]
      BY <1>1, <2>1, <2>3, LenProperties
    <3>2. s[j - 1] \in Addr \ {a}
      BY <1>1, <3>1, ElementOfSeq DEF Used
    <3> QED
      BY <1>1, <1>5, <3>1, <3>2 DEF ListOk, SameData
  <2> QED
    BY <2>2, <2>3
<1>7. Moved(K, LIST, t)
  <2>1. head' = HeadOf(t) /\ Change(m, m', K[LIST], t) /\ building' \in BOOLEAN
    BY <1>2, <1>3, <1>5
  <2> QED
    BY <1>2, <1>6, <2>1, ListStep
<1> QED
  BY <1>2, <1>5, <1>7

LEMMA ListReverseIs ==
    ASSUME NEW K, Shape(K), ListReverse, NEW s, s = K[LIST], NEW t, t = Reverse(s)
    PROVE  ret' = Null /\ Moved(K, LIST, t) /\ \A b \in Addr : SameData(m, m', b)
<1>1. /\ m \in Memory /\ s \in Seq(Addr) /\ Distinct(s) /\ Used(m, s)
      /\ ListOk(m, s, building) /\ head = HeadOf(s)
  BY ShapeIs
<1>2. /\ building /\ ret' = Null /\ UNCHANGED <<table, queueVars>>
      /\ m' = list_reverse(m, HeadOf(s)) /\ head' = ReversedHead(m, HeadOf(s))
      /\ building' = (head = Null)
  BY <1>1 DEF ListReverse
<1>3. /\ Change(m, m', s, t) /\ Linked(m', t) /\ Backed(m', t)
      /\ HeadOf(t) = ReversedHead(m, HeadOf(s)) /\ \A b \in Addr : SameData(m, m', b)
  BY <1>1, <1>2, ReverseKeeps DEF ListOk
<1>4. ListOk(m', t, building')
  <2> SUFFICES ASSUME NEW j \in 1 .. Len(t) PROVE m'.item[t[j]].data \in Data
    BY <1>3 DEF ListOk
  <2>1. Len(s) \in Nat /\ t = [i \in 1 .. Len(s) |-> s[(Len(s) - i) + 1]]
    BY <1>1, LenProperties DEF Reverse
  <2>2. Len(t) = Len(s)
    BY <2>1
  <2>3. (Len(s) - j) + 1 \in 1 .. Len(s) /\ t[j] = s[(Len(s) - j) + 1]
    BY <2>1, <2>2
  <2>4. s[(Len(s) - j) + 1] \in Addr
    BY <1>1, <2>3, ElementOfSeq
  <2> QED
    BY <1>1, <1>3, <2>3, <2>4 DEF ListOk, SameData
<1>5. Moved(K, LIST, t)
  <2>1. head' = HeadOf(t) /\ Change(m, m', K[LIST], t) /\ building' \in BOOLEAN
    BY <1>2, <1>3
  <2> QED
    BY <1>2, <1>4, <2>1, ListStep
<1> QED
  BY <1>2, <1>3, <1>5

LEMMA ListRemoveHeadIs ==
    ASSUME NEW K, Shape(K), ListRemoveHead, NEW s, s = K[LIST]
    PROVE  /\ Len(s) # 0 /\ ret' = m.item[s[1]].data
           /\ \E t : /\ Moved(K, LIST, t) /\ Removed(t, s, 1)
                     /\ \A b \in Addr \ {s[1]} : SameData(m, m', b)
<1>1. /\ m \in Memory /\ s \in Seq(Addr) /\ Distinct(s) /\ Used(m, s)
      /\ ListOk(m, s, building) /\ head = HeadOf(s)
  BY ShapeIs
<1>2. /\ head # Null /\ ret' = m.item[head].data /\ UNCHANGED <<table, queueVars>>
      /\ m' = list_removehead(m, head) /\ head' = Get(m, head, "prev")
      /\ building' = (head' = Null)
  BY DEF ListRemoveHead
<1>3. Len(s) # 0 /\ head = s[1] /\ s[1] \in Addr
  <2>1. Len(s) # 0 /\ Len(s) \in Nat
    BY <1>1, <1>2, LenProperties DEF HeadOf
  <2>2. 1 \in 1 .. Len(s)
    BY <2>1
  <2> QED
    BY <1>1, <2>1, <2>2, ElementOfSeq DEF HeadOf
<1> DEFINE t == RemoveAt(s, 1)
<1>4. t = RemoveAt(s, 1) /\ m' = list_removehead(m, s[1]) /\ head' = m.item[s[1]].prev
  BY <1>2, <1>3 DEF Get
<1> HIDE DEF t
<1>5. /\ Change(m, m', s, t) /\ Removed(t, s, 1)
      /\ Linked(m', t) /\ HeadOf(t) = m.item[s[1]].prev
      /\ \A b \in Addr \ {s[1]} : SameData(m, m', b)
  BY <1>1, <1>3, <1>4, RemoveHeadKeeps DEF ListOk
<1>6. ListOk(m', t, building')
  <2>1. building' => Backed(m', t)
    <3>1. ASSUME Len(t) # 0 PROVE HeadOf(t) # Null
      <4>1. t \in Seq(Addr) /\ 1 \in 1 .. Len(t)
        BY <1>5, <3>1, LenProperties DEF Change
      <4> QED
        BY <3>1, <4>1, ElementOfSeq, AddrAssumption DEF HeadOf
    <3>2. building' => Len(t) = 0
      BY <1>2, <1>4, <1>5, <3>1
    <3>3. Len(t) = 0 => Backed(m', t)
      BY DEF Backed
    <3> QED
      BY <3>2, <3>3
  <2>2. ASSUME NEW j \in 1 .. Len(t) PROVE m'.item[t[j]].data \in Data
    <3>1. j + 1 \in 1 .. Len(s) /\ j + 1 # 1 /\ t[j] = s[j + 1] /\ 1 \in 1 .. Len(s)
      BY <1>1, <1>5, LenProperties DEF Removed
    <3>2. s[j + 1] \in Addr \ {s[1]}
      BY <1>1, <3>1, ElementOfSeq DEF Distinct
    <3> QED
      BY <1>1, <1>5, <3>1, <3>2 DEF ListOk, SameData
  <2> QED
    BY <1>5, <2>1, <2>2 DEF ListOk
<1>7. Moved(K, LIST, t)
  <2>1. head' = HeadOf(t) /\ Change(m, m', K[LIST], t) /\ building' \in BOOLEAN
    BY <1>2, <1>4, <1>5
  <2> QED
    BY <1>2, <1>6, <2>1, ListStep
<1> QED
  BY <1>2, <1>3, <1>5, <1>7

\* The circular list
LEMMA ItemsIs ==
    ASSUME NEW K, Shape(K), NEW s, s = K[RING]
    PROVE  /\ Items = {s[i] : i \in 2 .. Len(s)}
           /\ Items \cup {Sentry} = {s[i] : i \in 1 .. Len(s)}
<1>1. m \in Memory /\ s \in Seq(Addr) /\ Distinct(s) /\ RingOk(m, s)
  BY ShapeIs
<1>2. Len(s) # 0 /\ s[1] = Sentry /\ RingLinked(m, s) /\ Len(s) \in Nat /\ s # << >>
  BY <1>1, LenProperties DEF RingOk
<1>3. Chain(m, Get(m, Sentry, "next"), "next", Sentry) = Tail(s)
  BY <1>1, <1>2, RingChain
<1>4. Len(Tail(s)) = Len(s) - 1 /\ \A j \in 1 .. Len(s) - 1 : Tail(s)[j] = s[j + 1]
  BY <1>1, <1>2, HeadTailProperties
<1>5. Items = {Tail(s)[j] : j \in 1 .. Len(Tail(s))}
  <2>1. Tail(s) \in Seq(Addr)
    BY <1>1, <1>2, HeadTailProperties
  <2>2. DOMAIN Tail(s) = 1 .. Len(Tail(s))
    BY <2>1, LenProperties
  <2>3. Items = ToSet(Tail(s))
    BY <1>3 DEF Items
  <2> QED
    BY <2>2, <2>3 DEF ToSet
<1>6. ASSUME NEW i \in 2 .. Len(s) PROVE s[i] \in Items
  <2>1. i - 1 \in 1 .. Len(s) - 1 /\ Tail(s)[i - 1] = s[i]
    BY <1>2, <1>4
  <2> QED
    BY <1>4, <1>5, <2>1
<1>7. ASSUME NEW j \in 1 .. Len(s) - 1 PROVE j + 1 \in 2 .. Len(s) /\ Tail(s)[j] = s[j + 1]
  BY <1>2, <1>4
<1>8. Items = {s[i] : i \in 2 .. Len(s)}
  BY <1>4, <1>5, <1>6, <1>7
<1>9. 1 .. Len(s) = (2 .. Len(s)) \cup {1}
  BY <1>2
<1> QED
  BY <1>2, <1>8, <1>9

\* The sequence with one item more is a circular list.
LEMMA RingGrows ==
    ASSUME NEW x, NEW y, NEW s \in Seq(Addr), RingOk(x, s), Used(x, s),
           NEW p \in 2 .. Len(s) + 1, NEW a \in x.free, NEW d \in Data,
           NEW t, Inserted(t, s, p, a), RingLinked(y, t), y.item[a].data = d,
           \A b \in Addr \ {a} : SameData(x, y, b)
    PROVE  RingOk(y, t)
<1>1. Len(s) \in Nat /\ Len(t) = Len(s) + 1
  BY LenProperties DEF Inserted
<1>2. t[1] = Sentry
  BY <1>1 DEF Inserted, RingOk
<1>3. ASSUME NEW i \in 2 .. Len(s) + 1 PROVE y.item[t[i]].data \in Data
  <2>1. CASE i = p
    BY <2>1 DEF Inserted
  <2>2. CASE i # p
    <3>1. PICK j \in 2 .. Len(s) : t[i] = s[j]
      <4>1. CASE i < p
        <5>1. i \in 2 .. Len(s) /\ t[i] = s[i]
          BY <1>1, <4>1 DEF Inserted
        <5> QED
          BY <5>1
      <4>2. CASE ~ (i < p)
        <5>1. i - 1 \in 2 .. Len(s) /\ t[i] = s[i - 1]
          BY <1>1, <2>2, <4>2 DEF Inserted
        <5> QED
          BY <5>1
      <4> QED
        BY <4>1, <4>2
    <3>2. j \in 1 .. Len(s)
      OBVIOUS
    <3>3. s[j] \in Addr \ {a} /\ x.item[s[j]].data \in Data
      BY <3>2, ElementOfSeq DEF Used, RingOk
    <3> QED
      BY <3>1, <3>3 DEF SameData
  <2> QED
    BY <2>1, <2>2
<1> QED
  BY <1>1, <1>2, <1>3 DEF RingOk

\* The sequence with one item less is one.
LEMMA RingShrinks ==
    ASSUME NEW x, NEW y, NEW s \in Seq(Addr), RingOk(x, s), Distinct(s),
           NEW p \in 2 .. Len(s), NEW t, Removed(t, s, p), RingLinked(y, t),
           \A b \in Addr \ {s[p]} : SameData(x, y, b)
    PROVE  RingOk(y, t)
<1>1. Len(s) \in Nat /\ Len(t) = Len(s) - 1
  BY LenProperties DEF Removed
<1>2. t[1] = Sentry
  BY <1>1 DEF Removed, RingOk
<1>3. ASSUME NEW i \in 2 .. Len(s) - 1 PROVE y.item[t[i]].data \in Data
  <2>1. PICK j \in 2 .. Len(s) : t[i] = s[j] /\ j # p
    <3>1. CASE i < p
      <4>1. i \in 2 .. Len(s) /\ t[i] = s[i] /\ i # p
        BY <1>1, <3>1 DEF Removed
      <4> QED
        BY <4>1
    <3>2. CASE ~ (i < p)
      <4>1. i + 1 \in 2 .. Len(s) /\ t[i] = s[i + 1] /\ i + 1 # p
        BY <1>1, <3>2 DEF Removed
      <4> QED
        BY <4>1
    <3> QED
      BY <3>1, <3>2
  <2>2. j \in 1 .. Len(s) /\ p \in 1 .. Len(s)
    OBVIOUS
  <2>3. s[j] \in Addr \ {s[p]} /\ x.item[s[j]].data \in Data
    BY <2>1, <2>2, ElementOfSeq DEF Distinct, RingOk
  <2> QED
    BY <2>1, <2>3 DEF SameData
<1> QED
  BY <1>1, <1>2, <1>3 DEF RingOk

LEMMA ClistInsertIs ==
    ASSUME NEW K, Shape(K), NEW s, s = K[RING], UNCHANGED <<table, listVars, queueVars>>,
           NEW at \in Items \cup {Sentry}, NEW a \in m.free, NEW d \in Data,
           m' \in {clist_append(m, at, a, d), clist_prepend(m, at, a, d)}
    PROVE  \E p \in 2 .. Len(s) + 1 : \E t :
             /\ Moved(K, RING, t) /\ Inserted(t, s, p, a) /\ m'.item[a].data = d
             /\ \A b \in Addr \ {a} : SameData(m, m', b)
<1>1. m \in Memory /\ s \in Seq(Addr) /\ Distinct(s) /\ Used(m, s) /\ RingOk(m, s)
  BY ShapeIs
<1>2. Len(s) \in Nat /\ RingLinked(m, s) /\ Len(s) # 0
  BY <1>1, LenProperties DEF RingOk
<1>3. PICK q \in 1 .. Len(s) : at = s[q]
  BY ItemsIs
<1>4. PICK p \in 2 .. Len(s) + 1 :
           m' = clist_append(m, After(s, p - 1), a, d) \/ m' = clist_prepend(m, s[p - 1], a, d)
  <2>1. CASE m' = clist_prepend(m, at, a, d)
    <3>1. q + 1 \in 2 .. Len(s) + 1 /\ (q + 1) - 1 = q
      BY <1>2
    <3> QED
      BY <1>3, <2>1, <3>1
  <2>2. CASE m' = clist_append(m, at, a, d)
    <3> DEFINE p == IF q = 1 THEN Len(s) + 1 ELSE q
    <3>1. p \in 2 .. Len(s) + 1 /\ After(s, p - 1) = s[q]
      BY <1>2 DEF After
    <3> QED
      BY <1>3, <2>2, <3>1
  <2> QED
    BY <2>1, <2>2
<1> DEFINE t == InsertAt(s, p, a)
<1>5. Spliced(m', m, s, p, a, d) /\ t = InsertAt(s, p, a) /\ d \in Contents
  BY <1>4, DataIs DEF Spliced
<1> HIDE DEF t
<1>6. /\ Change(m, m', s, t) /\ Inserted(t, s, p, a) /\ RingLinked(m', t)
      /\ m'.item[a].data = d /\ \A b \in Addr \ {a} : SameData(m, m', b)
  BY <1>1, <1>2, <1>5, RingInsertKeeps
<1>7. RingOk(m', t)
  BY <1>1, <1>6, RingGrows
<1>8. Moved(K, RING, t)
  BY <1>6, <1>7, RingStep
<1> QED
  BY <1>6, <1>8

LEMMA ClistDelinkItemIs ==
    ASSUME NEW K, Shape(K), NEW s, s = K[RING], UNCHANGED <<table, listVars, queueVars>>,
           NEW a \in Items, m' = clist_delinkitem(m, a)
    PROVE  \E p \in 2 .. Len(s) : \E t :
             /\ Moved(K, RING, t) /\ Removed(t, s, p)
             /\ \A b \in Addr \ {s[p]} : SameData(m, m', b)
<1>1. m \in Memory /\ s \in Seq(Addr) /\ Distinct(s) /\ Used(m, s) /\ RingOk(m, s)
  BY ShapeIs
<1>2. RingLinked(m, s)
  BY <1>1 DEF RingOk
<1>3. PICK p \in 2 .. Len(s) : a = s[p]
  BY ItemsIs
<1> DEFINE t == RemoveAt(s, p)
<1>4. t = RemoveAt(s, p) /\ m' = clist_delinkitem(m, s[p])
  BY <1>3
<1> HIDE DEF t
<1>5. /\ Change(m, m', s, t) /\ Removed(t, s, p) /\ RingLinked(m', t)
      /\ \A b \in Addr \ {s[p]} : SameData(m, m', b)
  BY <1>1, <1>2, <1>4, RingRemoveKeeps
<1>6. RingOk(m', t)
  BY <1>1, <1>5, RingShrinks
<1>7. Moved(K, RING, t)
  BY <1>5, <1>6, RingStep
<1> QED
  BY <1>5, <1>7

LEMMA ClistMoveItemIs ==
    ASSUME NEW K, Shape(K), NEW s, s = K[RING], UNCHANGED <<table, listVars, queueVars>>,
           NEW to \in Items \cup {Sentry}, NEW from \in Items, to # from,
           m' = clist_moveitem(m, to, from)
    PROVE  \E p \in 2 .. Len(s), j \in 2 .. Len(s) : \E u, t :
             /\ Moved(K, RING, t) /\ u \in Seq(Addr)
             /\ Removed(u, s, p) /\ Inserted(t, u, j, s[p])
             /\ \A b \in Addr : SameData(m, m', b)
<1>1. m \in Memory /\ s \in Seq(Addr) /\ Distinct(s) /\ Used(m, s) /\ RingOk(m, s)
  BY ShapeIs
<1>2. Len(s) \in Nat /\ RingLinked(m, s) /\ Len(s) # 0
  BY <1>1, LenProperties DEF RingOk
<1>0. /\ Items = {s[i] : i \in 2 .. Len(s)}
      /\ Items \cup {Sentry} = {s[i] : i \in 1 .. Len(s)}
  BY ItemsIs
<1>3. PICK p \in 2 .. Len(s) : from = s[p]
  BY <1>0
<1>4. PICK i \in 1 .. Len(s) : to = s[i]
  BY <1>0
<1> DEFINE u == RemoveAt(s, p)
           q == IF i < p THEN i ELSE i - 1
           t == InsertAt(u, q + 1, s[p])
<1>5. u = RemoveAt(s, p) /\ t = InsertAt(u, q + 1, s[p]) /\ p \in 1 .. Len(s)
  OBVIOUS
<1>6. i # p
  BY <1>3, <1>4
<1>7. q \in 1 .. Len(s) - 1 /\ q = IF i < p THEN i ELSE i - 1
  BY <1>2, <1>6
<1> HIDE DEF u, q, t
<1>8. u \in Seq(Addr) /\ Removed(u, s, p)
  BY <1>1, <1>5, RemoveAtIs
<1>9. u[q] = to
  BY <1>2, <1>4, <1>6, <1>7, <1>8 DEF Removed
<1>10. m' = clist_moveitem(m, u[q], s[p])
  BY <1>3, <1>9
<1>11. /\ Change(m, m', s, t) /\ Inserted(t, u, q + 1, s[p])
       /\ RingLinked(m', t) /\ \A b \in Addr : SameData(m, m', b)
  BY <1>1, <1>2, <1>5, <1>7, <1>10, RingMoveKeeps
<1>12. RingOk(m', t)
  <2>1. Len(u) = Len(s) - 1 /\ Len(t) = Len(s)
    BY <1>2, <1>8, <1>11 DEF Removed, Inserted
  <2>2. t[1] = Sentry
    BY <1>1, <1>2, <1>7, <1>8, <1>11, <2>1 DEF Removed, Inserted, RingOk
  <2>3. ASSUME NEW k \in 2 .. Len(s) PROVE m'.item[t[k]].data \in Data
    <3>1. t[k] = IF k < q + 1 THEN u[k] ELSE IF k = q + 1 THEN s[p] ELSE u[k - 1]
      BY <1>2, <1>11, <2>1 DEF Inserted
    <3>2. PICK n \in 2 .. Len(s) : t[k] = s[n]
      <4>1. CASE k = q + 1
        BY <1>7, <3>1, <4>1
      <4>2. ASSUME NEW n \in 2 .. Len(s) - 1, t[k] = u[n] PROVE \E j \in 2 .. Len(s) : t[k] = s[j]
        <5>1. n \in 2 .. Len(s) /\ n + 1 \in 2 .. Len(s) /\ (u[n] = s[n] \/ u[n] = s[n + 1])
          BY <1>2, <1>8, <4>2 DEF Removed
        <5> QED
          BY <4>2, <5>1
      <4>3. CASE k < q + 1
        <5>1. k \in 2 .. Len(s) - 1 /\ t[k] = u[k]
          BY <1>2, <1>7, <3>1, <4>3
        <5> QED
          BY <4>2, <5>1
      <4>4. CASE k > q + 1
        <5>1. k - 1 \in 2 .. Len(s) - 1 /\ t[k] = u[k - 1]
          BY <1>2, <1>7, <3>1, <4>4
        <5> QED
          BY <4>2, <5>1
      <4> QED
        BY <1>7, <4>1, <4>3, <4>4
    <3>3. n \in 1 .. Len(s)
      OBVIOUS
    <3>4. s[n] \in Addr /\ m.item[s[n]].data \in Data
      BY <1>1, <3>3, ElementOfSeq DEF RingOk
    <3> QED
      BY <1>11, <3>2, <3>4 DEF SameData
  <2> QED
    BY <1>2, <1>11, <2>1, <2>2, <2>3 DEF RingOk
<1>13. Moved(K, RING, t)
  BY <1>11, <1>12, RingStep
<1>14. q + 1 \in 2 .. Len(s)
  BY <1>2, <1>7
<1> QED
  BY <1>8, <1>11, <1>13, <1>14

-----------------------------------------------------------------------------
(* The priority queue *)

LEMMA QueuePutIs ==
    ASSUME NEW K, Shape(K), NEW k \in Keys, PqueueInsert(k)
    PROVE  /\ ret' = Null /\ Moved(K, HEAP, Ats(queue'))
           /\ \E a, r : Appended(r, queue, [key |-> k, at |-> a]) /\ Perm(queue', r)
<1>1. /\ m \in Memory /\ K[HEAP] \in Seq(Addr) /\ Distinct(K[HEAP]) /\ Used(m, K[HEAP])
      /\ queue \in Seq(QItem) /\ K[HEAP] = Ats(queue) /\ Ordered(queue)
      /\ size \in Nat /\ Len(queue) < size
  BY ShapeIs
<1>2. Len(queue) \in Nat
  BY <1>1, LenProperties
<1>3. PICK a \in m.free :
        /\ m' = [New(m, a, Blank) EXCEPT !.bad = @ \/ Len(queue) + 1 > size']
        /\ queue' = pqueue_insert(queue, [key |-> k, at |-> a])
  BY DEF PqueueInsert
<1>4. size' \in Nat /\ Len(queue) + 1 < size'
  BY <1>1, <1>2 DEF PqueueInsert, Grown
<1>5. a \in Addr
  BY <1>1 DEF Memory
<1> DEFINE it == [key |-> k, at |-> a]
           r == Append(queue, it)
           z == New(m, a, Blank)
           s == K[HEAP]
           t == Ats(queue')
           q == queue'
<1>6. it \in QItem /\ it = [key |-> k, at |-> a]
  BY <1>5 DEF QItem
<1>7. r = Append(queue, it) /\ q = pqueue_insert(queue, it) /\ z = New(m, a, Blank)
      /\ s = Ats(queue) /\ t = Ats(q)
  BY <1>1, <1>3
<1>8. s \in Seq(Addr) /\ Distinct(s) /\ Used(m, s)
  BY <1>1
<1> HIDE DEF it, r, z, s, t, q
<1>9. m' = z
  <2>1. z \in Memory /\ z.bad = FALSE
    <3>1. z \in Memory
      BY <1>1, <1>5, <1>7, BlankCell, NewIs
    <3> QED
      BY <3>1 DEF Memory
  <2>2. ~ (Len(queue) + 1 > size')
    BY <1>2, <1>4
  <2>3. m' = [z EXCEPT !.bad = FALSE]
    BY <1>3, <2>1, <2>2 DEF z
  <2> QED
    BY <2>1, <2>3 DEF Memory
<1>10. Appended(r, queue, it)
  BY <1>1, <1>6, <1>7, AppendIs
<1>11. Perm(q, r) /\ Ordered(q)
  BY <1>1, <1>6, <1>7, PqueueInsertIs
<1>12. Change(m, z, s, t)
  BY <1>1, <1>6, <1>7, <1>8, <1>10, <1>11, QueueInsertKeeps
<1>13. q \in Seq(QItem) /\ Len(q) < size'
  <2>1. q \in Seq(QItem) /\ Len(q) = Len(queue) + 1
    BY <1>10, <1>11 DEF Perm, Appended
  <2> QED
    BY <1>4, <2>1
<1>14. Moved(K, HEAP, t)
  <2>1. UNCHANGED <<table, listVars>> /\ ret' = Null
    BY DEF PqueueInsert
  <2>2. Change(m, m', K[HEAP], t)
    BY <1>9, <1>12 DEF s
  <2>3. /\ t = Ats(queue') /\ queue' \in Seq(QItem) /\ Ordered(queue')
        /\ size' \in Nat /\ Len(queue') < size'
    BY <1>4, <1>7, <1>11, <1>13 DEF q
  <2> QED
    BY <2>1, <2>2, <2>3, QueueStep
<1>15. ret' = Null
  BY DEF PqueueInsert
<1> QED
  BY <1>6, <1>10, <1>11, <1>14, <1>15 DEF t, q

LEMMA QueueTakeIs ==
    ASSUME NEW K, Shape(K), PqueueExtract
    PROVE  /\ Len(queue) # 0 /\ ret' = queue[1].key /\ Moved(K, HEAP, Ats(queue'))
           /\ \E r : Beheaded(r, queue) /\ Perm(queue', r)
<1>1. /\ m \in Memory /\ K[HEAP] \in Seq(Addr) /\ Distinct(K[HEAP]) /\ Used(m, K[HEAP])
      /\ queue \in Seq(QItem) /\ K[HEAP] = Ats(queue) /\ Ordered(queue)
      /\ size \in Nat /\ Len(queue) < size
  BY ShapeIs
<1>2. /\ queue # << >> /\ ret' = queue[1].key /\ m' = Delete(m, queue[1].at)
      /\ queue' = pqueue_extract(queue) /\ UNCHANGED <<size, table, listVars>>
  BY DEF PqueueExtract
<1>3. Len(queue) \in Nat /\ Len(queue) # 0
  BY <1>1, <1>2, LenProperties, EmptySeq
<1> DEFINE a == queue[1].at
           s == K[HEAP]
           t == Ats(queue')
           q == queue'
<1>4. q = pqueue_extract(queue) /\ a = queue[1].at /\ m' = Delete(m, a)
      /\ s = Ats(queue) /\ t = Ats(q)
  BY <1>1, <1>2
<1>5. s \in Seq(Addr) /\ Distinct(s) /\ Used(m, s)
  BY <1>1
<1> HIDE DEF a, s, t, q
<1>6. Ordered(q)
  BY <1>1, <1>3, <1>4, PqueueExtractIs
<1>7. PICK r : Beheaded(r, queue) /\ Perm(q, r)
  BY <1>1, <1>3, <1>4, PqueueExtractIs
<1>8. Change(m, m', s, t)
  BY <1>1, <1>3, <1>4, <1>5, <1>7, QueueExtractKeeps
<1>9. q \in Seq(QItem) /\ Len(q) < size
  <2>1. q \in Seq(QItem) /\ Len(q) = Len(queue) - 1
    BY <1>7 DEF Perm, Beheaded
  <2> QED
    BY <1>1, <1>3, <2>1
<1>10. Moved(K, HEAP, t)
  <2>1. /\ t = Ats(queue') /\ queue' \in Seq(QItem) /\ Ordered(queue')
        /\ size' \in Nat /\ Len(queue') < size' /\ UNCHANGED <<table, listVars>>
    BY <1>1, <1>2, <1>4, <1>6, <1>9 DEF q
  <2>2. Change(m, m', K[HEAP], t)
    BY <1>8 DEF s
  <2> QED
    BY <2>1, <2>2, QueueStep
<1> QED
  BY <1>2, <1>3, <1>7, <1>10 DEF t, q

-----------------------------------------------------------------------------
(* jt_hash_nuke empties the chains one after another. *)

IsNuke(f, x, tb, N) ==
    f = [i \in 0 .. N |-> IF i = 0 THEN x ELSE list_destroy(f[i - 1], tb[i - 1])]

LEMMA NukeExists ==
    ASSUME NEW x, NEW tb, NEW N \in Nat PROVE \E f : IsNuke(f, x, tb, N)
<1> DEFINE S == {n \in 0 .. N : \E f : IsNuke(f, x, tb, n)}
<1>1. 0 \in S
  <2>1. IsNuke([n \in 0 .. 0 |-> x], x, tb, 0)
    BY DEF IsNuke
  <2> QED
    BY <2>1
<1>2. \A n \in 0 .. N - 1 : n \in S => n + 1 \in S
  <2> SUFFICES ASSUME NEW n \in 0 .. N - 1, NEW f, IsNuke(f, x, tb, n)
               PROVE  \E g : IsNuke(g, x, tb, n + 1)
    OBVIOUS
  <2> DEFINE g == [k \in 0 .. n + 1 |-> IF k = n + 1 THEN list_destroy(f[n], tb[n]) ELSE f[k]]
  <2>1. \A k \in 0 .. n + 1 : g[k] = IF k = 0 THEN x ELSE list_destroy(g[k - 1], tb[k - 1])
    <3> SUFFICES ASSUME NEW k \in 0 .. n + 1
                 PROVE  g[k] = IF k = 0 THEN x ELSE list_destroy(g[k - 1], tb[k - 1])
      OBVIOUS
    <3>1. CASE k = n + 1
      BY <3>1
    <3>2. CASE k # n + 1
      <4>1. k \in 0 .. n /\ (k # 0 => k - 1 \in 0 .. n)
        BY <3>2
      <4>2. f[k] = IF k = 0 THEN x ELSE list_destroy(f[k - 1], tb[k - 1])
        BY <4>1 DEF IsNuke
      <4> QED
        BY <3>2, <4>1, <4>2
    <3> QED
      BY <3>1, <3>2
  <2>2. IsNuke(g, x, tb, n + 1)
    BY <2>1 DEF IsNuke
  <2> QED
    BY <2>2
<1> HIDE DEF S
<1>3. N \in S
  BY <1>1, <1>2, Induct
<1> QED
  BY <1>3 DEF S

\* The first n chains are empty and all else is as it was.
Emptied(K, L, n) == \A d \in Ids : L[d] = IF d < n THEN << >> ELSE K[d]
Spared(x, y, K) == \A d \in Ids \ Buckets : Kept(x, y, K[d])

LEMMA EmptyOk == ASSUME NEW y, NEW c \in Buckets, NEW b PROVE Ok(y, << >>, c, b)
<1>1. Len(<< >>) = 0
  OBVIOUS
<1>2. BucketOk(y, << >>, c)
  BY <1>1 DEF BucketOk, Linked, Backed, Keyed
<1> QED
  BY <1>2, IdsAre DEF Ok

LEMMA NukeStep ==
    ASSUME NEW x, NEW K, NEW n \in Buckets, NEW y, NEW L, NEW b, Family(y, L, b),
           Emptied(K, L, n), Spared(x, y, K), NEW z, z = list_destroy(y, HeadOf(K[n]))
    PROVE  Spared(x, z, K) /\ \E M : Family(z, M, b) /\ Emptied(K, M, n + 1)
<1>1. HashSize \in Nat /\ n \in Ids /\ n \in Nat
  BY IdsAre, SizeAssumption DEF Buckets
<1>2. L[n] = K[n]
  BY <1>1 DEF Emptied
<1> DEFINE s == L[n]
           t == << >>
<1>3. /\ y \in Memory /\ s \in Seq(Addr) /\ Distinct(s) /\ Used(y, s) /\ Ok(y, s, n, b)
      /\ z = list_destroy(y, HeadOf(s))
  BY <1>1, <1>2, FamilyIs
<1>4. Ok(z, t, n, b)
  BY EmptyOk
<1> HIDE DEF s, t
<1>5. Linked(y, s)
  BY <1>3 DEF Ok, BucketOk
<1>6. Change(y, z, s, t)
  BY <1>3, <1>5, DestroyIs DEF t
<1>7. Change(y, z, L[n], t)
  BY <1>6 DEF s
<1>8. PICK M : Becomes(L, M, n, t) /\ Family(z, M, b)
  BY <1>1, <1>4, <1>7, FamilyStep
<1>9. Rest(y, z, L, n)
  BY <1>1, <1>4, <1>7, FamilyStep
<1>10. Emptied(K, M, n + 1)
  <2> SUFFICES ASSUME NEW d \in Ids PROVE M[d] = IF d < n + 1 THEN << >> ELSE K[d]
    BY DEF Emptied
  <2>1. d \in Nat
    BY <1>1 DEF Ids
  <2>2. CASE d = n
    BY <1>1, <1>8, <2>2 DEF Becomes, t
  <2>3. CASE d # n
    <3>1. M[d] = L[d] /\ L[d] = IF d < n THEN << >> ELSE K[d]
      BY <1>8, <2>3 DEF Becomes, Emptied
    <3>2. d < n <=> d < n + 1
      BY <1>1, <2>1, <2>3
    <3> QED
      BY <3>1, <3>2
  <2> QED
    BY <2>2, <2>3
<1>11. Spared(x, z, K)
  <2> SUFFICES ASSUME NEW d \in Ids \ Buckets PROVE Kept(x, z, K[d])
    BY DEF Spared
  <2>1. d # n /\ ~ (d < n)
    BY <1>1 DEF Ids, Buckets
  <2>2. Kept(x, y, K[d]) /\ Kept(y, z, L[d]) /\ L[d] = K[d]
    BY <1>9, <2>1 DEF Spared, Rest, Emptied
  <2> QED
    BY <2>2 DEF Kept, Same, SamePrev, SameNext, SameData
<1> QED
  BY <1>8, <1>10, <1>11

LEMMA HashNukeIs ==
    ASSUME NEW K, Shape(K), HashNuke
    PROVE  /\ ret' = Null
           /\ \E L : Shape(L)' /\ Emptied(K, L, HashSize) /\ Spared(m, m', K)
<1> DEFINE N == HashSize
           f == CHOOSE f : IsNuke(f, m, table, N)
<1>1. N \in Nat
  BY SizeAssumption
<1>2. IsNuke(f, m, table, N)
  BY <1>1, NukeExists
<1>3. m' = f[N]
  BY Zenon DEF HashNuke, IsNuke
<1> HIDE DEF f, N
<1>4. f[0] = m /\ \A n \in 1 .. N : f[n] = list_destroy(f[n - 1], table[n - 1])
  BY <1>1, <1>2 DEF IsNuke
<1>5. /\ ret' = Null /\ table' = [i \in DOMAIN table |-> Null]
      /\ UNCHANGED <<listVars, queueVars>>
  BY DEF HashNuke
<1>6. Family(m, K, building)
  BY DEF Shape, ShapeOf
<1> DEFINE T(n) == Spared(m, f[n], K) /\ \E L : Family(f[n], L, building) /\ Emptied(K, L, n)
           S == {n \in 0 .. N : T(n)}
<1>7. 0 \in S
  <2>1. Spared(m, m, K)
    BY DEF Spared, Kept, Same, SamePrev, SameNext, SameData
  <2>2. Emptied(K, K, 0)
    BY SizeAssumption DEF Emptied, Ids
  <2> QED
    BY <1>1, <1>4, <1>6, <2>1, <2>2
<1>8. ASSUME NEW n \in 0 .. N - 1, n \in S PROVE n + 1 \in S
  <2>1. PICK L : Family(f[n], L, building) /\ Emptied(K, L, n)
    BY <1>8
  <2>2. n \in Buckets /\ n + 1 \in 1 .. N /\ (n + 1) - 1 = n
    BY <1>1 DEF Buckets, N
  <2>3. table[n] = HeadOf(K[n])
    BY <2>2, ShapeIs
  <2>4. f[n + 1] = list_destroy(f[n], HeadOf(K[n]))
    BY <1>4, <2>2, <2>3
  <2>5. Spared(m, f[n], K)
    BY <1>8
  <2> DEFINE z == f[n + 1]
  <2>6. z = list_destroy(f[n], HeadOf(K[n]))
    BY <2>4
  <2> HIDE DEF z
  <2>7. Spared(m, z, K) /\ \E M : Family(z, M, building) /\ Emptied(K, M, n + 1)
    BY <2>1, <2>2, <2>5, <2>6, NukeStep
  <2> QED
    BY <2>2, <2>7 DEF z
<1> HIDE DEF S
<1>9. \A n \in 0 .. N : n \in S
  BY <1>1, <1>7, <1>8, Induct
<1>10. T(N)
  BY <1>1, <1>9 DEF S
<1>11. PICK L : Family(m', L, building) /\ Emptied(K, L, N)
  BY <1>3, <1>10
<1>12. Spared(m, m', K)
  BY <1>3, <1>10
<1>13. /\ \A i \in Buckets : L[i] = << >>
       /\ L[LIST] = K[LIST] /\ L[HEAP] = K[HEAP]
  <2>1. LIST \in Ids /\ HEAP \in Ids /\ \A i \in Buckets : i \in Ids
    BY IdsAre
  <2>2. ~ (LIST < N) /\ ~ (HEAP < N) /\ \A i \in Buckets : i < N
    BY <1>1 DEF LIST, HEAP, Buckets, N
  <2> QED
    BY <1>11, <2>1, <2>2 DEF Emptied
<1>14. table' = [i \in Buckets |-> HeadOf(L[i])]
  <2>1. DOMAIN table = Buckets
    BY DEF Shape, ShapeOf
  <2>2. HeadOf(<< >>) = Null
    BY DEF HeadOf
  <2> QED
    BY <1>5, <1>13, <2>1, <2>2
<1>15. ShapeOf(L, m', table', head', building', queue', size')
  BY <1>5, <1>11, <1>13, <1>14 DEF Shape, ShapeOf, listVars, queueVars
<1>16. Shape(L)'
  BY <1>15 DEF Shape
<1> QED
  BY <1>5, <1>11, <1>12, <1>16 DEF N

-----------------------------------------------------------------------------
(* The invariant *)

LEMMA EmptyShape ==
    ASSUME Init
    PROVE  \E K : /\ Shape(K) /\ K[LIST] = << >> /\ K[RING] = <<Sentry>>
                  /\ \A i \in Buckets : K[i] = << >>
<1> DEFINE ring == <<Sentry>>
           K == [c \in Ids |-> IF c = RING THEN ring ELSE << >>]
           cell == [prev |-> Sentry, next |-> Sentry, data |-> Null]
<1>1. EmptyMemory \in Memory /\ EmptyMemory.free = Addr
  BY BlankCell DEF EmptyMemory, Memory
<1>2. cell \in Cell /\ Sentry \in Addr
  BY SizeAssumption DEF Cell, Ptr, Contents
<1>3. m = New(EmptyMemory, Sentry, cell)
  BY DEF Init, clist_new
<1> HIDE DEF cell
<1>4. m \in Memory /\ m.free = Addr \ {Sentry} /\ m.item[Sentry] = cell
  BY <1>1, <1>2, <1>3, NewIs
<1>5. ring \in Seq(Addr) /\ Len(ring) = 1 /\ ring[1] = Sentry
  BY <1>2
<1>6. << >> \in Seq(Addr) /\ Len(<< >>) = 0
  OBVIOUS
<1> HIDE DEF ring
<1>7. Distinct(ring) /\ Used(m, ring) /\ RingOk(m, ring)
  <2>1. \A i \in 1 .. Len(ring) : i = 1
    BY <1>5
  <2>2. After(ring, 1) = Sentry
    BY <1>5 DEF After
  <2>3. RingLinked(m, ring)
    BY <1>4, <1>5, <2>1, <2>2 DEF RingLinked, Pair, cell
  <2> QED
    BY <1>4, <1>5, <2>1, <2>3 DEF Distinct, Used, RingOk
<1>8. \A c \in Ids : K[c] = IF c = RING THEN ring ELSE << >>
  OBVIOUS
<1>9. K \in [Ids -> Seq(Addr)]
  BY <1>5, <1>6
<1> HIDE DEF K
<1>10. ASSUME NEW c \in Ids
       PROVE  Distinct(K[c]) /\ Used(m, K[c]) /\ Ok(m, K[c], c, TRUE)
  <2>1. CASE c = RING
    <3>1. K[c] = ring /\ c \notin Buckets /\ c # LIST
      BY <1>8, <2>1, IdsAre
    <3> QED
      BY <1>7, <3>1 DEF Ok
  <2>2. CASE c # RING
    <3>1. K[c] = << >>
      BY <1>8, <2>2
    <3>2. Distinct(<< >>) /\ Used(m, << >>) /\ BucketOk(m, << >>, c) /\ ListOk(m, << >>, TRUE)
      BY <1>6 DEF Distinct, Used, BucketOk, Keyed, ListOk, Linked, Backed
    <3> QED
      BY <2>2, <3>1, <3>2 DEF Ok
  <2> QED
    BY <2>1, <2>2
<1>11. ASSUME NEW c \in Ids, NEW d \in Ids, c # d PROVE Apart(K[c], K[d])
  <2>1. K[c] = << >> \/ K[d] = << >>
    BY <1>8, <1>11
  <2> QED
    BY <1>6, <2>1 DEF Apart, In
<1>12. Family(m, K, TRUE)
  <2>1. ASSUME NEW a \in Addr \ m.free PROVE \E c \in Ids : In(a, K[c])
    <3>1. In(a, ring) /\ K[RING] = ring
      BY <1>4, <1>5, <1>8, <2>1, IdsAre DEF In
    <3> QED
      BY <3>1, IdsAre
  <2> QED
    BY <1>4, <1>9, <1>10, <1>11, <2>1 DEF Family, Covers
<1>13. K[LIST] = << >> /\ K[HEAP] = << >> /\ \A i \in Buckets : K[i] = << >>
  BY <1>8, IdsAre
<1>14. HeadOf(<< >>) = Null /\ Ats(<< >>) = << >> /\ Ordered(<< >>)
  <2>1. Ats(<< >>) = << >>
    BY <1>6 DEF Ats
  <2> QED
    BY <1>6, <2>1 DEF HeadOf, Ordered
<1>15. /\ table = [i \in Buckets |-> HeadOf(K[i])] /\ head = HeadOf(K[LIST])
       /\ queue = << >> /\ size \in Nat /\ Len(queue) < size /\ building = TRUE
  BY <1>13, <1>14, SizeAssumption DEF Init, Buckets
<1>16. ShapeOf(K, m, table, head, TRUE, queue, size)
  <2>1. << >> \in Seq(QItem)
    OBVIOUS
  <2>2. queue \in Seq(QItem) /\ K[HEAP] = Ats(queue) /\ Ordered(queue)
    BY <1>13, <1>14, <1>15, <2>1
  <2> QED
    BY <1>12, <1>15, <2>2 DEF ShapeOf
<1>17. K[RING] = <<Sentry>>
  BY <1>8, IdsAre DEF ring
<1>18. Shape(K)
  BY <1>15, <1>16 DEF Shape
<1> QED
  BY <1>13, <1>17, <1>18

LEMMA InitShape == Init => Inv
BY EmptyShape DEF Inv

LEMMA MovedInv == ASSUME NEW K, NEW c, NEW t, Moved(K, c, t) PROVE Inv'
BY DEF Moved, Inv

LEMMA ShapeStutters ==
    ASSUME NEW K, Shape(K), UNCHANGED <<m, table, listVars, queueVars>> PROVE Shape(K)'
<1>1. ShapeOf(K, m', table', head', building', queue', size')
  BY DEF Shape, listVars, queueVars
<1> QED
  BY <1>1 DEF Shape

LEMMA NextShape == Inv /\ [Next]_vars => Inv'
<1> SUFFICES ASSUME NEW K, Shape(K), [Next]_vars PROVE Inv'
  BY DEF Inv
<1>1. ASSUME NEW k \in Keys, NEW d \in Data, HashInsert(k, d) PROVE Inv'
  BY <1>1, HashInsertIs, MovedInv
<1>2. ASSUME NEW k \in Keys, HashRemove(k) PROVE Inv'
  BY <1>2, HashRemoveIs, MovedInv
<1>3. ASSUME NEW k \in Keys, HashFind(k) PROVE Inv'
  BY <1>3, ShapeStutters DEF HashFind, Inv
<1>4. CASE HashNuke
  BY <1>4, HashNukeIs DEF Inv
<1>5. ASSUME NEW d \in Data, ListAdd(d) PROVE Inv'
  BY <1>5, ListAddIs, MovedInv
<1>6. CASE ListReverse
  BY <1>6, ListReverseIs, MovedInv
<1>7. CASE ListRemoveHead
  BY <1>7, ListRemoveHeadIs, MovedInv
<1>8. CASE ClistEdit
  <2>1. UNCHANGED <<table, listVars, queueVars>>
    BY <1>8 DEF ClistEdit
  <2>2. ASSUME NEW at \in Items \cup {Sentry}, NEW a \in m.free, NEW d \in Data,
               m' \in {clist_append(m, at, a, d), clist_prepend(m, at, a, d)}
        PROVE  Inv'
    BY <2>1, <2>2, ClistInsertIs, MovedInv
  <2>3. ASSUME NEW a \in Items, m' = clist_delinkitem(m, a) PROVE Inv'
    BY <2>1, <2>3, ClistDelinkItemIs, MovedInv
  <2>4. ASSUME NEW to \in Items \cup {Sentry}, NEW from \in Items, to # from,
               m' = clist_moveitem(m, to, from)
        PROVE  Inv'
    BY <2>1, <2>4, ClistMoveItemIs, MovedInv
  <2> QED
    BY <1>8, <2>2, <2>3, <2>4 DEF ClistEdit
<1>9. ASSUME NEW k \in Keys, PqueueInsert(k) PROVE Inv'
  BY <1>9, QueuePutIs, MovedInv
<1>10. CASE PqueueExtract
  BY <1>10, QueueTakeIs, MovedInv
<1>11. CASE UNCHANGED vars
  BY <1>11, ShapeStutters DEF vars, listVars, queueVars, Inv
<1> QED
  BY <1>1, <1>2, <1>3, <1>4, <1>5, <1>6, <1>7, <1>8, <1>9, <1>10, <1>11 DEF Next

\* Whatever was freed and allocated before, each container is made of items of
\* its own, linked as its operations need them (hash.c, list.c, clist.c, pqueue.c).
THEOREM Invariance == Spec => []Inv
BY InitShape, NextShape, PTL DEF Spec

LEMMA InvSafe == Inv => TouchesNoFreedItem
BY ShapeIs DEF Inv, Memory, TouchesNoFreedItem

\* No operation reads or writes an item that has been freed, follows a null
\* pointer or writes behind the queue's array, for any number of items, keys and
\* chains and any first capacity of the queue.
THEOREM NoFreedItemTouched == Spec => []TouchesNoFreedItem
BY Invariance, InvSafe, PTL

-----------------------------------------------------------------------------
(* What the containers hold, in terms of the family *)

\* The hash table: the entries of its chains
Pairs(x, K) == {e \in Entries : Holds(x, K[HASHFN(e.key)], e)}
Functional(P) == P \subseteq Entries /\ \A e, g \in P : e.key = g.key => e = g
MapOf(P) == [k \in {e.key : e \in P} |-> (CHOOSE e \in P : e.key = k).data]
EnteredAt(x, tb) ==
    {x.item[a].data : a \in UNION {ToSet(Chain(x, tb[i], "prev", Null)) : i \in DOMAIN tb}}

\* The lists: the data of a sequence of items
DataOver(x, s) == [i \in 1 .. Len(s) |-> x.item[s[i]].data]

LEMMA FamilyParts ==
    ASSUME NEW x, NEW K, NEW b, Family(x, K, b)
    PROVE  /\ x \in Memory
           /\ \A i \in Buckets : K[i] \in Seq(Addr) /\ Distinct(K[i]) /\ BucketOk(x, K[i], i)
           /\ K[LIST] \in Seq(Addr) /\ Distinct(K[LIST]) /\ ListOk(x, K[LIST], b)
           /\ K[RING] \in Seq(Addr) /\ Distinct(K[RING]) /\ RingOk(x, K[RING])
<1>1. ASSUME NEW i \in Buckets
      PROVE  K[i] \in Seq(Addr) /\ Distinct(K[i]) /\ BucketOk(x, K[i], i)
  <2>1. i \in Ids
    BY IdsAre
  <2> QED
    BY <2>1, FamilyIs DEF Ok
<1>2. x \in Memory /\ K[LIST] \in Seq(Addr) /\ Distinct(K[LIST]) /\ Ok(x, K[LIST], LIST, b)
  BY IdsAre, FamilyIs
<1>3. K[RING] \in Seq(Addr) /\ Distinct(K[RING]) /\ Ok(x, K[RING], RING, b)
  BY IdsAre, FamilyIs
<1> QED
  BY <1>1, <1>2, <1>3 DEF Ok

LEMMA PairsFunctional ==
    ASSUME NEW x, NEW K, NEW b, Family(x, K, b) PROVE Functional(Pairs(x, K))
<1> SUFFICES ASSUME NEW e \in Pairs(x, K), NEW g \in Pairs(x, K), e.key = g.key PROVE e = g
  BY DEF Functional, Pairs
<1> DEFINE c == HASHFN(e.key)
<1>1. e \in Entries /\ g \in Entries /\ Holds(x, K[c], e) /\ Holds(x, K[c], g)
  BY DEF Pairs
<1>2. c \in Buckets
  BY <1>1, IdsAre DEF Entries
<1>3. BucketOk(x, K[c], c)
  BY <1>2, FamilyParts
<1> HIDE DEF c
<1>4. PICK i \in 1 .. Len(K[c]) : x.item[K[c][i]].data = e
  BY <1>1 DEF Holds
<1>5. PICK j \in 1 .. Len(K[c]) : x.item[K[c][j]].data = g
  BY <1>1 DEF Holds
<1>6. i = j
  BY <1>3, <1>4, <1>5 DEF BucketOk, Keyed, KeyAt
<1> QED
  BY <1>4, <1>5, <1>6

\* The set of a sequence, by places
LEMMA ToSetIs ==
    ASSUME NEW s \in Seq(Addr) PROVE ToSet(s) = {s[j] : j \in 1 .. Len(s)}
<1>1. DOMAIN s = 1 .. Len(s)
  BY LenProperties
<1>2. ToSet(s) = {s[j] : j \in DOMAIN s}
  BY Zenon DEF ToSet
<1> QED
  BY <1>1, <1>2, Zenon

LEMMA EnteredIs ==
    ASSUME NEW x, NEW K, NEW b, Family(x, K, b),
           NEW tb, tb = [i \in Buckets |-> HeadOf(K[i])]
    PROVE  EnteredAt(x, tb) = Pairs(x, K)
<1>1. ASSUME NEW i \in Buckets
      PROVE  /\ ToSet(Chain(x, tb[i], "prev", Null)) = {K[i][j] : j \in 1 .. Len(K[i])}
             /\ BucketOk(x, K[i], i)
  <2> DEFINE s == K[i]
  <2>1. s \in Seq(Addr) /\ Distinct(s) /\ BucketOk(x, s, i)
    BY FamilyParts
  <2>2. tb[i] = HeadOf(s)
    OBVIOUS
  <2> HIDE DEF s
  <2>3. Chain(x, HeadOf(s), "prev", Null) = s
    BY <2>1, ListChain DEF BucketOk
  <2>4. ToSet(s) = {s[j] : j \in 1 .. Len(s)}
    <3>1. s \in Seq(Addr)
      BY <2>1, Zenon
    <3> QED
      BY <3>1, ToSetIs, Zenon
  <2> QED
    BY <2>1, <2>2, <2>3, <2>4 DEF s
<1>2. ASSUME NEW e \in EnteredAt(x, tb) PROVE e \in Pairs(x, K)
  <2>1. PICK i \in Buckets : \E a \in ToSet(Chain(x, tb[i], "prev", Null)) : e = x.item[a].data
    BY DEF EnteredAt
  <2>2. PICK j \in 1 .. Len(K[i]) : e = x.item[K[i][j]].data
    <3> DEFINE s == K[i]
               members == ToSet(Chain(x, tb[i], "prev", Null))
    <3>1. members = {s[j] : j \in 1 .. Len(s)}
      BY <1>1, Zenon
    <3>2. PICK a \in members : e = x.item[a].data
      BY <2>1, Zenon
    <3> HIDE DEF s, members
    <3>3. PICK j \in 1 .. Len(s) : a = s[j]
      BY <3>1, <3>2, Zenon
    <3> QED
      BY <3>2, <3>3, Zenon DEF s
  <2>3. e \in Entries /\ HASHFN(e.key) = i
    <3> DEFINE s == K[i]
    <3>1. BucketOk(x, s, i) /\ j \in 1 .. Len(s) /\ e = x.item[s[j]].data
      BY <1>1, <2>2, Zenon
    <3> HIDE DEF s
    <3> QED
      BY <3>1 DEF BucketOk, Keyed, KeyAt
  <2> QED
    BY <2>2, <2>3, Zenon DEF Pairs, Holds
<1>3. ASSUME NEW e \in Pairs(x, K) PROVE e \in EnteredAt(x, tb)
  <2> DEFINE c == HASHFN(e.key)
  <2>1. e \in Entries /\ Holds(x, K[c], e)
    BY DEF Pairs
  <2>2. c \in Buckets
    BY <2>1, IdsAre DEF Entries
  <2> HIDE DEF c
  <2>3. PICK j \in 1 .. Len(K[c]) : x.item[K[c][j]].data = e
    BY <2>1 DEF Holds
  <2>4. K[c][j] \in ToSet(Chain(x, tb[c], "prev", Null)) /\ c \in DOMAIN tb
    BY <1>1, <2>2
  <2> QED
    BY <2>3, <2>4 DEF EnteredAt
<1> QED
  BY <1>2, <1>3

LEMMA SequencesHeld ==
    ASSUME NEW x, NEW K, NEW b, Family(x, K, b)
    PROVE  /\ Chain(x, HeadOf(K[LIST]), "prev", Null) = K[LIST]
           /\ Chain(x, Get(x, Sentry, "next"), "next", Sentry) = Tail(K[RING])
           /\ DOMAIN K[LIST] = 1 .. Len(K[LIST])
           /\ DOMAIN Tail(K[RING]) = 1 .. Len(Tail(K[RING]))
<1> DEFINE s == K[LIST]
           r == K[RING]
<1>1. /\ x \in Memory /\ s \in Seq(Addr) /\ Distinct(s) /\ ListOk(x, s, b)
      /\ r \in Seq(Addr) /\ Distinct(r) /\ RingOk(x, r)
  BY FamilyParts
<1> HIDE DEF s, r
<1>2. Linked(x, s)
  BY <1>1 DEF ListOk
<1>3. Chain(x, HeadOf(s), "prev", Null) = s
  BY <1>1, <1>2, ListChain
<1>4. Len(r) # 0 /\ r[1] = Sentry /\ RingLinked(x, r)
  BY <1>1 DEF RingOk
<1>5. Chain(x, Get(x, Sentry, "next"), "next", Sentry) = Tail(r)
  BY <1>1, <1>4, RingChain
<1>6. DOMAIN s = 1 .. Len(s)
  BY <1>1, LenProperties
<1>7. r # << >>
  BY <1>1, <1>4, EmptySeq
<1>8. Tail(r) \in Seq(Addr)
  BY <1>1, <1>7, HeadTailProperties
<1>9. DOMAIN Tail(r) = 1 .. Len(Tail(r))
  BY <1>8, LenProperties
<1> QED
  BY <1>3, <1>5, <1>6, <1>9 DEF s, r

LEMMA Held ==
    ASSUME NEW K, Shape(K)
    PROVE  /\ MapHeld = MapOf(Pairs(m, K)) /\ Functional(Pairs(m, K))
           /\ ListHeld = DataOver(m, K[LIST]) /\ RingHeld = DataOver(m, Tail(K[RING]))
<1>1. Family(m, K, building) /\ table = [i \in Buckets |-> HeadOf(K[i])] /\ head = HeadOf(K[LIST])
  BY DEF Shape, ShapeOf
<1>2. EnteredAt(m, table) = Pairs(m, K)
  BY <1>1, EnteredIs
<1>3. MapHeld = MapOf(EnteredAt(m, table))
  BY Zenon DEF MapHeld, MapOf, EnteredAt, Entered
<1>4. Functional(Pairs(m, K))
  BY <1>1, PairsFunctional
<1>5. ListHeld = DataOver(m, K[LIST]) /\ RingHeld = DataOver(m, Tail(K[RING]))
  <2>1. /\ Chain(m, HeadOf(K[LIST]), "prev", Null) = K[LIST]
        /\ Chain(m, Get(m, Sentry, "next"), "next", Sentry) = Tail(K[RING])
        /\ DOMAIN K[LIST] = 1 .. Len(K[LIST])
        /\ DOMAIN Tail(K[RING]) = 1 .. Len(Tail(K[RING]))
    BY <1>1, SequencesHeld
  <2> QED
    BY <1>1, <2>1, Zenon DEF ListHeld, RingHeld, DataOn, DataOver
<1> QED
  BY <1>2, <1>3, <1>4, <1>5

LEMMA HeldNext ==
    ASSUME NEW K, Shape(K)'
    PROVE  /\ MapHeld' = MapOf(Pairs(m', K)) /\ Functional(Pairs(m', K))
           /\ ListHeld' = DataOver(m', K[LIST]) /\ RingHeld' = DataOver(m', Tail(K[RING]))
<1>1. /\ Family(m', K, building') /\ table' = [i \in Buckets |-> HeadOf(K[i])]
      /\ head' = HeadOf(K[LIST])
  BY DEF Shape, ShapeOf
<1>2. EnteredAt(m', table') = Pairs(m', K)
  BY <1>1, EnteredIs
<1>3. MapHeld' = MapOf(EnteredAt(m', table'))
  BY Zenon DEF MapHeld, MapOf, EnteredAt, Entered
<1>4. Functional(Pairs(m', K))
  BY <1>1, PairsFunctional
<1>5. ListHeld' = DataOver(m', K[LIST]) /\ RingHeld' = DataOver(m', Tail(K[RING]))
  <2>1. /\ Chain(m', HeadOf(K[LIST]), "prev", Null) = K[LIST]
        /\ Chain(m', Get(m', Sentry, "next"), "next", Sentry) = Tail(K[RING])
        /\ DOMAIN K[LIST] = 1 .. Len(K[LIST])
        /\ DOMAIN Tail(K[RING]) = 1 .. Len(Tail(K[RING]))
    BY <1>1, SequencesHeld
  <2> QED
    BY <1>1, <2>1, Zenon DEF ListHeld, RingHeld, DataOn, DataOver
<1> QED
  BY <1>2, <1>3, <1>4, <1>5

\* What the containers reach is what the family holds.
Of(s) == {a \in Addr : In(a, s)}

LEMMA OfIs == ASSUME NEW s \in Seq(Addr) PROVE ToSet(s) = Of(s)
<1>1. DOMAIN s = 1 .. Len(s) /\ \A i \in 1 .. Len(s) : s[i] \in Addr
  BY LenProperties, ElementOfSeq
<1> QED
  BY <1>1 DEF ToSet, Of, In

LEMMA ChainsReach ==
    ASSUME NEW K, Shape(K)
    PROVE  /\ Entered = UNION {Of(K[i]) : i \in Buckets}
           /\ ToSet(Chain(m, head, "prev", Null)) = Of(K[LIST])
<1>1. Family(m, K, building) /\ table = [i \in Buckets |-> HeadOf(K[i])] /\ head = HeadOf(K[LIST])
  BY DEF Shape, ShapeOf
<1>2. ASSUME NEW i \in Buckets PROVE ToSet(Chain(m, table[i], "prev", Null)) = Of(K[i])
  <2> DEFINE s == K[i]
  <2>1. s \in Seq(Addr) /\ Distinct(s) /\ Linked(m, s)
    BY <1>1, FamilyParts DEF BucketOk
  <2>2. table[i] = HeadOf(s)
    BY <1>1
  <2> HIDE DEF s
  <2>3. Chain(m, HeadOf(s), "prev", Null) = s
    BY <2>1, ListChain
  <2> QED
    BY <2>1, <2>2, <2>3, OfIs DEF s
<1>3. DOMAIN table = Buckets
  BY <1>1
<1>4. Chain(m, head, "prev", Null) = K[LIST] /\ K[LIST] \in Seq(Addr)
  BY <1>1, FamilyParts, SequencesHeld
<1> QED
  BY <1>2, <1>3, <1>4, OfIs DEF Entered

LEMMA RingReaches == ASSUME NEW K, Shape(K) PROVE Items \cup {Sentry} = Of(K[RING])
<1> DEFINE r == K[RING]
<1>1. r \in Seq(Addr) /\ r = K[RING]
  BY ShapeIs
<1> HIDE DEF r
<1>2. Items \cup {Sentry} = {r[i] : i \in 1 .. Len(r)}
  BY <1>1, ItemsIs
<1>3. DOMAIN r = 1 .. Len(r)
  BY <1>1, LenProperties
<1> QED
  BY <1>1, <1>2, <1>3, OfIs DEF ToSet

LEMMA QueueReaches ==
    ASSUME NEW K, Shape(K) PROVE {queue[i].at : i \in DOMAIN queue} = Of(K[HEAP])
<1>1. queue \in Seq(QItem) /\ K[HEAP] = Ats(queue) /\ K[HEAP] \in Seq(Addr)
  BY ShapeIs
<1>2. DOMAIN queue = 1 .. Len(queue)
  BY <1>1, LenProperties
<1>3. Len(K[HEAP]) = Len(queue) /\ \A i \in 1 .. Len(queue) : K[HEAP][i] = queue[i].at
  BY <1>1, AtsIs
<1>4. \A i \in 1 .. Len(queue) : queue[i].at \in Addr
  BY <1>1, ItemIs
<1> QED
  BY <1>2, <1>3, <1>4 DEF Of, In

LEMMA ReachedIs ==
    ASSUME NEW K, Shape(K) PROVE Reached = UNION {Of(K[c]) : c \in Ids}
<1>1. Ids = Buckets \cup {LIST, RING, HEAP}
  BY SizeAssumption DEF Ids, Buckets, LIST, RING, HEAP
<1>2. Reached = (UNION {Of(K[i]) : i \in Buckets}) \cup Of(K[LIST]) \cup Of(K[RING]) \cup Of(K[HEAP])
  BY ChainsReach, RingReaches, QueueReaches, Zenon DEF Reached
<1> QED
  BY <1>1, <1>2

LEMMA InvHeld == Inv => HoldsWhatIsUsed
<1> SUFFICES ASSUME NEW K, Shape(K) PROVE Reached = Addr \ m.free
  BY DEF Inv, HoldsWhatIsUsed
<1>1. Family(m, K, building)
  BY DEF Shape, ShapeOf
<1>2. ASSUME NEW a \in Addr PROVE (\E c \in Ids : In(a, K[c])) <=> a \notin m.free
  <2>1. ASSUME NEW c \in Ids, In(a, K[c]) PROVE a \notin m.free
    BY <1>1, <2>1 DEF Family, Used, In
  <2>2. a \notin m.free => \E c \in Ids : In(a, K[c])
    BY <1>1 DEF Family, Covers
  <2> QED
    BY <2>1, <2>2
<1>3. UNION {Of(K[c]) : c \in Ids} = {a \in Addr : \E c \in Ids : In(a, K[c])}
  BY DEF Of
<1> QED
  BY <1>2, <1>3, ReachedIs

\* No item is lost before it is freed, and none is reached afterwards, for any
\* number of items, keys and chains.
THEOREM UsedIsHeld == Spec => []HoldsWhatIsUsed
BY Invariance, InvHeld, PTL


LEMMA HoldsKept ==
    ASSUME NEW x, NEW y, NEW s, Kept(x, y, s), NEW e PROVE Holds(y, s, e) <=> Holds(x, s, e)
BY DEF Kept, Same, SameData, Holds

LEMMA DataKept ==
    ASSUME NEW x, NEW y, NEW s, Kept(x, y, s) PROVE DataOver(y, s) = DataOver(x, s)
BY DEF Kept, Same, SameData, DataOver

LEMMA KeptTail ==
    ASSUME NEW x, NEW y, NEW s \in Seq(Addr), Len(s) # 0, Kept(x, y, s) PROVE Kept(x, y, Tail(s))
<1>1. s # << >> /\ Len(s) \in Nat
  BY EmptySeq, LenProperties
<1>2. Len(Tail(s)) = Len(s) - 1 /\ \A i \in 1 .. Len(Tail(s)) : Tail(s)[i] = s[i + 1]
  BY <1>1, HeadTailProperties
<1>3. ASSUME NEW i \in 1 .. Len(Tail(s)) PROVE Same(x, y, Tail(s)[i])
  <2>1. i + 1 \in 1 .. Len(s) /\ Tail(s)[i] = s[i + 1]
    BY <1>1, <1>2
  <2> QED
    BY <2>1 DEF Kept
<1> QED
  BY <1>3 DEF Kept

LEMMA PairsKept ==
    ASSUME NEW x, NEW y, NEW K, NEW L,
           \A i \in Buckets : L[i] = K[i] /\ Kept(x, y, K[i])
    PROVE  Pairs(y, L) = Pairs(x, K)
<1>1. ASSUME NEW e \in Entries
      PROVE  Holds(y, L[HASHFN(e.key)], e) <=> Holds(x, K[HASHFN(e.key)], e)
  <2> DEFINE c == HASHFN(e.key)
  <2>1. c \in Buckets
    BY IdsAre DEF Entries
  <2>2. L[c] = K[c] /\ Kept(x, y, K[c])
    BY <2>1
  <2> HIDE DEF c
  <2>3. Holds(y, L[c], e) <=> Holds(x, K[c], e)
    BY <2>2, HoldsKept
  <2> QED
    BY <2>3 DEF c
<1> QED
  BY <1>1 DEF Pairs

\* An operation on one container leaves what the others hold.
LEMMA MovedElse ==
    ASSUME NEW K, Shape(K), NEW c, NEW t, Moved(K, c, t)
    PROVE  /\ c \notin Buckets => MapHeld' = MapHeld
           /\ c # LIST => ListHeld' = ListHeld
           /\ c # RING => RingHeld' = RingHeld
<1>1. PICK L : Shape(L)' /\ Becomes(K, L, c, t) /\ Rest(m, m', K, c)
  BY DEF Moved
<1>2. /\ MapHeld = MapOf(Pairs(m, K)) /\ ListHeld = DataOver(m, K[LIST])
      /\ RingHeld = DataOver(m, Tail(K[RING]))
  BY Held
<1>3. /\ MapHeld' = MapOf(Pairs(m', L)) /\ ListHeld' = DataOver(m', L[LIST])
      /\ RingHeld' = DataOver(m', Tail(L[RING]))
  BY <1>1, HeldNext
<1>4. ASSUME c \notin Buckets PROVE MapHeld' = MapHeld
  <2>1. \A i \in Buckets : L[i] = K[i] /\ Kept(m, m', K[i])
    BY <1>1, <1>4, IdsAre DEF Becomes, Rest
  <2>2. Pairs(m', L) = Pairs(m, K)
    BY <2>1, PairsKept
  <2> QED
    BY <1>2, <1>3, <2>2
<1>5. ASSUME c # LIST PROVE ListHeld' = ListHeld
  <2>1. L[LIST] = K[LIST] /\ Kept(m, m', K[LIST])
    BY <1>1, <1>5, IdsAre DEF Becomes, Rest
  <2>2. DataOver(m', K[LIST]) = DataOver(m, K[LIST])
    BY <2>1, DataKept
  <2> QED
    BY <1>2, <1>3, <2>1, <2>2
<1>6. ASSUME c # RING PROVE RingHeld' = RingHeld
  <2>1. L[RING] = K[RING] /\ Kept(m, m', K[RING])
    BY <1>1, <1>6, IdsAre DEF Becomes, Rest
  <2>2. K[RING] \in Seq(Addr) /\ Len(K[RING]) # 0
    BY ShapeIs DEF RingOk
  <2>3. DataOver(m', Tail(K[RING])) = DataOver(m, Tail(K[RING]))
    BY <2>1, <2>2, KeptTail, DataKept
  <2> QED
    BY <1>2, <1>3, <2>1, <2>3
<1> QED
  BY <1>4, <1>5, <1>6

LEMMA MovedHere ==
    ASSUME NEW K, Shape(K), NEW t
    PROVE  /\ Moved(K, LIST, t) =>
                ListHeld = DataOver(m, K[LIST]) /\ ListHeld' = DataOver(m', t)
           /\ Moved(K, RING, t) =>
                RingHeld = DataOver(m, Tail(K[RING])) /\ RingHeld' = DataOver(m', Tail(t))
<1>1. ListHeld = DataOver(m, K[LIST]) /\ RingHeld = DataOver(m, Tail(K[RING]))
  BY Held
<1>2. ASSUME Moved(K, LIST, t) PROVE ListHeld' = DataOver(m', t)
  <2>1. PICK L : Shape(L)' /\ L[LIST] = t
    BY <1>2 DEF Moved, Becomes
  <2> QED
    BY <2>1, HeldNext
<1>3. ASSUME Moved(K, RING, t) PROVE RingHeld' = DataOver(m', Tail(t))
  <2>1. PICK L : Shape(L)' /\ L[RING] = t
    BY <1>3 DEF Moved, Becomes
  <2> QED
    BY <2>1, HeldNext
<1> QED
  BY <1>1, <1>2, <1>3

-----------------------------------------------------------------------------
(* The hash table is a map. *)

LEMMA MapOfIs ==
    ASSUME NEW P, Functional(P)
    PROVE  DOMAIN MapOf(P) = {e.key : e \in P} /\ \A e \in P : MapOf(P)[e.key] = e.data
<1>1. DOMAIN MapOf(P) = {e.key : e \in P}
  BY DEF MapOf
<1>2. ASSUME NEW e \in P PROVE MapOf(P)[e.key] = e.data
  <2> DEFINE g == CHOOSE g \in P : g.key = e.key
  <2>1. g \in P /\ g.key = e.key
    OBVIOUS
  <2>2. MapOf(P)[e.key] = g.data
    BY DEF MapOf
  <2> HIDE DEF g
  <2>3. g = e
    BY <2>1 DEF Functional
  <2> QED
    BY <2>2, <2>3
<1> QED
  BY <1>1, <1>2

\* A map with the keys and values of a functional set of entries is its map.
LEMMA MapOfEqual ==
    ASSUME NEW P, Functional(P), NEW D, NEW g, g = [j \in D |-> g[j]], D = {e.key : e \in P},
           \A e \in P : g[e.key] = e.data
    PROVE  MapOf(P) = g
<1>1. DOMAIN MapOf(P) = D /\ \A e \in P : MapOf(P)[e.key] = e.data
  BY MapOfIs
<1>2. \A j \in D : MapOf(P)[j] = g[j]
  BY <1>1
<1>3. MapOf(P) = [j \in D |-> MapOf(P)[j]]
  BY <1>1 DEF MapOf
<1> HIDE DEF MapOf
<1> QED
  BY <1>2, <1>3

LEMMA MapStored ==
    ASSUME NEW P, Functional(P), NEW k \in Keys, NEW d \in Data,
           NEW Q, Q = {e \in Entries : e = Entry(k, d) \/ (e.key # k /\ e \in P)},
           NEW f, f = MapOf(P)
    PROVE  MapOf(Q) = [j \in DOMAIN f \cup {k} |-> IF j = k THEN d ELSE f[j]]
<1> DEFINE n == Entry(k, d)
           D == DOMAIN f \cup {k}
           g == [j \in D |-> IF j = k THEN d ELSE f[j]]
<1>1. n \in Entries /\ n.key = k /\ n.data = d
  BY EntryIs
<1>2. DOMAIN f = {e.key : e \in P} /\ (\A e \in P : f[e.key] = e.data) /\ P \subseteq Entries
  BY MapOfIs DEF Functional
<1>3. /\ \A e \in Q : e = n \/ (e.key # k /\ e \in P)
      /\ n \in Q /\ \A e \in P : e.key # k => e \in Q
  BY <1>1, <1>2
<1>4. Q \subseteq Entries
  OBVIOUS
<1> HIDE DEF n
<1>5. Functional(Q)
  BY <1>1, <1>3, <1>4 DEF Functional
<1>6. D = {e.key : e \in Q}
  <2>1. ASSUME NEW j \in D PROVE \E e \in Q : j = e.key
    <3>1. CASE j = k
      BY <1>1, <1>3, <3>1
    <3>2. CASE j # k
      <4>1. PICK e \in P : j = e.key
        BY <1>2, <3>2
      <4> QED
        BY <1>3, <3>2, <4>1
    <3> QED
      BY <3>1, <3>2
  <2>2. ASSUME NEW e \in Q PROVE e.key \in D
    BY <1>1, <1>2, <1>3
  <2> QED
    BY <2>1, <2>2
<1>7. \A e \in Q : e.key \in D /\ g[e.key] = e.data
  <2> SUFFICES ASSUME NEW e \in Q PROVE e.key \in D /\ g[e.key] = e.data
    OBVIOUS
  <2>1. e.key \in D
    BY <1>6
  <2>2. CASE e = n
    BY <1>1, <2>1, <2>2
  <2>3. CASE e.key # k /\ e \in P
    BY <1>2, <2>1, <2>3
  <2> QED
    BY <1>3, <2>1, <2>2, <2>3
<1>8. g = [j \in D |-> g[j]]
  OBVIOUS
<1> HIDE DEF g, D
<1>9. MapOf(Q) = g
  BY <1>5, <1>6, <1>7, <1>8, MapOfEqual
<1> QED
  BY <1>9 DEF g, D

LEMMA MapDropped ==
    ASSUME NEW P, Functional(P), NEW k \in Keys,
           NEW Q, Q = {e \in Entries : e.key # k /\ e \in P}, NEW f, f = MapOf(P)
    PROVE  MapOf(Q) = [j \in DOMAIN f \ {k} |-> f[j]]
<1> DEFINE D == DOMAIN f \ {k}
           g == [j \in D |-> f[j]]
<1>1. DOMAIN f = {e.key : e \in P} /\ (\A e \in P : f[e.key] = e.data) /\ P \subseteq Entries
  BY MapOfIs DEF Functional
<1>2. \A e : e \in Q <=> e.key # k /\ e \in P
  BY <1>1
<1>3. Functional(Q)
  BY <1>1, <1>2 DEF Functional
<1>4. D = {e.key : e \in Q}
  BY <1>1, <1>2
<1>5. \A e \in Q : g[e.key] = e.data
  BY <1>1, <1>2, <1>4
<1>6. g = [j \in D |-> g[j]]
  OBVIOUS
<1> HIDE DEF g, D
<1>7. MapOf(Q) = g
  BY <1>3, <1>4, <1>5, <1>6, MapOfEqual
<1> QED
  BY <1>7 DEF g, D

LEMMA MapEmpty == MapOf({}) = << >>
<1>1. MapOf({}) = [k \in 1 .. 0 |-> k]
  <2>1. {e.key : e \in {}} = {} /\ 1 .. 0 = {}
    OBVIOUS
  <2> QED
    BY <2>1 DEF MapOf
<1>2. [k \in 1 .. 0 |-> k] \in Seq(Nat) /\ Len([k \in 1 .. 0 |-> k]) = 0
  OBVIOUS
<1> QED
  BY <1>1, <1>2, EmptySeq

LEMMA PairsStored ==
    ASSUME NEW x, NEW y, NEW K, NEW L, NEW k \in Keys, NEW c, c = HASHFN(k), NEW t,
           Becomes(K, L, c, t), Rest(x, y, K, c), NEW d \in Data, Stored(x, K[c], y, t, k, d)
    PROVE  Pairs(y, L) = {e \in Entries : e = Entry(k, d) \/ (e.key # k /\ e \in Pairs(x, K))}
<1>1. ASSUME NEW e \in Entries
      PROVE  Holds(y, L[HASHFN(e.key)], e) <=>
               e = Entry(k, d) \/ (e.key # k /\ Holds(x, K[HASHFN(e.key)], e))
  <2> DEFINE i == HASHFN(e.key)
  <2>1. i \in Ids /\ (e.key = k => i = c) /\ (i = c => L[i] = t) /\ Entry(k, d).key = k
    BY IdsAre, EntryIs DEF Entries, Becomes
  <2> HIDE DEF i
  <2>2. CASE i = c
    BY <2>1, <2>2 DEF Stored, i
  <2>3. CASE i # c
    <3>1. L[i] = K[i] /\ Kept(x, y, K[i]) /\ e.key # k
      BY <2>1, <2>3 DEF Becomes, Rest
    <3>2. Holds(y, L[i], e) <=> Holds(x, K[i], e)
      BY <3>1, HoldsKept
    <3> QED
      BY <2>1, <3>1, <3>2 DEF i
  <2> QED
    BY <2>2, <2>3
<1> QED
  BY <1>1 DEF Pairs

LEMMA PairsDropped ==
    ASSUME NEW x, NEW y, NEW K, NEW L, NEW k \in Keys, NEW c, c = HASHFN(k), NEW t,
           Becomes(K, L, c, t), Rest(x, y, K, c), Dropped(x, K[c], y, t, k)
    PROVE  Pairs(y, L) = {e \in Entries : e.key # k /\ e \in Pairs(x, K)}
<1>1. ASSUME NEW e \in Entries
      PROVE  Holds(y, L[HASHFN(e.key)], e) <=> e.key # k /\ Holds(x, K[HASHFN(e.key)], e)
  <2> DEFINE i == HASHFN(e.key)
  <2>1. i \in Ids /\ (e.key = k => i = c) /\ (i = c => L[i] = t)
    BY IdsAre DEF Entries, Becomes
  <2> HIDE DEF i
  <2>2. CASE i = c
    BY <2>1, <2>2 DEF Dropped, i
  <2>3. CASE i # c
    <3>1. L[i] = K[i] /\ Kept(x, y, K[i]) /\ e.key # k
      BY <2>1, <2>3 DEF Becomes, Rest
    <3>2. Holds(y, L[i], e) <=> Holds(x, K[i], e)
      BY <3>1, HoldsKept
    <3> QED
      BY <2>1, <3>1, <3>2 DEF i
  <2> QED
    BY <2>2, <2>3
<1> QED
  BY <1>1 DEF Pairs

LEMMA GivenIs ==
    ASSUME NEW K, Shape(K), NEW k \in Keys, NEW c, c = HASHFN(k), NEW r, Given(m, K[c], k, r)
    PROVE  r = IF k \in DOMAIN MapHeld THEN MapHeld[k] ELSE Null
<1> DEFINE P == Pairs(m, K)
           s == K[c]
<1>1. MapHeld = MapOf(P) /\ Functional(P)
  BY Held
<1>2. c \in Buckets
  BY IdsAre
<1>3. BucketOk(m, s, c) /\ \A e : e \in P <=> e \in Entries /\ Holds(m, K[HASHFN(e.key)], e)
  BY <1>2, ShapeIs DEF Pairs
<1> HIDE DEF P
<1>4. DOMAIN MapHeld = {e.key : e \in P} /\ \A e \in P : MapHeld[e.key] = e.data
  BY <1>1, MapOfIs
<1>5. \A e \in P : e.key = k => \E j \in 1 .. Len(s) : KeyAt(m, s[j]) = k
  BY <1>3 DEF Holds, KeyAt
<1>6. CASE r = Null /\ Miss(m, s, k)
  <2>1. k \notin DOMAIN MapHeld
    BY <1>4, <1>5, <1>6 DEF Miss
  <2> QED
    BY <1>6, <2>1
<1>7. ASSUME NEW p \in 1 .. Len(s), Hit(m, s, k, p), r = m.item[s[p]].data.data
      PROVE  r = IF k \in DOMAIN MapHeld THEN MapHeld[k] ELSE Null
  <2> DEFINE e == m.item[s[p]].data
  <2>1. e \in Entries /\ e.key = k
    BY <1>3, <1>7 DEF BucketOk, Keyed, Hit, KeyAt
  <2>2. e \in P
    BY <1>3, <2>1 DEF Holds
  <2>3. r = e.data
    BY <1>7
  <2> HIDE DEF e
  <2>4. k \in DOMAIN MapHeld /\ MapHeld[k] = e.data
    BY <1>4, <2>1, <2>2
  <2> QED
    BY <2>3, <2>4
<1> QED
  BY <1>6, <1>7 DEF Given

LEMMA HashInsertMap ==
    ASSUME NEW K, Shape(K), NEW k \in Keys, NEW d \in Data, HashInsert(k, d)
    PROVE  C!Next
<1> DEFINE c == HASHFN(k)
<1>1. c \in Buckets /\ c # LIST /\ c # RING /\ c = HASHFN(k)
  BY IdsAre
<1> HIDE DEF c
<1>2. ret' = Null /\ \E t : Moved(K, c, t) /\ Stored(m, K[c], m', t, k, d)
  BY <1>1, HashInsertIs
<1>3. PICK t : Moved(K, c, t) /\ Stored(m, K[c], m', t, k, d)
  BY <1>2
<1>4. ListHeld' = ListHeld /\ RingHeld' = RingHeld
  BY <1>1, <1>3, MovedElse
<1>5. PICK L : Shape(L)' /\ Becomes(K, L, c, t) /\ Rest(m, m', K, c)
  BY <1>3 DEF Moved
<1> DEFINE P == Pairs(m, K)
           Q == Pairs(m', L)
<1>6. MapHeld = MapOf(P) /\ Functional(P) /\ MapHeld' = MapOf(Q)
  BY <1>5, Held, HeldNext
<1>7. Q = {e \in Entries : e = Entry(k, d) \/ (e.key # k /\ e \in P)}
  BY <1>1, <1>3, <1>5, PairsStored
<1> HIDE DEF P, Q
<1>8. MapHeld' = [j \in DOMAIN MapHeld \cup {k} |-> IF j = k THEN d ELSE MapHeld[j]]
  BY <1>6, <1>7, MapStored
<1>9. QueueHeld' = QueueHeld
  BY DEF HashInsert, queueVars, QueueHeld
<1>10. C!Store(k, d)
  BY <1>2, <1>8 DEF C!Store
<1>11. C!MapNext
  BY <1>4, <1>9, <1>10 DEF C!MapNext
<1> QED
  BY <1>11 DEF C!Next

LEMMA HashRemoveMap ==
    ASSUME NEW K, Shape(K), NEW k \in Keys, HashRemove(k)
    PROVE  C!Next
<1> DEFINE c == HASHFN(k)
<1>1. c \in Buckets /\ c # LIST /\ c # RING /\ c = HASHFN(k)
  BY IdsAre
<1> HIDE DEF c
<1>2. Given(m, K[c], k, ret') /\ \E t : Moved(K, c, t) /\ Dropped(m, K[c], m', t, k)
  BY <1>1, HashRemoveIs
<1>3. PICK t : Moved(K, c, t) /\ Dropped(m, K[c], m', t, k)
  BY <1>2
<1>4. ListHeld' = ListHeld /\ RingHeld' = RingHeld
  BY <1>1, <1>3, MovedElse
<1>5. PICK L : Shape(L)' /\ Becomes(K, L, c, t) /\ Rest(m, m', K, c)
  BY <1>3 DEF Moved
<1> DEFINE P == Pairs(m, K)
           Q == Pairs(m', L)
<1>6. MapHeld = MapOf(P) /\ Functional(P) /\ MapHeld' = MapOf(Q)
  BY <1>5, Held, HeldNext
<1>7. Q = {e \in Entries : e.key # k /\ e \in P}
  BY <1>1, <1>3, <1>5, PairsDropped
<1> HIDE DEF P, Q
<1>8. MapHeld' = [j \in DOMAIN MapHeld \ {k} |-> MapHeld[j]]
  <2> DEFINE f == MapHeld
  <2>1. f = MapOf(P) /\ Functional(P)
    BY <1>6
  <2> HIDE DEF f
  <2>2. MapOf(Q) = [j \in DOMAIN f \ {k} |-> f[j]]
    BY <1>7, <2>1, MapDropped
  <2> QED
    BY <1>6, <2>2 DEF f
<1>9. QueueHeld' = QueueHeld
  BY DEF HashRemove, queueVars, QueueHeld
<1>10. ret' = IF k \in DOMAIN MapHeld THEN MapHeld[k] ELSE Null
  BY <1>1, <1>2, GivenIs
<1>11. C!Drop(k)
  BY <1>8, <1>10 DEF C!Drop, C!Lookup, C!Restrict
<1>12. C!MapNext
  BY <1>4, <1>9, <1>11 DEF C!MapNext
<1> QED
  BY <1>12 DEF C!Next

LEMMA HashFindMap ==
    ASSUME NEW K, Shape(K), NEW k \in Keys, HashFind(k)
    PROVE  C!Next
<1> DEFINE c == HASHFN(k)
<1>1. c = HASHFN(k)
  OBVIOUS
<1> HIDE DEF c
<1>2. Given(m, K[c], k, ret')
  BY <1>1, HashFindIs
<1>3. ret' = IF k \in DOMAIN MapHeld THEN MapHeld[k] ELSE Null
  BY <1>1, <1>2, GivenIs
<1>4. /\ MapHeld' = MapHeld /\ ListHeld' = ListHeld /\ RingHeld' = RingHeld
      /\ QueueHeld' = QueueHeld
  BY DEF HashFind, listVars, queueVars, MapHeld, Entered, ListHeld, RingHeld, DataOn, QueueHeld
<1>5. C!Find(k)
  BY <1>3, <1>4 DEF C!Find, C!Lookup
<1>6. C!MapNext
  BY <1>4, <1>5 DEF C!MapNext
<1> QED
  BY <1>6 DEF C!Next

LEMMA HashNukeMap == ASSUME NEW K, Shape(K), HashNuke PROVE C!Next
<1>1. ret' = Null
  BY DEF HashNuke
<1>2. PICK L : Shape(L)' /\ Emptied(K, L, HashSize) /\ Spared(m, m', K)
  BY HashNukeIs
<1>3. \A i \in Buckets : L[i] = << >>
  BY <1>2, IdsAre, SizeAssumption DEF Emptied, Buckets
<1>4. L[LIST] = K[LIST] /\ Kept(m, m', K[LIST]) /\ L[RING] = K[RING] /\ Kept(m, m', K[RING])
  BY <1>2, IdsAre, SizeAssumption DEF Emptied, Spared, Buckets, LIST, RING
<1>5. Pairs(m', L) = {}
  <2> SUFFICES ASSUME NEW e \in Entries PROVE ~ Holds(m', L[HASHFN(e.key)], e)
    BY DEF Pairs
  <2>1. L[HASHFN(e.key)] = << >>
    BY <1>3, IdsAre DEF Entries
  <2> QED
    BY <2>1 DEF Holds
<1>6. /\ MapHeld' = MapOf(Pairs(m', L)) /\ ListHeld' = DataOver(m', L[LIST])
      /\ RingHeld' = DataOver(m', Tail(L[RING]))
  BY <1>2, HeldNext
<1>7. ListHeld = DataOver(m, K[LIST]) /\ RingHeld = DataOver(m, Tail(K[RING]))
  BY Held
<1>8. MapHeld' = << >>
  BY <1>5, <1>6, MapEmpty
<1>9. ListHeld' = ListHeld
  BY <1>4, <1>6, <1>7, DataKept
<1>10. RingHeld' = RingHeld
  <2>1. K[RING] \in Seq(Addr) /\ Len(K[RING]) # 0
    BY ShapeIs DEF RingOk
  <2>2. DataOver(m', Tail(K[RING])) = DataOver(m, Tail(K[RING]))
    BY <1>4, <2>1, KeptTail, DataKept
  <2> QED
    BY <1>4, <1>6, <1>7, <2>2
<1>11. QueueHeld' = QueueHeld
  BY DEF HashNuke, queueVars, QueueHeld
<1>12. C!MapNext
  BY <1>1, <1>8, <1>9, <1>10, <1>11 DEF C!MapNext, C!Flush
<1> QED
  BY <1>12 DEF C!Next

-----------------------------------------------------------------------------
(* The list and the circular list are sequences of data. *)

LEMMA DataOverIs ==
    ASSUME NEW x \in Memory, NEW s \in Seq(Addr), NEW v, v = DataOver(x, s)
    PROVE  /\ v \in Seq(Contents) /\ Len(v) = Len(s)
           /\ \A i \in 1 .. Len(s) : v[i] = x.item[s[i]].data
<1>1. Len(s) \in Nat /\ \A i \in 1 .. Len(s) : s[i] \in Addr
  BY LenProperties, ElementOfSeq
<1>2. \A i \in 1 .. Len(s) : x.item[s[i]].data \in Contents
  BY <1>1, CellIs
<1> DEFINE f(i) == x.item[s[i]].data
           N == Len(s)
<1>3. v = [i \in 1 .. N |-> f(i)] /\ N \in Nat /\ \A i \in 1 .. N : f(i) \in Contents
  BY <1>1, <1>2 DEF DataOver
<1> HIDE DEF f, N
<1>4. v \in Seq(Contents) /\ Len(v) = N /\ \A i \in 1 .. N : v[i] = f(i)
  BY <1>3
<1> QED
  BY <1>4 DEF f, N

LEMMA InsertedSame ==
    ASSUME NEW S, NEW s \in Seq(S), NEW p, NEW e, NEW t \in Seq(S), Inserted(t, s, p, e),
           NEW u \in Seq(S), Inserted(u, s, p, e)
    PROVE  t = u
<1>1. Len(t) = Len(u) /\ \A i \in 1 .. Len(t) : t[i] = u[i]
  BY DEF Inserted
<1> QED
  BY <1>1, SeqEqual

LEMMA RemovedSame ==
    ASSUME NEW S, NEW s \in Seq(S), NEW p, NEW t \in Seq(S), Removed(t, s, p),
           NEW u \in Seq(S), Removed(u, s, p)
    PROVE  t = u
<1>1. Len(t) = Len(u) /\ \A i \in 1 .. Len(t) : t[i] = u[i]
  BY DEF Removed
<1> QED
  BY <1>1, SeqEqual

\* In a memory where the others keep their data, t has the item a more than s.
Longer(x, y, s, t, p, a) ==
    /\ x \in Memory /\ y \in Memory /\ s \in Seq(Addr) /\ t \in Seq(Addr) /\ a \in Addr
    /\ p \in 1 .. Len(s) + 1 /\ Inserted(t, s, p, a)
    /\ \A i \in 1 .. Len(s) : SameData(x, y, s[i])

LEMMA DataInserted ==
    ASSUME NEW x, NEW y, NEW s, NEW t, NEW p, NEW a, Longer(x, y, s, t, p, a),
           NEW d, y.item[a].data = d, NEW v, v = DataOver(x, s), NEW w, w = DataOver(y, t)
    PROVE  w \in Seq(Contents) /\ Inserted(w, v, p, d) /\ d \in Contents
<1>0. /\ x \in Memory /\ y \in Memory /\ s \in Seq(Addr) /\ t \in Seq(Addr) /\ a \in Addr
      /\ p \in 1 .. Len(s) + 1 /\ Inserted(t, s, p, a)
      /\ \A i \in 1 .. Len(s) : SameData(x, y, s[i])
  BY DEF Longer
<1>1. /\ v \in Seq(Contents) /\ Len(v) = Len(s) /\ Len(s) \in Nat /\ p \in Int
      /\ \A i \in 1 .. Len(s) : v[i] = x.item[s[i]].data
  BY <1>0, DataOverIs, LenProperties
<1>2. /\ w \in Seq(Contents) /\ Len(w) = Len(t)
      /\ \A i \in 1 .. Len(t) : w[i] = y.item[t[i]].data
  BY <1>0, DataOverIs
<1>3. d \in Contents
  BY <1>0, CellIs
<1>4. /\ Len(t) = Len(s) + 1
      /\ \A j \in 1 .. Len(s) + 1 :
           t[j] = IF j < p THEN s[j] ELSE IF j = p THEN a ELSE s[j - 1]
  BY <1>0 DEF Inserted
<1>5. ASSUME NEW j \in 1 .. Len(s) + 1
      PROVE  w[j] = IF j < p THEN v[j] ELSE IF j = p THEN d ELSE v[j - 1]
  <2>1. w[j] = y.item[t[j]].data
    BY <1>2, <1>4
  <2>2. CASE j < p
    <3>1. j \in 1 .. Len(s)
      BY <1>0, <1>1, <2>2
    <3>2. t[j] = s[j]
      BY <1>1, <1>4, <2>2
    <3>3. SameData(x, y, s[j]) /\ v[j] = x.item[s[j]].data
      BY <1>0, <1>1, <3>1
    <3> QED
      BY <2>1, <2>2, <3>2, <3>3 DEF SameData
  <2>3. CASE j = p
    BY <1>4, <2>1, <2>3
  <2>4. CASE j > p
    <3>1. j - 1 \in 1 .. Len(s)
      BY <1>0, <1>1, <2>4
    <3>2. t[j] = s[j - 1]
      BY <1>1, <1>4, <2>4
    <3>3. SameData(x, y, s[j - 1]) /\ v[j - 1] = x.item[s[j - 1]].data
      BY <1>0, <1>1, <3>1
    <3> QED
      BY <1>1, <2>1, <2>4, <3>2, <3>3 DEF SameData
  <2> QED
    BY <1>1, <2>2, <2>3, <2>4
<1> QED
  BY <1>1, <1>2, <1>3, <1>4, <1>5 DEF Inserted

LEMMA DataRemoved ==
    ASSUME NEW x \in Memory, NEW y \in Memory, NEW s \in Seq(Addr), NEW t \in Seq(Addr),
           NEW p \in 1 .. Len(s), Removed(t, s, p),
           \A i \in 1 .. Len(s) : i # p => SameData(x, y, s[i]),
           NEW v, v = DataOver(x, s), NEW w, w = DataOver(y, t)
    PROVE  w \in Seq(Contents) /\ Removed(w, v, p)
<1>1. /\ v \in Seq(Contents) /\ Len(v) = Len(s) /\ Len(s) \in Nat
      /\ \A i \in 1 .. Len(s) : v[i] = x.item[s[i]].data
  BY DataOverIs, LenProperties
<1>2. /\ w \in Seq(Contents) /\ Len(w) = Len(t)
      /\ \A i \in 1 .. Len(t) : w[i] = y.item[t[i]].data
  BY DataOverIs
<1>3. /\ Len(t) = Len(s) - 1
      /\ \A j \in 1 .. Len(s) - 1 : t[j] = IF j < p THEN s[j] ELSE s[j + 1]
  BY DEF Removed
<1>4. ASSUME NEW j \in 1 .. Len(s) - 1 PROVE w[j] = IF j < p THEN v[j] ELSE v[j + 1]
  <2>1. w[j] = y.item[t[j]].data
    BY <1>2, <1>3
  <2>2. CASE j < p
    <3>1. j \in 1 .. Len(s) /\ j # p
      BY <1>1, <2>2
    <3>2. t[j] = s[j]
      BY <1>3, <2>2
    <3>3. SameData(x, y, s[j]) /\ v[j] = x.item[s[j]].data
      BY <1>1, <3>1
    <3> QED
      BY <2>1, <2>2, <3>2, <3>3 DEF SameData
  <2>3. CASE ~ (j < p)
    <3>1. j + 1 \in 1 .. Len(s) /\ j + 1 # p
      BY <1>1, <2>3
    <3>2. t[j] = s[j + 1]
      BY <1>3, <2>3
    <3>3. SameData(x, y, s[j + 1]) /\ v[j + 1] = x.item[s[j + 1]].data
      BY <1>1, <3>1
    <3> QED
      BY <2>1, <2>3, <3>2, <3>3 DEF SameData
  <2> QED
    BY <2>2, <2>3
<1> QED
  BY <1>1, <1>2, <1>3, <1>4 DEF Removed

LEMMA ListAddList ==
    ASSUME NEW K, Shape(K), NEW d \in Data, ListAdd(d) PROVE C!Next
<1> DEFINE s == K[LIST]
<1>1. ret' = Null
  BY DEF ListAdd
<1>2. s = K[LIST] /\ s \in Seq(Addr) /\ Used(m, s) /\ m \in Memory /\ Len(s) \in Nat
  BY ShapeIs, LenProperties
<1> HIDE DEF s
<1>3. PICK t, a : /\ Moved(K, LIST, t) /\ Inserted(t, s, 1, a) /\ m'.item[a].data = d
                  /\ a \in m.free /\ \A b \in Addr \ {a} : SameData(m, m', b)
  BY <1>2, ListAddIs
<1>4. MapHeld' = MapHeld /\ RingHeld' = RingHeld
  BY <1>3, IdsAre, MovedElse
<1>5. ListHeld = DataOver(m, s) /\ ListHeld' = DataOver(m', t)
  BY <1>2, <1>3, MovedHere
<1>6. QueueHeld' = QueueHeld
  BY DEF ListAdd, queueVars, QueueHeld
<1>7. t \in Seq(Addr) /\ m' \in Memory
  <2>1. PICK L : Family(m', L, building') /\ L[LIST] = t
    BY <1>3 DEF Moved, Becomes, Shape, ShapeOf
  <2> QED
    BY <2>1, FamilyParts
<1>8. a \in Addr /\ \A i \in 1 .. Len(s) : SameData(m, m', s[i])
  <2>1. a \in Addr
    BY <1>2, <1>3 DEF Memory
  <2>2. \A i \in 1 .. Len(s) : s[i] \in Addr \ {a}
    BY <1>2, <1>3, ElementOfSeq DEF Used
  <2> QED
    BY <1>3, <2>1, <2>2
<1> DEFINE v == DataOver(m, s)
           w == DataOver(m', t)
           z == <<d>> \o v
           u == <<d>>
<1>9. v = DataOver(m, s) /\ w = DataOver(m', t) /\ 1 \in 1 .. Len(s) + 1
  BY <1>2
<1>10. u \in Seq(Contents) /\ Len(u) = 1 /\ u[1] = d /\ z = u \o v
  BY DataIs
<1> HIDE DEF v, w, z, u
<1>11. w \in Seq(Contents) /\ Inserted(w, v, 1, d)
  <2>1. Longer(m, m', s, t, 1, a)
    BY <1>2, <1>3, <1>7, <1>8, <1>9 DEF Longer
  <2>2. m'.item[a].data = d /\ v = DataOver(m, s) /\ w = DataOver(m', t)
    BY <1>3, <1>9
  <2> QED
    BY <2>1, <2>2, DataInserted
<1>12. v \in Seq(Contents) /\ Len(v) \in Nat
  BY <1>2, <1>9, DataOverIs
<1>13. z \in Seq(Contents) /\ Inserted(z, v, 1, d)
  <2> DEFINE n == Len(v)
             k == Len(u)
  <2>1. n = Len(v) /\ k = Len(u)
    OBVIOUS
  <2> HIDE DEF n, k
  <2>2. z \in Seq(Contents) /\ Joint(z, u, k, v, n)
    BY <1>10, <1>12, <2>1, ConcatIs
  <2>3. k = 1
    BY <1>10, <2>1
  <2>4. ASSUME NEW j \in 1 .. n + 1 PROVE z[j] = IF j < 1 THEN v[j] ELSE IF j = 1 THEN d ELSE v[j - 1]
    <3>1. CASE j = 1
      BY <1>10, <2>2, <2>3, <3>1 DEF Joint
    <3>2. CASE j # 1
      <4>1. j - 1 \in 1 .. n /\ 1 + (j - 1) = j
        BY <1>12, <2>1, <3>2
      <4>2. z[1 + (j - 1)] = v[j - 1]
        BY <2>2, <2>3, <4>1 DEF Joint
      <4> QED
        BY <3>2, <4>1, <4>2
    <3> QED
      BY <3>1, <3>2
  <2>5. Len(z) = n + 1
    BY <1>12, <2>1, <2>2, <2>3 DEF Joint
  <2> QED
    BY <2>1, <2>2, <2>4, <2>5 DEF Inserted
<1>14. w = z
  BY <1>11, <1>12, <1>13, InsertedSame
<1>15. ListHeld' = <<d>> \o ListHeld
  BY <1>5, <1>14 DEF v, w, z
<1>16. C!Push(d)
  BY <1>1, <1>15 DEF C!Push
<1>17. C!ListNext
  BY <1>4, <1>6, <1>16 DEF C!ListNext
<1> QED
  BY <1>17 DEF C!Next

LEMMA MovedIs ==
    ASSUME NEW K, NEW c \in Ids, NEW t, Moved(K, c, t)
    PROVE  m' \in Memory /\ t \in Seq(Addr)
<1>1. PICK L : Family(m', L, building') /\ L[c] = t
  BY DEF Moved, Becomes, Shape, ShapeOf
<1> QED
  BY <1>1, FamilyIs

LEMMA ListReverseList == ASSUME NEW K, Shape(K), ListReverse PROVE C!Next
<1> DEFINE s == K[LIST]
           t == Reverse(s)
<1>1. /\ s = K[LIST] /\ t = Reverse(s)
      /\ s \in Seq(Addr) /\ m \in Memory /\ Len(s) \in Nat
  BY ShapeIs, LenProperties
<1> HIDE DEF s, t
<1>2. ret' = Null /\ Moved(K, LIST, t) /\ \A b \in Addr : SameData(m, m', b)
  BY <1>1, ListReverseIs
<1>3. MapHeld' = MapHeld /\ RingHeld' = RingHeld
  BY <1>2, IdsAre, MovedElse
<1>4. ListHeld = DataOver(m, s) /\ ListHeld' = DataOver(m', t)
  BY <1>1, <1>2, MovedHere
<1>5. QueueHeld' = QueueHeld
  BY DEF ListReverse, queueVars, QueueHeld
<1>6. m' \in Memory /\ t \in Seq(Addr)
  BY <1>2, IdsAre, MovedIs
<1> DEFINE v == DataOver(m, s)
           w == DataOver(m', t)
<1>7. v = DataOver(m, s) /\ w = DataOver(m', t)
  OBVIOUS
<1> HIDE DEF v, w
<1>8. /\ v \in Seq(Contents) /\ Len(v) = Len(s)
      /\ \A i \in 1 .. Len(s) : v[i] = m.item[s[i]].data
  BY <1>1, <1>7, DataOverIs
<1>9. /\ w \in Seq(Contents) /\ Len(w) = Len(t)
      /\ \A i \in 1 .. Len(t) : w[i] = m'.item[t[i]].data
  BY <1>6, <1>7, DataOverIs
<1>10. Len(t) = Len(s) /\ \A i \in 1 .. Len(s) : t[i] = s[(Len(s) - i) + 1]
  BY <1>1 DEF Reverse
<1>11. \A i \in 1 .. Len(s) : w[i] = v[(Len(s) - i) + 1]
  <2> SUFFICES ASSUME NEW i \in 1 .. Len(s) PROVE w[i] = v[(Len(s) - i) + 1]
    OBVIOUS
  <2> DEFINE j == (Len(s) - i) + 1
  <2>1. j \in 1 .. Len(s) /\ t[i] = s[j]
    BY <1>1, <1>10
  <2> HIDE DEF j
  <2>2. s[j] \in Addr
    BY <1>1, <2>1, ElementOfSeq
  <2>3. w[i] = v[j]
    BY <1>2, <1>8, <1>9, <1>10, <2>1, <2>2 DEF SameData
  <2> QED
    BY <2>3 DEF j
<1>12. w = [i \in 1 .. Len(v) |-> v[(Len(v) - i) + 1]]
  <2>1. DOMAIN w = 1 .. Len(w) /\ w = [i \in DOMAIN w |-> w[i]]
    BY <1>9, LenProperties
  <2> QED
    BY <1>8, <1>9, <1>10, <1>11, <2>1
<1>13. ListHeld' = C!Reverse(ListHeld)
  BY <1>4, <1>7, <1>12 DEF C!Reverse
<1>14. C!Turn
  BY <1>2, <1>13 DEF C!Turn
<1>15. C!ListNext
  BY <1>3, <1>5, <1>14 DEF C!ListNext
<1> QED
  BY <1>15 DEF C!Next

LEMMA ListRemoveHeadList == ASSUME NEW K, Shape(K), ListRemoveHead PROVE C!Next
<1> DEFINE s == K[LIST]
<1>1. s = K[LIST] /\ s \in Seq(Addr) /\ Distinct(s) /\ m \in Memory /\ Len(s) \in Nat
  BY ShapeIs, LenProperties
<1> HIDE DEF s
<1>2. Len(s) # 0 /\ ret' = m.item[s[1]].data
  BY <1>1, ListRemoveHeadIs
<1>3. PICK t : /\ Moved(K, LIST, t) /\ Removed(t, s, 1)
               /\ \A b \in Addr \ {s[1]} : SameData(m, m', b)
  BY <1>1, ListRemoveHeadIs
<1>4. MapHeld' = MapHeld /\ RingHeld' = RingHeld
  BY <1>3, IdsAre, MovedElse
<1>5. ListHeld = DataOver(m, s) /\ ListHeld' = DataOver(m', t)
  BY <1>1, <1>3, MovedHere
<1>6. QueueHeld' = QueueHeld
  BY DEF ListRemoveHead, queueVars, QueueHeld
<1>7. m' \in Memory /\ t \in Seq(Addr)
  BY <1>3, IdsAre, MovedIs
<1> DEFINE v == DataOver(m, s)
           w == DataOver(m', t)
<1>8. v = DataOver(m, s) /\ w = DataOver(m', t) /\ 1 \in 1 .. Len(s)
  BY <1>1, <1>2
<1> HIDE DEF v, w
<1>9. \A i \in 1 .. Len(s) : i # 1 => SameData(m, m', s[i])
  <2>1. \A i \in 1 .. Len(s) : i # 1 => s[i] \in Addr \ {s[1]}
    BY <1>1, <1>8, ElementOfSeq DEF Distinct
  <2> QED
    BY <1>3, <2>1
<1>10. w \in Seq(Contents) /\ Removed(w, v, 1)
  BY <1>1, <1>3, <1>7, <1>8, <1>9, DataRemoved
<1>11. /\ v \in Seq(Contents) /\ Len(v) = Len(s)
       /\ \A i \in 1 .. Len(s) : v[i] = m.item[s[i]].data
  BY <1>1, <1>8, DataOverIs
<1>12. v # << >>
  BY <1>2, <1>11
<1>13. w = Tail(v)
  <2>1. Tail(v) \in Seq(Contents) /\ Removed(Tail(v), v, 1)
    <3>1. /\ Tail(v) \in Seq(Contents) /\ Len(Tail(v)) = Len(v) - 1
          /\ \A i \in 1 .. Len(Tail(v)) : Tail(v)[i] = v[i + 1]
      BY <1>11, <1>12, HeadTailProperties
    <3> QED
      BY <3>1 DEF Removed
  <2> QED
    BY <1>10, <1>11, <2>1, RemovedSame
<1>14. Head(v) = m.item[s[1]].data
  BY <1>8, <1>11, <1>12
<1>15. ListHeld = v /\ ListHeld' = w
  BY <1>5, <1>8
<1>16. C!Pop
  BY <1>2, <1>12, <1>13, <1>14, <1>15 DEF C!Pop
<1>17. C!ListNext
  BY <1>4, <1>6, <1>16 DEF C!ListNext
<1> QED
  BY <1>17 DEF C!Next

TailIs(u, s) == Len(u) = Len(s) - 1 /\ \A i \in 1 .. Len(u) : u[i] = s[i + 1]
IsTail(u, s) == u = Tail(s)
Before(j, p) == j = p - 1

LEMMA TailInserted ==
    ASSUME NEW s \in Seq(Addr), Len(s) # 0, NEW p \in 2 .. Len(s) + 1, NEW a,
           NEW t \in Seq(Addr), Inserted(t, s, p, a), NEW u, IsTail(u, s), NEW w, IsTail(w, t),
           NEW q, Before(q, p)
    PROVE  /\ q \in 1 .. Len(u) + 1 /\ u \in Seq(Addr) /\ w \in Seq(Addr)
           /\ Inserted(w, u, q, a) /\ TailIs(u, s)
<1>1. Len(s) \in Nat /\ Len(t) = Len(s) + 1 /\ s # << >> /\ t # << >>
  BY LenProperties, EmptySeq DEF Inserted
<1>2. u \in Seq(Addr) /\ Len(u) = Len(s) - 1 /\ \A i \in 1 .. Len(u) : u[i] = s[i + 1]
  BY <1>1, HeadTailProperties DEF IsTail
<1>3. w \in Seq(Addr) /\ Len(w) = Len(t) - 1 /\ \A i \in 1 .. Len(w) : w[i] = t[i + 1]
  BY <1>1, HeadTailProperties DEF IsTail
<1>4. q = p - 1 /\ q \in 1 .. Len(u) + 1
  BY <1>1, <1>2 DEF Before
<1>5. Inserted(w, u, q, a)
  <2>1. Len(w) = Len(u) + 1
    BY <1>1, <1>2, <1>3
  <2>2. ASSUME NEW i \in 1 .. Len(u) + 1
        PROVE  w[i] = IF i < q THEN u[i] ELSE IF i = q THEN a ELSE u[i - 1]
    <3>1. i + 1 \in 1 .. Len(s) + 1 /\ w[i] = t[i + 1]
      BY <1>1, <1>2, <1>3
    <3>2. t[i + 1] = IF i + 1 < p THEN s[i + 1] ELSE IF i + 1 = p THEN a ELSE s[(i + 1) - 1]
      BY <3>1 DEF Inserted
    <3>3. CASE i < q
      <4>1. i \in 1 .. Len(u) /\ u[i] = s[i + 1] /\ i + 1 < p
        BY <1>1, <1>2, <1>4, <3>3
      <4> QED
        BY <3>1, <3>2, <3>3, <4>1
    <3>4. CASE i = q
      BY <1>1, <1>4, <3>1, <3>2, <3>4
    <3>5. CASE i > q
      <4>1. i - 1 \in 1 .. Len(u) /\ u[i - 1] = s[(i - 1) + 1] /\ (i - 1) + 1 = i
            /\ (i + 1) - 1 = i /\ i + 1 > p
        BY <1>1, <1>2, <1>4, <3>5
      <4> QED
        BY <1>1, <1>4, <3>1, <3>2, <3>5, <4>1
    <3> QED
      BY <1>1, <1>4, <3>3, <3>4, <3>5
  <2> QED
    BY <2>1, <2>2 DEF Inserted
<1> QED
  BY <1>2, <1>3, <1>4, <1>5 DEF TailIs

LEMMA TailRemoved ==
    ASSUME NEW s \in Seq(Addr), NEW p \in 2 .. Len(s),
           NEW t \in Seq(Addr), Removed(t, s, p), NEW u, IsTail(u, s), NEW w, IsTail(w, t),
           NEW q, Before(q, p)
    PROVE  /\ q \in 1 .. Len(u) /\ u \in Seq(Addr) /\ w \in Seq(Addr)
           /\ Removed(w, u, q) /\ TailIs(u, s)
<1>1. Len(s) \in Nat /\ Len(t) = Len(s) - 1 /\ s # << >> /\ t # << >>
  BY LenProperties, EmptySeq DEF Removed
<1>2. u \in Seq(Addr) /\ Len(u) = Len(s) - 1 /\ \A i \in 1 .. Len(u) : u[i] = s[i + 1]
  BY <1>1, HeadTailProperties DEF IsTail
<1>3. w \in Seq(Addr) /\ Len(w) = Len(t) - 1 /\ \A i \in 1 .. Len(w) : w[i] = t[i + 1]
  BY <1>1, HeadTailProperties DEF IsTail
<1>4. q = p - 1 /\ q \in 1 .. Len(u)
  BY <1>1, <1>2 DEF Before
<1>5. Removed(w, u, q)
  <2>1. Len(w) = Len(u) - 1
    BY <1>1, <1>2, <1>3
  <2>2. ASSUME NEW i \in 1 .. Len(u) - 1 PROVE w[i] = IF i < q THEN u[i] ELSE u[i + 1]
    <3>1. i + 1 \in 1 .. Len(s) - 1 /\ w[i] = t[i + 1]
      BY <1>1, <1>2, <1>3
    <3>2. t[i + 1] = IF i + 1 < p THEN s[i + 1] ELSE s[(i + 1) + 1]
      BY <3>1 DEF Removed
    <3>3. i \in 1 .. Len(u) /\ u[i] = s[i + 1] /\ i + 1 \in 1 .. Len(u) /\ u[i + 1] = s[(i + 1) + 1]
          /\ (i < q <=> i + 1 < p)
      BY <1>1, <1>2, <1>4
    <3> QED
      BY <3>1, <3>2, <3>3
  <2> QED
    BY <2>1, <2>2 DEF Removed
<1> QED
  BY <1>2, <1>3, <1>4, <1>5 DEF TailIs

\* The data of the circular list, with an item more ...
LEMMA RingInserted ==
    ASSUME NEW x, NEW y, NEW s, NEW t, NEW p, NEW a, Longer(x, y, s, t, p, a), p # 1, Len(s) # 0,
           NEW d, y.item[a].data = d, NEW u, IsTail(u, s), NEW z, IsTail(z, t),
           NEW v, v = DataOver(x, u), NEW w, w = DataOver(y, z)
    PROVE  \E j \in 1 .. Len(v) + 1 :
             Before(j, p) /\ w \in Seq(Contents) /\ Inserted(w, v, j, d) /\ w = InsertAt(v, j, d)
<1> DEFINE j == p - 1
<1>0. Before(j, p)
  BY DEF Before
<1> HIDE DEF j
<1>1. /\ x \in Memory /\ y \in Memory /\ s \in Seq(Addr) /\ t \in Seq(Addr) /\ a \in Addr
      /\ Len(s) \in Nat /\ p \in 2 .. Len(s) + 1 /\ Inserted(t, s, p, a)
      /\ \A i \in 1 .. Len(s) : SameData(x, y, s[i])
  BY LenProperties DEF Longer
<1>2. /\ j \in 1 .. Len(u) + 1 /\ u \in Seq(Addr) /\ z \in Seq(Addr)
      /\ Inserted(z, u, j, a) /\ TailIs(u, s)
  BY <1>0, <1>1, TailInserted
<1>3. \A i \in 1 .. Len(u) : SameData(x, y, u[i])
  <2> SUFFICES ASSUME NEW i \in 1 .. Len(u) PROVE SameData(x, y, u[i])
    OBVIOUS
  <2>1. i + 1 \in 1 .. Len(s) /\ u[i] = s[i + 1]
    BY <1>0, <1>1, <1>2, LenProperties DEF TailIs, Before
  <2> QED
    BY <1>1, <2>1
<1>4. w \in Seq(Contents) /\ Inserted(w, v, j, d) /\ d \in Contents
  <2>1. Longer(x, y, u, z, j, a)
    BY <1>1, <1>2, <1>3 DEF Longer
  <2> QED
    BY <2>1, DataInserted
<1>5. v \in Seq(Contents) /\ Len(v) = Len(u)
  BY <1>1, <1>2, DataOverIs
<1> DEFINE r == InsertAt(v, j, d)
<1>6. r = InsertAt(v, j, d) /\ j \in 1 .. Len(v) + 1
  BY <1>2, <1>5
<1> HIDE DEF r
<1>7. r \in Seq(Contents) /\ Inserted(r, v, j, d)
  BY <1>4, <1>5, <1>6, InsertAtIs
<1>8. w = r
  BY <1>4, <1>5, <1>7, InsertedSame
<1> QED
  BY <1>0, <1>4, <1>6, <1>8

LeftOver(w, v, j, x, s, p) ==
    /\ Removed(w, v, j) /\ w = RemoveAt(v, j)
    /\ v[j] = x.item[s[p]].data /\ Len(v) = Len(s) - 1

\* ... or an item less.
LEMMA RingRemoved ==
    ASSUME NEW x \in Memory, NEW y \in Memory, NEW s \in Seq(Addr), Distinct(s),
           NEW t \in Seq(Addr), NEW p \in 2 .. Len(s), Removed(t, s, p),
           \A b \in Addr \ {s[p]} : SameData(x, y, b),
           NEW u, IsTail(u, s), NEW z, IsTail(z, t),
           NEW v, v = DataOver(x, u), NEW w, w = DataOver(y, z)
    PROVE  \E j \in 1 .. Len(v) : LeftOver(w, v, j, x, s, p)
<1> DEFINE j == p - 1
<1>0. Before(j, p)
  BY DEF Before
<1> HIDE DEF j
<1>2. /\ j \in 1 .. Len(u) /\ u \in Seq(Addr) /\ z \in Seq(Addr)
      /\ Removed(z, u, j) /\ TailIs(u, s)
  BY <1>0, TailRemoved
<1>3. \A i \in 1 .. Len(u) : i # j => SameData(x, y, u[i])
  <2> SUFFICES ASSUME NEW i \in 1 .. Len(u), i # j PROVE SameData(x, y, u[i])
    OBVIOUS
  <2>1. i + 1 \in 1 .. Len(s) /\ u[i] = s[i + 1] /\ i + 1 # p /\ p \in 1 .. Len(s)
    BY <1>0, <1>2, LenProperties DEF TailIs, Before
  <2>2. s[i + 1] \in Addr \ {s[p]}
    BY <2>1, ElementOfSeq DEF Distinct
  <2> QED
    BY <2>1, <2>2
<1>4. w \in Seq(Contents) /\ Removed(w, v, j)
  BY <1>2, <1>3, DataRemoved
<1>5. /\ v \in Seq(Contents) /\ Len(v) = Len(u)
      /\ \A i \in 1 .. Len(u) : v[i] = x.item[u[i]].data
  BY <1>2, DataOverIs
<1> DEFINE r == RemoveAt(v, j)
<1>6. r = RemoveAt(v, j) /\ j \in 1 .. Len(v)
  BY <1>2, <1>5
<1> HIDE DEF r
<1>7. r \in Seq(Contents) /\ Removed(r, v, j)
  BY <1>5, <1>6, RemoveAtIs
<1>8. w = r
  BY <1>4, <1>5, <1>7, RemovedSame
<1>9. v[j] = x.item[s[p]].data
  <2>1. u[j] = s[j + 1] /\ j + 1 = p
    BY <1>0, <1>2 DEF TailIs, Before
  <2> QED
    BY <1>2, <1>5, <2>1
<1>10. Len(v) = Len(s) - 1
  BY <1>2, <1>5 DEF TailIs
<1> QED
  BY <1>4, <1>6, <1>8, <1>9, <1>10 DEF LeftOver

\* What a change of the circular list shows
LEMMA RingShown ==
    ASSUME NEW K, Shape(K), UNCHANGED <<table, listVars, queueVars>>, ret' = Null,
           NEW t, Moved(K, RING, t), NEW v, v = RingHeld, NEW w, w = RingHeld',
           \/ \E j \in 1 .. Len(v) + 1, d \in Data : w = InsertAt(v, j, d)
           \/ \E j \in 1 .. Len(v) : w = RemoveAt(v, j)
           \/ \E i, j \in 1 .. Len(v) : w = InsertAt(RemoveAt(v, i), j, v[i])
    PROVE  C!Next
<1>1. MapHeld' = MapHeld /\ ListHeld' = ListHeld
  BY IdsAre, MovedElse
<1>2. QueueHeld' = QueueHeld
  BY DEF queueVars, QueueHeld
<1>3. C!Edit
  BY DEF C!Edit, C!InsertAt, C!RemoveAt, InsertAt, RemoveAt
<1>4. C!SeqNext
  BY <1>1, <1>2, <1>3 DEF C!SeqNext
<1> QED
  BY <1>4 DEF C!Next

LEMMA RingViews ==
    ASSUME NEW K, Shape(K), NEW s, s = K[RING], NEW t, Moved(K, RING, t),
           NEW v, v = RingHeld, NEW w, w = RingHeld'
    PROVE  /\ m \in Memory /\ s \in Seq(Addr) /\ Distinct(s) /\ Used(m, s) /\ Len(s) # 0
           /\ m' \in Memory /\ t \in Seq(Addr)
           /\ \E a : IsTail(a, s) /\ v = DataOver(m, a)
           /\ \E b : IsTail(b, t) /\ w = DataOver(m', b)
<1>1. m \in Memory /\ s \in Seq(Addr) /\ Distinct(s) /\ Used(m, s) /\ Len(s) # 0
  BY ShapeIs DEF RingOk
<1>2. m' \in Memory /\ t \in Seq(Addr)
  BY IdsAre, MovedIs
<1>3. v = DataOver(m, Tail(s)) /\ w = DataOver(m', Tail(t))
  BY MovedHere
<1> QED
  BY <1>1, <1>2, <1>3 DEF IsTail

LEMMA ClistInsertSeq ==
    ASSUME NEW K, Shape(K), UNCHANGED <<table, listVars, queueVars>>, ret' = Null,
           NEW at \in Items \cup {Sentry}, NEW a \in m.free, NEW d \in Data,
           m' \in {clist_append(m, at, a, d), clist_prepend(m, at, a, d)}
    PROVE  C!Next
<1> DEFINE s == K[RING]
           v == RingHeld
           w == RingHeld'
<1>1. s = K[RING] /\ v = RingHeld /\ w = RingHeld'
  OBVIOUS
<1> HIDE DEF s, v, w
<1>2. \E p \in 2 .. Len(s) + 1 : \E t :
        /\ Moved(K, RING, t) /\ Inserted(t, s, p, a) /\ m'.item[a].data = d
        /\ \A b \in Addr \ {a} : SameData(m, m', b)
  BY <1>1, ClistInsertIs
<1>3. PICK p, t :
        /\ p \in 2 .. Len(s) + 1
        /\ Moved(K, RING, t) /\ Inserted(t, s, p, a) /\ m'.item[a].data = d
        /\ \A b \in Addr \ {a} : SameData(m, m', b)
  BY <1>2
<1>4. /\ m \in Memory /\ s \in Seq(Addr) /\ Used(m, s) /\ Len(s) # 0
      /\ m' \in Memory /\ t \in Seq(Addr)
      /\ \E u : IsTail(u, s) /\ v = DataOver(m, u)
      /\ \E z : IsTail(z, t) /\ w = DataOver(m', z)
  BY <1>1, <1>3, RingViews
<1>5. PICK u, z : IsTail(u, s) /\ v = DataOver(m, u) /\ IsTail(z, t) /\ w = DataOver(m', z)
  BY <1>4
<1>6. a \in Addr /\ \A i \in 1 .. Len(s) : SameData(m, m', s[i])
  <2>1. a \in Addr
    BY <1>4 DEF Memory
  <2>2. \A i \in 1 .. Len(s) : s[i] \in Addr \ {a}
    BY <1>4, ElementOfSeq DEF Used
  <2> QED
    BY <1>3, <2>1, <2>2
<1>7. \E j \in 1 .. Len(v) + 1 : w = InsertAt(v, j, d)
  <2>1. Longer(m, m', s, t, p, a) /\ p # 1
    BY <1>3, <1>4, <1>6, LenProperties DEF Longer
  <2>2. Len(s) # 0 /\ m'.item[a].data = d
    BY <1>3, <1>4
  <2> QED
    BY <1>5, <2>1, <2>2, RingInserted
<1> QED
  BY <1>1, <1>3, <1>7, RingShown

LEMMA ClistDelinkItemSeq ==
    ASSUME NEW K, Shape(K), UNCHANGED <<table, listVars, queueVars>>, ret' = Null,
           NEW a \in Items, m' = clist_delinkitem(m, a)
    PROVE  C!Next
<1> DEFINE s == K[RING]
           v == RingHeld
           w == RingHeld'
<1>1. s = K[RING] /\ v = RingHeld /\ w = RingHeld'
  OBVIOUS
<1> HIDE DEF s, v, w
<1>2. \E p \in 2 .. Len(s) : \E t :
        Moved(K, RING, t) /\ Removed(t, s, p) /\ \A b \in Addr \ {s[p]} : SameData(m, m', b)
  BY <1>1, ClistDelinkItemIs
<1>3. PICK p, t :
        /\ p \in 2 .. Len(s) /\ Moved(K, RING, t) /\ Removed(t, s, p)
        /\ \A b \in Addr \ {s[p]} : SameData(m, m', b)
  BY <1>2
<1>4. /\ m \in Memory /\ s \in Seq(Addr) /\ Distinct(s)
      /\ m' \in Memory /\ t \in Seq(Addr)
      /\ \E u : IsTail(u, s) /\ v = DataOver(m, u)
      /\ \E z : IsTail(z, t) /\ w = DataOver(m', z)
  BY <1>1, <1>3, RingViews
<1>5. PICK u, z : IsTail(u, s) /\ v = DataOver(m, u) /\ IsTail(z, t) /\ w = DataOver(m', z)
  BY <1>4
<1>6. \E j \in 1 .. Len(v) : LeftOver(w, v, j, m, s, p)
  BY <1>3, <1>4, <1>5, RingRemoved
<1>7. \E j \in 1 .. Len(v) : w = RemoveAt(v, j)
  BY <1>6 DEF LeftOver
<1> QED
  BY <1>1, <1>3, <1>7, RingShown

LEMMA ClistMoveItemSeq ==
    ASSUME NEW K, Shape(K), UNCHANGED <<table, listVars, queueVars>>, ret' = Null,
           NEW to \in Items \cup {Sentry}, NEW from \in Items, to # from,
           m' = clist_moveitem(m, to, from)
    PROVE  C!Next
<1> DEFINE s == K[RING]
           v == RingHeld
           w == RingHeld'
<1>1. s = K[RING] /\ v = RingHeld /\ w = RingHeld'
  OBVIOUS
<1> HIDE DEF s, v, w
<1>2. \E p \in 2 .. Len(s), j \in 2 .. Len(s) : \E r, t :
        /\ Moved(K, RING, t) /\ r \in Seq(Addr)
        /\ Removed(r, s, p) /\ Inserted(t, r, j, s[p])
        /\ \A b \in Addr : SameData(m, m', b)
  BY <1>1, ClistMoveItemIs
<1>3. PICK p, j, r, t :
        /\ p \in 2 .. Len(s) /\ j \in 2 .. Len(s)
        /\ Moved(K, RING, t) /\ r \in Seq(Addr)
        /\ Removed(r, s, p) /\ Inserted(t, r, j, s[p])
        /\ \A b \in Addr : SameData(m, m', b)
  BY <1>2
<1>4. /\ m \in Memory /\ s \in Seq(Addr) /\ Distinct(s) /\ Len(s) # 0
      /\ m' \in Memory /\ t \in Seq(Addr)
      /\ \E u : IsTail(u, s) /\ v = DataOver(m, u)
      /\ \E z : IsTail(z, t) /\ w = DataOver(m', z)
  BY <1>1, <1>3, RingViews
<1>5. PICK u, z : IsTail(u, s) /\ v = DataOver(m, u) /\ IsTail(z, t) /\ w = DataOver(m', z)
  BY <1>4
<1> DEFINE c == Tail(r)
           q == DataOver(m, c)
           b == s[p]
           d == m.item[b].data
<1>6. IsTail(c, r) /\ q = DataOver(m, c) /\ b = s[p] /\ d = m.item[b].data
  BY DEF IsTail
<1> HIDE DEF c, q, b, d
<1>7. Len(s) \in Nat /\ Len(r) = Len(s) - 1 /\ p \in 1 .. Len(s)
  BY <1>3, <1>4, LenProperties DEF Removed
<1> DEFINE y == m
<1>8. y \in Memory /\ q = DataOver(y, c) /\ \A e \in Addr \ {s[p]} : SameData(m, y, e)
  BY <1>4, <1>6 DEF SameData
<1> HIDE DEF y
<1>9. \E i \in 1 .. Len(v) : LeftOver(q, v, i, m, s, p)
  BY <1>3, <1>4, <1>5, <1>6, <1>8, RingRemoved
<1>10. PICK i \in 1 .. Len(v) :
         /\ q = RemoveAt(v, i) /\ Removed(q, v, i) /\ v[i] = d /\ Len(v) = Len(s) - 1
  BY <1>6, <1>9 DEF LeftOver
<1>11. b \in Addr /\ m'.item[b].data = d /\ \A k \in 1 .. Len(r) : SameData(m, m', r[k])
  <2>1. b \in Addr
    BY <1>4, <1>6, <1>7, ElementOfSeq
  <2>2. \A k \in 1 .. Len(r) : r[k] \in Addr
    BY <1>3, ElementOfSeq
  <2>3. m'.item[b].data = d
    BY <1>3, <1>6, <2>1 DEF SameData
  <2> QED
    BY <1>3, <2>1, <2>2, <2>3
<1>12. j \in 2 .. Len(r) + 1 /\ Inserted(t, r, j, b) /\ Len(r) # 0
  BY <1>3, <1>6, <1>7
<1>13. \E k \in 1 .. Len(q) + 1 : w = InsertAt(q, k, d)
  <2>1. Longer(m, m', r, t, j, b) /\ j # 1
    BY <1>3, <1>4, <1>11, <1>12, LenProperties DEF Longer
  <2> QED
    BY <1>5, <1>6, <1>11, <1>12, <2>1, RingInserted
<1>14. Len(q) + 1 = Len(v)
  BY <1>7, <1>10 DEF Removed
<1>15. \E k \in 1 .. Len(v) : w = InsertAt(RemoveAt(v, i), k, v[i])
  BY <1>10, <1>13, <1>14
<1> QED
  BY <1>1, <1>3, <1>15, RingShown

-----------------------------------------------------------------------------
(* The priority queue is a bag whose least item comes first. *)

With(q, k) == {i \in 1 .. Len(q) : q[i].key = k}

LEMMA BijectionIs ==
    ASSUME NEW S, NEW T, NEW f \in [S -> T], \A i, j \in S : f[i] = f[j] => i = j,
           \A t \in T : \E i \in S : f[i] = t
    PROVE  ExistsBijection(S, T)
<1>1. f \in Bijection(S, T)
  BY DEF Bijection, Injection, Surjection, IsInjective
<1> QED
  BY <1>1 DEF ExistsBijection

LEMMA WithFinite ==
    ASSUME NEW q \in Seq(QItem), NEW k
    PROVE  IsFiniteSet(With(q, k)) /\ Cardinality(With(q, k)) \in Nat
<1>1. Len(q) \in Nat
  BY LenProperties
<1> DEFINE N == Len(q)
           S == With(q, k)
<1>2. IsFiniteSet(1 .. N)
  BY <1>1, FS_Interval
<1>3. S \in SUBSET (1 .. N)
  BY DEF With
<1> HIDE DEF S, N
<1>4. IsFiniteSet(S)
  BY <1>2, <1>3, FS_Subset
<1>5. Cardinality(S) \in Nat
  BY <1>4, FS_CardinalityType
<1> QED
  BY <1>4, <1>5 DEF S

LEMMA WithPerm ==
    ASSUME NEW r \in Seq(QItem), NEW y, Perm(y, r), NEW k
    PROVE  Cardinality(With(y, k)) = Cardinality(With(r, k))
<1> DEFINE D == 1 .. Len(r)
           S == With(y, k)
           T == With(r, k)
<1>1. PICK f \in Bijection(D, D) : \A i \in D : y[i] = r[f[i]]
  BY DEF Perm
<1>2. y \in Seq(QItem) /\ Len(y) = Len(r)
  BY DEF Perm
<1>3. f \in [D -> D] /\ (\A i, j \in D : f[i] = f[j] => i = j) /\ (\A t \in D : \E i \in D : f[i] = t)
  BY DEF Bijection, Injection, Surjection, IsInjective
<1>4. (\A i : i \in S <=> i \in D /\ y[i].key = k) /\ (\A i : i \in T <=> i \in D /\ r[i].key = k)
  BY <1>2 DEF With
<1> HIDE DEF D, S, T
<1> DEFINE g == [i \in S |-> f[i]]
<1>5. g \in [S -> T]
  BY <1>1, <1>3, <1>4
<1>6. \A i, j \in S : g[i] = g[j] => i = j
  BY <1>3, <1>4
<1>7. \A t \in T : \E i \in S : g[i] = t
  <2> SUFFICES ASSUME NEW t \in T PROVE \E i \in S : g[i] = t
    OBVIOUS
  <2>1. PICK i \in D : f[i] = t
    BY <1>3, <1>4
  <2>2. i \in S
    BY <1>1, <1>4, <2>1
  <2> QED
    BY <2>1, <2>2
<1> HIDE DEF g
<1>8. ExistsBijection(S, T)
  BY <1>5, <1>6, <1>7, BijectionIs
<1>9. IsFiniteSet(S)
  BY <1>2, WithFinite DEF S
<1>10. Cardinality(T) = Cardinality(S)
  BY <1>8, <1>9, FS_Bijection
<1> QED
  BY <1>10 DEF S, T

LEMMA WithAppended ==
    ASSUME NEW q \in Seq(QItem), NEW e, NEW r, Appended(r, q, e), NEW k
    PROVE  Cardinality(With(r, k)) = Cardinality(With(q, k)) + IF e.key = k THEN 1 ELSE 0
<1> DEFINE n == Len(q) + 1
           S == With(q, k)
           T == With(r, k)
<1>1. /\ Len(q) \in Nat /\ Len(r) = n /\ r[n] = e /\ n \notin 1 .. Len(q)
      /\ \A i \in 1 .. Len(q) : r[i] = q[i]
  BY LenProperties DEF Appended
<1>2. \A i : i \in 1 .. n <=> i \in 1 .. Len(q) \/ i = n
  BY <1>1
<1>3. S = {i \in 1 .. Len(q) : q[i].key = k} /\ T = {i \in 1 .. n : r[i].key = k}
  BY <1>1 DEF With
<1>4. IsFiniteSet(S) /\ Cardinality(S) \in Nat
  BY WithFinite
<1> HIDE DEF n, S, T
<1>5. CASE e.key = k
  <2>1. T = S \cup {n} /\ n \notin S
    BY <1>1, <1>2, <1>3, <1>5
  <2>2. Cardinality(S \cup {n}) = Cardinality(S) + 1
    BY <1>4, <2>1, FS_AddElement
  <2> QED
    BY <1>5, <2>1, <2>2 DEF S, T
<1>6. CASE e.key # k
  <2>1. T = S
    BY <1>1, <1>2, <1>3, <1>6
  <2> QED
    BY <1>4, <1>6, <2>1 DEF S, T
<1> QED
  BY <1>5, <1>6

LEMMA WithBeheaded ==
    ASSUME NEW q \in Seq(QItem), Len(q) # 0, NEW r, Beheaded(r, q), NEW k
    PROVE  Cardinality(With(r, k)) = Cardinality(With(q, k)) - IF q[1].key = k THEN 1 ELSE 0
<1> DEFINE n == Len(q)
           S == With(r, k)
           Q == With(q, k)
           T == Q \ {1}
           D == 1 .. n - 1
<1>1. n \in Nat /\ n # 0
  BY LenProperties
<1>2. /\ r \in Seq(QItem)
      /\ \A i \in D : r[i] = IF i = 1 THEN q[n] ELSE q[i]
      /\ \A i : i \in S <=> i \in D /\ r[i].key = k
      /\ \A i : i \in Q <=> i \in 1 .. n /\ q[i].key = k
  BY DEF Beheaded, With
<1> DEFINE g == [i \in S |-> IF i = 1 THEN n ELSE i]
<1> HIDE DEF n, S, Q
<1>3. g \in [S -> T]
  BY <1>1, <1>2
<1>4. \A i, j \in S : g[i] = g[j] => i = j
  BY <1>1, <1>2
<1>5. \A t \in T : \E i \in S : g[i] = t
  <2> SUFFICES ASSUME NEW t \in T PROVE \E i \in S : g[i] = t
    OBVIOUS
  <2>1. t \in 1 .. n /\ q[t].key = k /\ t # 1
    BY <1>2
  <2>2. CASE t = n
    <3>1. 1 \in D
      BY <1>1, <2>1, <2>2
    <3>2. 1 \in S
      BY <1>2, <2>1, <2>2, <3>1
    <3> QED
      BY <2>2, <3>2
  <2>3. CASE t # n
    <3>1. t \in D
      BY <1>1, <2>1, <2>3
    <3>2. t \in S
      BY <1>2, <2>1, <3>1
    <3> QED
      BY <2>1, <3>2
  <2> QED
    BY <2>2, <2>3
<1> HIDE DEF g, T
<1>6. ExistsBijection(S, T)
  BY <1>3, <1>4, <1>5, BijectionIs
<1>7. IsFiniteSet(S)
  BY <1>2, WithFinite DEF S
<1>8. Cardinality(T) = Cardinality(S)
  BY <1>6, <1>7, FS_Bijection
<1>9. IsFiniteSet(Q) /\ Cardinality(Q) \in Nat
  BY WithFinite DEF Q
<1>10. Cardinality(T) = IF 1 \in Q THEN Cardinality(Q) - 1 ELSE Cardinality(Q)
  BY <1>9, FS_RemoveElement DEF T
<1>11. 1 \in Q <=> q[1].key = k
  BY <1>1, <1>2
<1>12. Cardinality(S) = Cardinality(Q) - IF q[1].key = k THEN 1 ELSE 0
  <2>1. CASE q[1].key = k
    BY <1>8, <1>9, <1>10, <1>11, <2>1
  <2>2. CASE q[1].key # k
    BY <1>8, <1>9, <1>10, <1>11, <2>2
  <2> QED
    BY <2>1, <2>2
<1> QED
  BY <1>12 DEF S, Q

\* The head of a heap has the least key.
LEMMA HeadLeast ==
    ASSUME NEW q \in Seq(QItem), Ordered(q), NEW i \in 1 .. Len(q)
    PROVE  q[1].key <= q[i].key
<1> DEFINE T == {j \in 1 .. Len(q) : ~ (q[1].key <= q[j].key)}
<1>1. Len(q) \in Nat
  BY LenProperties
<1>2. ASSUME T # {} PROVE FALSE
  <2>1. T \subseteq Nat
    OBVIOUS
  <2>2. PICK j \in T : \A k \in T : j <= k
    <3> HIDE DEF T
    <3> QED
      BY <1>2, <2>1, Least
  <2>3. j \in 1 .. Len(q) /\ ~ (q[1].key <= q[j].key)
    BY <2>2
  <2>4. q[1].key \in Nat /\ q[j].key \in Nat
    <3>1. 1 \in 1 .. Len(q)
      BY <1>1
    <3> QED
      BY <2>3, <3>1, ItemIs
  <2>5. j > 1 /\ j \in Nat /\ j \in 2 .. Len(q)
    BY <1>1, <2>3, <2>4
  <2> DEFINE h == j \div 2
  <2>6. h \in Nat /\ 1 <= h /\ h < j
    BY <2>5, Halves
  <2>7. q[h].key <= q[j].key
    BY <2>5 DEF Ordered
  <2> HIDE DEF h
  <2>8. h \in 1 .. Len(q)
    BY <1>1, <2>3, <2>6
  <2>9. q[h].key \in Nat
    BY <2>8, ItemIs
  <2>10. h \notin T
    BY <2>2, <2>5, <2>6
  <2>11. q[1].key <= q[h].key
    BY <2>8, <2>10
  <2> QED
    BY <2>3, <2>4, <2>7, <2>9, <2>11
<1> QED
  BY <1>2
LEMMA QueueHeldIs ==
    ASSUME NEW q \in Seq(QItem)
    PROVE  [k \in Keys |-> Cardinality({i \in DOMAIN q : q[i].key = k})]
             = [k \in Keys |-> Cardinality(With(q, k))]
<1>1. DOMAIN q = 1 .. Len(q)
  BY LenProperties
<1> QED
  BY <1>1 DEF With

LEMMA PqueueInsertBag ==
    ASSUME NEW K, Shape(K), NEW k \in Keys, PqueueInsert(k) PROVE C!Next
<1>1. ret' = Null /\ Moved(K, HEAP, Ats(queue'))
  BY QueuePutIs
<1>2. PICK a, r : Appended(r, queue, [key |-> k, at |-> a]) /\ Perm(queue', r)
  BY QueuePutIs
<1>3. MapHeld' = MapHeld /\ ListHeld' = ListHeld /\ RingHeld' = RingHeld
  BY <1>1, IdsAre, MovedElse
<1>4. queue \in Seq(QItem)
  BY ShapeIs
<1>5. r \in Seq(QItem) /\ queue' \in Seq(QItem)
  BY <1>2 DEF Perm, Appended
<1> DEFINE b == QueueHeld
           e == [key |-> k, at |-> a]
<1>6. /\ b = [j \in Keys |-> Cardinality(With(queue, j))]
      /\ QueueHeld' = [j \in Keys |-> Cardinality(With(queue', j))]
  BY <1>4, <1>5, QueueHeldIs DEF QueueHeld
<1>7. b = QueueHeld /\ e.key = k /\ Appended(r, queue, e)
  BY <1>2
<1> HIDE DEF b, e
<1>8. ASSUME NEW j \in Keys
      PROVE  Cardinality(With(queue', j)) = IF j = k THEN b[j] + 1 ELSE b[j]
  <2>1. Cardinality(With(queue', j)) = Cardinality(With(r, j))
    BY <1>2, <1>5, WithPerm
  <2>2. Cardinality(With(r, j)) = Cardinality(With(queue, j)) + IF e.key = j THEN 1 ELSE 0
    BY <1>4, <1>7, WithAppended
  <2>3. Cardinality(With(queue, j)) \in Nat
    BY <1>4, WithFinite
  <2>4. b[j] = Cardinality(With(queue, j))
    BY <1>6
  <2> QED
    BY <1>7, <2>1, <2>2, <2>3, <2>4
<1>9. QueueHeld' = [b EXCEPT ![k] = @ + 1]
  BY <1>6, <1>8
<1>10. C!Put(k)
  BY <1>1, <1>7, <1>9 DEF C!Put
<1>11. C!BagNext
  BY <1>3, <1>10 DEF C!BagNext
<1> QED
  BY <1>11 DEF C!Next

LEMMA PqueueExtractBag == ASSUME NEW K, Shape(K), PqueueExtract PROVE C!Next
<1> DEFINE k == queue[1].key
           b == QueueHeld
<1>1. Len(queue) # 0 /\ ret' = queue[1].key /\ Moved(K, HEAP, Ats(queue'))
  BY QueueTakeIs
<1>2. PICK r : Beheaded(r, queue) /\ Perm(queue', r)
  BY QueueTakeIs
<1>3. MapHeld' = MapHeld /\ ListHeld' = ListHeld /\ RingHeld' = RingHeld
  BY <1>1, IdsAre, MovedElse
<1>4. queue \in Seq(QItem) /\ Ordered(queue) /\ Len(queue) \in Nat
  BY ShapeIs, LenProperties
<1>5. r \in Seq(QItem) /\ queue' \in Seq(QItem)
  BY <1>2 DEF Perm, Beheaded
<1>6. /\ b = [j \in Keys |-> Cardinality(With(queue, j))]
      /\ QueueHeld' = [j \in Keys |-> Cardinality(With(queue', j))]
  BY <1>4, <1>5, QueueHeldIs DEF QueueHeld
<1>7. k \in Keys /\ k = queue[1].key /\ 1 \in 1 .. Len(queue)
  BY <1>1, <1>4, ItemIs
<1>8. b = QueueHeld
  OBVIOUS
<1> HIDE DEF b, k
<1>9. ASSUME NEW j \in Keys
      PROVE  /\ b[j] = Cardinality(With(queue, j))
             /\ IsFiniteSet(With(queue, j)) /\ b[j] \in Nat
  BY <1>4, <1>6, WithFinite
<1>10. ASSUME NEW j \in Keys
       PROVE  Cardinality(With(queue', j)) = IF j = k THEN b[j] - 1 ELSE b[j]
  <2>1. Cardinality(With(queue', j)) = Cardinality(With(r, j))
    BY <1>2, <1>5, WithPerm
  <2>2. Cardinality(With(r, j))
          = Cardinality(With(queue, j)) - IF queue[1].key = j THEN 1 ELSE 0
    BY <1>1, <1>2, <1>4, WithBeheaded
  <2> QED
    BY <1>7, <1>9, <2>1, <2>2
<1>11. QueueHeld' = [b EXCEPT ![k] = @ - 1]
  BY <1>6, <1>10
<1>12. b[k] > 0
  <2>1. 1 \in With(queue, k)
    BY <1>7 DEF With
  <2>2. Cardinality(With(queue, k)) # 0
    BY <1>7, <1>9, <2>1, FS_EmptySet
  <2> QED
    BY <1>7, <1>9, <2>2
<1>13. ASSUME NEW j \in Keys, b[j] > 0 PROVE k <= j
  <2>1. With(queue, j) # {}
    BY <1>9, <1>13, FS_EmptySet
  <2>2. PICK i \in 1 .. Len(queue) : queue[i].key = j
    BY <2>1 DEF With
  <2> QED
    BY <1>4, <1>7, <2>2, HeadLeast
<1>14. C!TakeLeast(k)
  BY <1>1, <1>7, <1>8, <1>11, <1>12, <1>13 DEF C!TakeLeast
<1>15. C!BagNext
  BY <1>3, <1>7, <1>14 DEF C!BagNext
<1> QED
  BY <1>15 DEF C!Next

-----------------------------------------------------------------------------
(* The refinement *)

LEMMA InitCollections == Init => C!Init
<1> SUFFICES ASSUME Init PROVE C!Init
  OBVIOUS
<1>1. PICK K : /\ Shape(K) /\ K[LIST] = << >> /\ K[RING] = <<Sentry>>
               /\ \A i \in Buckets : K[i] = << >>
  BY EmptyShape
<1>2. /\ MapHeld = MapOf(Pairs(m, K))
      /\ ListHeld = DataOver(m, K[LIST]) /\ RingHeld = DataOver(m, Tail(K[RING]))
  BY <1>1, Held
<1>3. Pairs(m, K) = {}
  <2> SUFFICES ASSUME NEW e \in Entries, Holds(m, K[HASHFN(e.key)], e) PROVE FALSE
    BY DEF Pairs
  <2>1. HASHFN(e.key) \in Buckets
    BY IdsAre DEF Entries
  <2>2. K[HASHFN(e.key)] = << >>
    BY <1>1, <2>1
  <2>3. Holds(m, << >>, e)
    BY <2>2
  <2> QED
    BY <2>3 DEF Holds
<1>4. MapHeld = << >>
  BY <1>2, <1>3, MapEmpty
<1>5. DataOver(m, << >>) = << >>
  BY DEF DataOver
<1>6. Tail(<<Sentry>>) = << >>
  OBVIOUS
<1>7. ListHeld = << >> /\ RingHeld = << >>
  BY <1>1, <1>2, <1>5, <1>6
<1>8. QueueHeld = [k \in Keys |-> 0]
  <2>1. queue = << >>
    BY DEF Init
  <2>2. ASSUME NEW k PROVE {i \in DOMAIN queue : queue[i].key = k} = {}
    BY <2>1
  <2> QED
    BY <2>2, FS_EmptySet DEF QueueHeld
<1>9. ret = Null
  BY DEF Init
<1> QED
  BY <1>4, <1>7, <1>8, <1>9 DEF C!Init

LEMMA NextCollections == Inv /\ [Next]_vars => [C!Next]_(C!vars)
<1> SUFFICES ASSUME NEW K, Shape(K), [Next]_vars PROVE [C!Next]_(C!vars)
  BY DEF Inv
<1>1. ASSUME NEW k \in Keys, NEW d \in Data, HashInsert(k, d) PROVE C!Next
  BY <1>1, HashInsertMap
<1>2. ASSUME NEW k \in Keys, HashRemove(k) PROVE C!Next
  BY <1>2, HashRemoveMap
<1>3. ASSUME NEW k \in Keys, HashFind(k) PROVE C!Next
  BY <1>3, HashFindMap
<1>4. ASSUME HashNuke PROVE C!Next
  BY <1>4, HashNukeMap
<1>5. ASSUME NEW d \in Data, ListAdd(d) PROVE C!Next
  BY <1>5, ListAddList
<1>6. ASSUME ListReverse PROVE C!Next
  BY <1>6, ListReverseList
<1>7. ASSUME ListRemoveHead PROVE C!Next
  BY <1>7, ListRemoveHeadList
<1>8. ASSUME ClistEdit PROVE C!Next
  <2>1. UNCHANGED <<table, listVars, queueVars>> /\ ret' = Null
    BY <1>8 DEF ClistEdit
  <2>2. ASSUME NEW at \in Items \cup {Sentry}, NEW a \in m.free, NEW d \in Data,
               m' \in {clist_append(m, at, a, d), clist_prepend(m, at, a, d)}
        PROVE  C!Next
    BY <2>1, <2>2, ClistInsertSeq
  <2>3. ASSUME NEW a \in Items, m' = clist_delinkitem(m, a) PROVE C!Next
    BY <2>1, <2>3, ClistDelinkItemSeq
  <2>4. ASSUME NEW to \in Items \cup {Sentry}, NEW from \in Items, to # from,
               m' = clist_moveitem(m, to, from)
        PROVE  C!Next
    BY <2>1, <2>4, ClistMoveItemSeq
  <2> QED
    BY <1>8, <2>2, <2>3, <2>4 DEF ClistEdit
<1>9. ASSUME NEW k \in Keys, PqueueInsert(k) PROVE C!Next
  BY <1>9, PqueueInsertBag
<1>10. ASSUME PqueueExtract PROVE C!Next
  BY <1>10, PqueueExtractBag
<1>11. ASSUME UNCHANGED vars PROVE UNCHANGED C!vars
  <2>1. /\ m' = m /\ table' = table /\ head' = head /\ queue' = queue /\ ret' = ret
    BY <1>11 DEF vars
  <2>2. MapHeld' = MapHeld /\ ListHeld' = ListHeld /\ RingHeld' = RingHeld
    BY <2>1 DEF MapHeld, Entered, ListHeld, RingHeld, DataOn
  <2>3. QueueHeld' = QueueHeld
    BY <2>1 DEF QueueHeld
  <2> QED
    BY <2>1, <2>2, <2>3 DEF C!vars
<1> QED
  BY <1>1, <1>2, <1>3, <1>4, <1>5, <1>6, <1>7, <1>8, <1>9, <1>10, <1>11 DEF Next

\* The hash table is a map, the lists are sequences and the priority queue is a
\* bag whose least item comes first: no operation on one container, whatever was
\* freed and allocated before, changes another or gives a wrong result, for any
\* number of items, keys and chains and any first capacity of the queue.
THEOREM Refinement == Spec => ImplementsCollections
<1>1. Spec => C!Init /\ [][C!Next]_(C!vars)
  BY InitCollections, NextCollections, Invariance, PTL DEF Spec
<1> QED
  BY <1>1 DEF ImplementsCollections, C!Spec
=============================================================================

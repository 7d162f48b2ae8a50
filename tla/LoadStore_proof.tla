-------------------------- MODULE LoadStore_proof ---------------------------
(***************************************************************************)
(* Loads and stores implement the stack of GuestStack, for every address   *)
(* space, every set of registers pushed and each of the four conventions.  *)
(***************************************************************************)
EXTENDS LoadStore, FiniteSetTheorems, SequenceTheorems, TLAPS

-----------------------------------------------------------------------------
(* Addresses *)

\* Division with remainder, and its uniqueness.
LEMMA Division ==
    ASSUME NEW n \in Nat \ {0}, NEW x \in Int
    PROVE  x % n \in 0 .. n - 1 /\ x = (x \div n) * n + (x % n) /\ x \div n \in Int
OBVIOUS

LEMMA Remainder ==
    ASSUME NEW n \in Nat \ {0}, NEW q \in Int, NEW m \in 0 .. n - 1, NEW x \in Int, x = q * n + m
    PROVE  x % n = m
OBVIOUS

\* A multiple of the size does not change a remainder.
SameRemainder(x, y) == x % AddrSize = y % AddrSize

LEMMA Multiple ==
    ASSUME NEW x \in Int, NEW q \in Int, NEW y \in Int, y = x + q * AddrSize
    PROVE  SameRemainder(y, x)
<1> AddrSize \in Nat \ {0}
  BY AddrAssumption
<1> DEFINE d == x \div AddrSize
           m == x % AddrSize
<1>1. m \in 0 .. AddrSize - 1 /\ x = d * AddrSize + m /\ d \in Int
  BY Division
<1> HIDE DEF d, m
<1>2. y = (d + q) * AddrSize + m /\ d + q \in Int
  BY <1>1
<1>3. y % AddrSize = m
  BY <1>1, <1>2, Remainder
<1> QED
  BY <1>3 DEF m, SameRemainder

\* Addresses are added up modulo the size of the address space.
LEMMA PlusIn == \A a, k \in Int : Plus(a, k) \in Val
BY AddrAssumption DEF Plus, Val

LEMMA PlusZero == \A a \in Val : Plus(a, 0) = a
BY AddrAssumption DEF Plus, Val

LEMMA PlusPlus ==
    ASSUME NEW a \in Int, NEW j \in Int, NEW k \in Int, NEW s, s = j + k
    PROVE  Plus(Plus(a, j), k) = Plus(a, s)
<1> AddrSize \in Nat \ {0}
  BY AddrAssumption
<1> DEFINE x == a + j
           q == x \div AddrSize
           m == x % AddrSize
           y == m + k
           z == a + (j + k)
<1>1. m \in 0 .. AddrSize - 1 /\ x = q * AddrSize + m /\ q \in Int
  <2> x \in Int
    OBVIOUS
  <2> HIDE DEF x
  <2> QED
    BY Division
<1>2. z = y + q * AddrSize /\ y \in Int /\ z \in Int
  <2> HIDE DEF q, m
  <2> QED
    BY <1>1
<1>3. SameRemainder(z, y)
  <2> HIDE DEF y, z
  <2> QED
    BY <1>1, <1>2, Multiple
<1> QED
  BY <1>3 DEF Plus, SameRemainder

\* Offsets closer than the size lead to different addresses.
LEMMA PlusApart ==
    ASSUME NEW a \in Int, NEW j \in Int, NEW k \in Int, Plus(a, j) = Plus(a, k),
           j - k < AddrSize, k - j < AddrSize
    PROVE  j = k
<1> AddrSize \in Nat \ {0}
  BY AddrAssumption
<1> DEFINE p == (a + j) \div AddrSize
           q == (a + k) \div AddrSize
           m == (a + j) % AddrSize
           x == a + j
           y == a + k
<1>1. /\ a + j = p * AddrSize + m /\ a + k = q * AddrSize + m
      /\ p \in Int /\ q \in Int /\ m \in Int
  <2> x \in Int /\ y \in Int /\ y % AddrSize = m
    BY DEF Plus
  <2> HIDE DEF x, y, m
  <2>1. /\ x % AddrSize \in 0 .. AddrSize - 1
        /\ x = (x \div AddrSize) * AddrSize + (x % AddrSize) /\ x \div AddrSize \in Int
    BY Division
  <2>2. /\ y % AddrSize \in 0 .. AddrSize - 1
        /\ y = (y \div AddrSize) * AddrSize + (y % AddrSize) /\ y \div AddrSize \in Int
    BY Division
  <2> QED
    BY <2>1, <2>2 DEF x, y, m
<1> HIDE DEF p, q, m
<1>2. j - k = (p - q) * AddrSize
  BY <1>1
<1>3. p - q = 0
  <2>1. CASE p - q >= 1
    <3>1. (p - q) * AddrSize >= AddrSize
      BY <1>1, <2>1
    <3> QED
      BY <1>2, <3>1
  <2>2. CASE p - q <= -1
    <3>1. (p - q) * AddrSize <= -AddrSize
      BY <1>1, <2>2
    <3> QED
      BY <1>2, <3>1
  <2> QED
    BY <1>1, <2>1, <2>2
<1> QED
  BY <1>2, <1>3

\* Going back by the difference.
LEMMA Back ==
    ASSUME NEW a \in Int, NEW h \in Val
    PROVE  (Plus(a, h) - a) % AddrSize = h /\ (a - Plus(a, -h)) % AddrSize = h
<1> AddrSize \in Nat \ {0} /\ h \in 0 .. AddrSize - 1
  BY AddrAssumption DEF Val
<1>1. (Plus(a, h) - a) % AddrSize = h
  <2> DEFINE x == a + h
             q == x \div AddrSize
             m == x % AddrSize
  <2>1. x = q * AddrSize + m /\ q \in Int /\ m \in Int
    <3> x \in Int
      OBVIOUS
    <3> HIDE DEF x
    <3> QED
      BY Division
  <2> HIDE DEF q, m
  <2>2. m - a = (-q) * AddrSize + h /\ -q \in Int /\ m - a \in Int
    BY <2>1
  <2>3. (m - a) % AddrSize = h
    BY <2>2, Remainder
  <2> QED
    BY <2>3 DEF m, Plus
<1>2. (a - Plus(a, -h)) % AddrSize = h
  <2> DEFINE x == a + (-h)
             q == x \div AddrSize
             m == x % AddrSize
  <2>1. x = q * AddrSize + m /\ q \in Int /\ m \in Int
    <3> x \in Int
      OBVIOUS
    <3> HIDE DEF x
    <3> QED
      BY Division
  <2> HIDE DEF q, m
  <2>2. a - m = q * AddrSize + h /\ a - m \in Int
    BY <2>1
  <2>3. (a - m) % AddrSize = h
    BY <2>1, <2>2, Remainder
  <2> QED
    BY <2>3 DEF m, Plus
<1> QED
  BY <1>1, <1>2

-----------------------------------------------------------------------------
(* The registers of a list, in the order of the loop *)

LEMMA Sixteen ==
    ASSUME NEW S, 0 \in S, \A k \in 0 .. 15 : k \in S => k + 1 \in S
    PROVE  \A k \in 0 .. 16 : k \in S
<1>1. 1 \in S /\ 2 \in S /\ 3 \in S /\ 4 \in S
  OBVIOUS
<1>2. 5 \in S /\ 6 \in S /\ 7 \in S /\ 8 \in S
  BY <1>1
<1>3. 9 \in S /\ 10 \in S /\ 11 \in S /\ 12 \in S
  BY <1>2
<1>4. 13 \in S /\ 14 \in S /\ 15 \in S /\ 16 \in S
  BY <1>3
<1> QED
  BY <1>1, <1>2, <1>3, <1>4

\* The registers transferred in the first k turns.
Before(L, u, k) == {j \in L : IF u THEN j < k ELSE j > 15 - k}

\* How many have been when register i has.
Rank(L, u, i) == Cardinality({j \in L : IF u THEN j <= i ELSE j >= i})

LEMMA PartOf ==
    ASSUME NEW L \in SUBSET (0 .. 15), NEW T \in SUBSET L
    PROVE  IsFiniteSet(T) /\ Cardinality(T) \in Nat /\ Cardinality(T) <= Cardinality(L)
<1>1. L \in SUBSET Nat /\ (\A i \in L : i <= 15) /\ 15 \in Nat
  OBVIOUS
<1>2. IsFiniteSet(L)
  BY <1>1, FS_BoundedSetOfNaturals
<1> QED
  BY <1>2, FS_Subset, FS_CardinalityType

\* The list is exhausted after sixteen turns.
LEMMA Turns ==
    ASSUME NEW L \in SUBSET (0 .. 15), NEW u \in BOOLEAN
    PROVE  Before(L, u, 0) = {} /\ Before(L, u, 16) = L
<1>1. \A j \in L : j \in 0 .. 15
  OBVIOUS
<1>2. \A j \in L : j >= 0 /\ ~(j < 0) /\ j < 16 /\ ~(j > 15 - 0) /\ j > 15 - 16
  BY <1>1
<1> QED
  BY <1>2, Zenon DEF Before

\* A turn adds the register it looks at, if it is in the list.
Added(L, u, k, i) ==
    /\ Before(L, u, k + 1) = Before(L, u, k) \cup {i} /\ i \notin Before(L, u, k)
    /\ Rank(L, u, i) = Cardinality(Before(L, u, k)) + 1
    /\ Cardinality(Before(L, u, k + 1)) = Cardinality(Before(L, u, k)) + 1

LEMMA Turn ==
    ASSUME NEW L \in SUBSET (0 .. 15), NEW u \in BOOLEAN, NEW k \in 0 .. 15,
           NEW i, i = Visited(k + 1, u)
    PROVE  /\ i \in 0 .. 15
           /\ i \notin L => Before(L, u, k + 1) = Before(L, u, k)
           /\ i \in L => Added(L, u, k, i)
<1>1. i = (IF u THEN k ELSE 15 - k) /\ i \in 0 .. 15
  BY DEF Visited
<1>2. \A j \in L : /\ (IF u THEN j < k + 1 ELSE j > 15 - (k + 1)) <=>
                        ((IF u THEN j < k ELSE j > 15 - k) \/ j = i)
                   /\ (IF u THEN j <= i ELSE j >= i) <=> (IF u THEN j < k + 1 ELSE j > 15 - (k + 1))
                   /\ j = i => ~ (IF u THEN j < k ELSE j > 15 - k)
  <2> SUFFICES ASSUME NEW j \in L
               PROVE  /\ (IF u THEN j < k + 1 ELSE j > 15 - (k + 1)) <=>
                           ((IF u THEN j < k ELSE j > 15 - k) \/ j = i)
                      /\ (IF u THEN j <= i ELSE j >= i) <=> (IF u THEN j < k + 1 ELSE j > 15 - (k + 1))
                      /\ j = i => ~ (IF u THEN j < k ELSE j > 15 - k)
    OBVIOUS
  <2>1. j \in Int
    OBVIOUS
  <2> QED
    BY <1>1, <2>1
<1>3. i \notin L => Before(L, u, k + 1) = Before(L, u, k)
  BY <1>2, Zenon DEF Before
<1>4. ASSUME i \in L
      PROVE  /\ Before(L, u, k + 1) = Before(L, u, k) \cup {i} /\ i \notin Before(L, u, k)
             /\ Rank(L, u, i) = Cardinality(Before(L, u, k + 1))
  <2>1. i \notin Before(L, u, k)
    BY <1>2, Zenon DEF Before
  <2>2. Before(L, u, k + 1) = Before(L, u, k) \cup {i}
    BY <1>2, <1>4, Zenon DEF Before
  <2>3. {j \in L : IF u THEN j <= i ELSE j >= i} = Before(L, u, k + 1)
    BY <1>2, Zenon DEF Before
  <2> QED
    BY <2>1, <2>2, <2>3 DEF Rank
<1>5. Before(L, u, k) \in SUBSET L
  BY DEF Before
<1>6. IsFiniteSet(Before(L, u, k))
  BY <1>5, PartOf
<1> QED
  BY <1>1, <1>3, <1>4, <1>6, FS_AddElement DEF Added

\* Ranks count from one.
LEMMA Ranked ==
    ASSUME NEW L \in SUBSET (0 .. 15), NEW u \in BOOLEAN, NEW k \in 0 .. 16,
           NEW j \in Before(L, u, k)
    PROVE  Rank(L, u, j) \in 1 .. Cardinality(Before(L, u, k))
<1> DEFINE T == {i \in L : IF u THEN i <= j ELSE i >= j}
           S == Before(L, u, k)
<1>1. S \in SUBSET (0 .. 15) /\ T \in SUBSET S /\ j \in T
  <2>1. S \in SUBSET L /\ j \in L
    BY DEF Before
  <2>2. \A i \in L : i \in 0 .. 15
    OBVIOUS
  <2>3. \A i \in L : (IF u THEN i <= j ELSE i >= j) => IF u THEN i < k ELSE i > 15 - k
    BY <2>1, <2>2 DEF Before
  <2>4. T \in SUBSET S
    BY <2>3, Zenon DEF Before
  <2>5. j \in T
    BY <2>1, <2>2
  <2> QED
    BY <2>1, <2>4, <2>5
<1>2. Rank(L, u, j) = Cardinality(T)
  BY DEF Rank
<1> HIDE DEF S, T
<1>3. IsFiniteSet(T) /\ Cardinality(T) \in Nat /\ Cardinality(T) <= Cardinality(S)
  BY <1>1, PartOf
<1>4. Cardinality(T) # 0
  BY <1>1, <1>3, FS_EmptySet
<1>5. Cardinality(S) \in Nat
  BY <1>1, PartOf
<1> QED
  BY <1>2, <1>3, <1>4, <1>5 DEF S

\* Each rank is some register's.
LEMMA RanksTaken ==
    ASSUME NEW L \in SUBSET (0 .. 15), NEW u \in BOOLEAN
    PROVE  \A v \in 1 .. Cardinality(L) : \E i \in L : Rank(L, u, i) = v
<1> DEFINE S == {k \in 0 .. 16 : \A v \in 1 .. Cardinality(Before(L, u, k)) :
                                  \E i \in L : Rank(L, u, i) = v}
<1>1. 0 \in S
  BY Turns, FS_EmptySet
<1>2. \A k \in 0 .. 15 : k \in S => k + 1 \in S
  <2> SUFFICES ASSUME NEW k \in 0 .. 15, k \in S,
                      NEW v \in 1 .. Cardinality(Before(L, u, k + 1))
               PROVE  \E i \in L : Rank(L, u, i) = v
    OBVIOUS
  <2> DEFINE i == Visited(k + 1, u)
  <2>1. Cardinality(Before(L, u, k)) \in Nat
    BY PartOf DEF Before
  <2>2. CASE i \in L
    <3>1. /\ Rank(L, u, i) = Cardinality(Before(L, u, k)) + 1
          /\ Cardinality(Before(L, u, k + 1)) = Cardinality(Before(L, u, k)) + 1
      BY <2>2, Turn DEF Added
    <3>2. v \in 1 .. Cardinality(Before(L, u, k)) \/ v = Rank(L, u, i)
      BY <2>1, <3>1
    <3> QED
      BY <2>2, <3>2
  <2>3. CASE i \notin L
    BY <2>3, Turn
  <2> QED
    BY <2>2, <2>3
<1> HIDE DEF S
<1>3. \A k \in 0 .. 16 : k \in S
  BY <1>1, <1>2, Sixteen
<1> QED
  BY <1>3, Turns DEF S

\* The first upwards is the last downwards.
LEMMA Opposite ==
    ASSUME NEW L \in SUBSET (0 .. 15), NEW u \in BOOLEAN, NEW i \in L
    PROVE  Rank(L, u, i) + Rank(L, ~u, i) = Cardinality(L) + 1
<1> DEFINE S == {j \in L : j <= i}
           T == {j \in L : j >= i}
<1>1. S \cup T = L /\ S \cap T = {i} /\ S \in SUBSET L /\ T \in SUBSET L
  <2>1. \A j \in L : /\ j <= i \/ j >= i
                     /\ (j <= i /\ j >= i) <=> j = i
    OBVIOUS
  <2> QED
    BY <2>1, Zenon
<1>2. IF u THEN Rank(L, u, i) = Cardinality(S) /\ Rank(L, ~u, i) = Cardinality(T)
      ELSE Rank(L, u, i) = Cardinality(T) /\ Rank(L, ~u, i) = Cardinality(S)
  <2>1. CASE u
    <3>1. {j \in L : IF u THEN j <= i ELSE j >= i} = S
          /\ {j \in L : IF ~u THEN j <= i ELSE j >= i} = T
      BY <2>1, Zenon
    <3> QED
      BY <2>1, <3>1, Zenon DEF Rank
  <2>2. CASE ~u
    <3>1. {j \in L : IF u THEN j <= i ELSE j >= i} = T
          /\ {j \in L : IF ~u THEN j <= i ELSE j >= i} = S
      BY <2>2, Zenon
    <3> QED
      BY <2>2, <3>1, Zenon DEF Rank
  <2> QED
    BY <2>1, <2>2
<1> HIDE DEF S, T
<1>3. /\ IsFiniteSet(S) /\ IsFiniteSet(T)
      /\ Cardinality(S) \in Nat /\ Cardinality(T) \in Nat /\ Cardinality(L) \in Nat
  BY <1>1, PartOf
<1>4. Cardinality(L) = Cardinality(S) + Cardinality(T) - 1
  <2>1. Cardinality(S \cup T) = Cardinality(S) + Cardinality(T) - Cardinality(S \cap T)
    BY <1>3, FS_Union
  <2>2. Cardinality({i}) = 1
    BY FS_Singleton
  <2> QED
    BY <1>1, <2>1, <2>2
<1> QED
  BY <1>2, <1>3, <1>4

-----------------------------------------------------------------------------
(* The loop *)

\* f tells what the first n turns leave.
IsLoop(f, l, p, u, L, s, n) ==
    f = [k \in 0 .. n |->
           IF k = 0 THEN s
           ELSE IF Visited(k, u) \in L THEN BdtStep(l, p, u, f[k - 1], Visited(k, u))
           ELSE f[k - 1]]

LEMMA LoopExists ==
    ASSUME NEW l, NEW p, NEW u, NEW L, NEW s
    PROVE  \E f : IsLoop(f, l, p, u, L, s, 16)
<1> DEFINE S == {n \in 0 .. 16 : \E f : IsLoop(f, l, p, u, L, s, n)}
<1>1. 0 \in S
  <2>1. IsLoop([k \in 0 .. 0 |-> s], l, p, u, L, s, 0)
    BY DEF IsLoop
  <2> QED
    BY <2>1
<1>2. \A n \in 0 .. 15 : n \in S => n + 1 \in S
  <2> SUFFICES ASSUME NEW n \in 0 .. 15, NEW f, IsLoop(f, l, p, u, L, s, n)
               PROVE  \E g : IsLoop(g, l, p, u, L, s, n + 1)
    OBVIOUS
  <2> DEFINE next == IF Visited(n + 1, u) \in L
                     THEN BdtStep(l, p, u, f[n], Visited(n + 1, u)) ELSE f[n]
             g == [k \in 0 .. n + 1 |-> IF k = n + 1 THEN next ELSE f[k]]
  <2>1. \A k \in 0 .. n + 1 :
          g[k] = IF k = 0 THEN s
                 ELSE IF Visited(k, u) \in L THEN BdtStep(l, p, u, g[k - 1], Visited(k, u))
                 ELSE g[k - 1]
    BY DEF IsLoop
  <2>2. IsLoop(g, l, p, u, L, s, n + 1)
    BY <2>1 DEF IsLoop
  <2> QED
    BY <2>2
<1> HIDE DEF S
<1>3. \A n \in 0 .. 16 : n \in S
  BY <1>1, <1>2, Sixteen
<1>4. 16 \in S
  BY <1>3
<1> QED
  BY <1>4 DEF S

\* The loop begins with s and takes one turn after the other.
Runs(f, l, p, u, L, s) ==
    /\ f[0] = s /\ f[16] = BdtLoop(l, p, u, L, s)
    /\ \A k \in 0 .. 15 :
         f[k + 1] = IF Visited(k + 1, u) \in L
                    THEN BdtStep(l, p, u, f[k], Visited(k + 1, u)) ELSE f[k]

LEMMA LoopRuns ==
    ASSUME NEW l, NEW p, NEW u, NEW L, NEW s PROVE \E f : Runs(f, l, p, u, L, s)
<1> DEFINE f == CHOOSE f : IsLoop(f, l, p, u, L, s, 16)
<1>1. IsLoop(f, l, p, u, L, s, 16)
  BY LoopExists
<1>2. BdtLoop(l, p, u, L, s) = f[16]
  BY Zenon DEF BdtLoop, IsLoop
<1> HIDE DEF f
<1>3. f[0] = s
  BY <1>1 DEF IsLoop
<1>4. ASSUME NEW k \in 0 .. 15
      PROVE  f[k + 1] = IF Visited(k + 1, u) \in L
                        THEN BdtStep(l, p, u, f[k], Visited(k + 1, u)) ELSE f[k]
  <2>1. k + 1 \in 0 .. 16 /\ k + 1 # 0 /\ (k + 1) - 1 = k
    OBVIOUS
  <2> QED
    BY <1>1, <2>1 DEF IsLoop
<1> QED
  BY <1>2, <1>3, <1>4 DEF Runs

\* How far the base moves with n registers, and where register i is transferred.
Moved(u, b, n) == Plus(b, IF u THEN n ELSE -n)
AddrOf(p, u, b, L, i) == Moved(u, b, IF p THEN Rank(L, u, i) ELSE Rank(L, u, i) - 1)

\* Two registers transferred go to two addresses.
LEMMA AddrsApart ==
    ASSUME NEW L \in SUBSET (0 .. 15), Cardinality(L) < AddrSize, NEW p \in BOOLEAN,
           NEW u \in BOOLEAN, NEW b \in Val, NEW k \in 0 .. 15, NEW i \in L,
           i = Visited(k + 1, u), NEW j \in Before(L, u, k)
    PROVE  AddrOf(p, u, b, L, i) # AddrOf(p, u, b, L, j)
<1> DEFINE v == Rank(L, u, i)
           w == Rank(L, u, j)
<1>1. w \in 1 .. Cardinality(Before(L, u, k)) /\ v = Cardinality(Before(L, u, k)) + 1
  <2>1. k \in 0 .. 16
    OBVIOUS
  <2>2. w \in 1 .. Cardinality(Before(L, u, k))
    BY <2>1, Ranked
  <2>3. v = Cardinality(Before(L, u, k)) + 1
    BY Turn DEF Added
  <2> QED
    BY <2>2, <2>3
<1>2. v <= Cardinality(L) /\ Cardinality(L) \in Nat /\ Cardinality(Before(L, u, k)) \in Nat
  <2>1. /\ Cardinality(Before(L, u, k + 1)) <= Cardinality(L)
        /\ Cardinality(L) \in Nat /\ Cardinality(Before(L, u, k)) \in Nat
    BY PartOf DEF Before
  <2> QED
    BY <2>1, Turn DEF Added
<1> HIDE DEF v, w
<1>3. v \in Int /\ w \in Int /\ v - w < AddrSize /\ w - v < AddrSize /\ v # w
      /\ AddrSize \in Int /\ b \in Int
  BY <1>1, <1>2, AddrAssumption DEF Val
<1> DEFINE x == IF p THEN v ELSE v - 1
           y == IF p THEN w ELSE w - 1
           xs == IF u THEN x ELSE -x
           ys == IF u THEN y ELSE -y
<1>4. xs \in Int /\ ys \in Int /\ xs - ys < AddrSize /\ ys - xs < AddrSize /\ xs # ys
  BY <1>3
<1> HIDE DEF xs, ys
<1>5. Plus(b, xs) # Plus(b, ys)
  BY <1>3, <1>4, PlusApart
<1> QED
  BY <1>5 DEF AddrOf, Moved, v, w, xs, ys

LEMMA AddrIn ==
    ASSUME NEW L \in SUBSET (0 .. 15), NEW p \in BOOLEAN, NEW u \in BOOLEAN, NEW b \in Val,
           NEW i
    PROVE  AddrOf(p, u, b, L, i) \in Val
<1>1. Rank(L, u, i) \in Nat
  <2>1. {j \in L : IF u THEN j <= i ELSE j >= i} \in SUBSET L
    OBVIOUS
  <2> QED
    BY <2>1, PartOf DEF Rank
<1>2. b \in Int
  BY AddrAssumption DEF Val
<1> DEFINE x == IF p THEN Rank(L, u, i) ELSE Rank(L, u, i) - 1
           y == IF u THEN x ELSE -x
<1>3. y \in Int
  BY <1>1
<1> HIDE DEF y
<1>4. Plus(b, y) \in Val
  BY <1>2, <1>3, PlusIn
<1> QED
  BY <1>4 DEF AddrOf, Moved, y

\* Base and address in the turn that transfers register i.
LEMMA TurnMoves ==
    ASSUME NEW L \in SUBSET (0 .. 15), NEW p \in BOOLEAN, NEW u \in BOOLEAN, NEW b \in Val,
           NEW k \in 0 .. 15, NEW i \in L, i = Visited(k + 1, u), NEW base,
           base = Moved(u, b, Cardinality(Before(L, u, k)))
    PROVE  /\ Plus(base, IF u THEN 1 ELSE -1) = Moved(u, b, Cardinality(Before(L, u, k + 1)))
           /\ (IF p THEN Plus(base, IF u THEN 1 ELSE -1) ELSE base) = AddrOf(p, u, b, L, i)
<1> DEFINE n == Cardinality(Before(L, u, k))
           x == IF u THEN n ELSE -n
           y == IF u THEN 1 ELSE -1
           z == IF u THEN n + 1 ELSE -(n + 1)
<1>1. n \in Nat
  BY PartOf DEF Before
<1>2. Cardinality(Before(L, u, k + 1)) = n + 1 /\ Rank(L, u, i) = n + 1
  <2>1. Added(L, u, k, i)
    BY Turn
  <2> QED
    BY <2>1 DEF Added
<1> HIDE DEF n
<1>3. x \in Int /\ y \in Int /\ x + y = z /\ b \in Int
  BY <1>1, AddrAssumption DEF Val
<1> HIDE DEF x, y, z
<1>4. Plus(Plus(b, x), y) = Plus(b, z)
  BY <1>3, PlusPlus
<1>5. base = Plus(b, x) /\ Plus(base, IF u THEN 1 ELSE -1) = Plus(b, z)
  BY <1>4 DEF Moved, n, x, y
<1>6. Moved(u, b, n + 1) = Plus(b, z)
  BY DEF Moved, z
<1>7. (n + 1) - 1 = n
  BY <1>1
<1>8. AddrOf(p, u, b, L, i) = IF p THEN Plus(b, z) ELSE Plus(b, x)
  BY <1>2, <1>6, <1>7 DEF AddrOf, Moved, x
<1> QED
  BY <1>2, <1>5, <1>6, <1>8

LoopState == [base : Val, r : [Regs -> Val], mem : [Val -> Val]]

\* What a store of the registers S of L leaves in s.
Stored(s, p, u, b, L, S, rr, mm) ==
    /\ s \in LoopState /\ s.r = rr /\ s.base = Moved(u, b, Cardinality(S))
    /\ \A i \in S : s.mem[AddrOf(p, u, b, L, i)] = rr[i]
    /\ \A a \in Val : (\A i \in S : a # AddrOf(p, u, b, L, i)) => s.mem[a] = mm[a]

LEMMA StoreTurn ==
    ASSUME NEW L \in SUBSET (0 .. 15), L \subseteq Regs, Cardinality(L) < AddrSize,
           NEW p \in BOOLEAN, NEW u \in BOOLEAN, NEW b \in Val,
           NEW rr \in [Regs -> Val], NEW mm \in [Val -> Val], NEW k \in 0 .. 15, NEW s,
           Stored(s, p, u, b, L, Before(L, u, k), rr, mm), NEW i \in L, i = Visited(k + 1, u)
    PROVE  Stored(BdtStep(FALSE, p, u, s, i), p, u, b, L, Before(L, u, k + 1), rr, mm)
<1> DEFINE S == Before(L, u, k)
           moved == Plus(s.base, IF u THEN 1 ELSE -1)
           at == IF p THEN moved ELSE s.base
           t == [s EXCEPT !.base = moved, !.mem[at] = s.r[i]]
<1>1. BdtStep(FALSE, p, u, s, i) = t
  BY DEF BdtStep
<1>2. Before(L, u, k + 1) = S \cup {i}
  <2>1. Added(L, u, k, i)
    BY Turn
  <2> QED
    BY <2>1 DEF Added
<1>3. moved = Moved(u, b, Cardinality(Before(L, u, k + 1))) /\ at = AddrOf(p, u, b, L, i)
  BY TurnMoves DEF Stored
<1>4. \A j \in S : AddrOf(p, u, b, L, j) # at
  BY <1>3, AddrsApart
<1>5. \A j \in S : AddrOf(p, u, b, L, j) \in Val
  BY AddrIn
<1>6. moved \in Val /\ at \in Val
  <2>1. s.base \in Int
    BY AddrAssumption DEF Stored, LoopState, Val
  <2>2. moved \in Val
    BY <2>1, PlusIn
  <2> QED
    BY <1>3, <2>2, AddrIn
<1> HIDE DEF S, moved, at
<1>7. /\ t \in LoopState /\ t.r = rr /\ t.base = moved
      /\ t.mem = [s.mem EXCEPT ![at] = rr[i]]
  BY <1>6 DEF Stored, LoopState
<1>8. t.mem[at] = rr[i] /\ \A a \in Val : a # at => t.mem[a] = s.mem[a]
  BY <1>6, <1>7 DEF Stored, LoopState
<1> HIDE DEF t
<1>9. \A j \in S \cup {i} : t.mem[AddrOf(p, u, b, L, j)] = rr[j]
  BY <1>3, <1>4, <1>5, <1>8 DEF Stored, S
<1>10. \A a \in Val : (\A j \in S \cup {i} : a # AddrOf(p, u, b, L, j)) => t.mem[a] = mm[a]
  BY <1>3, <1>8 DEF Stored, S
<1> QED
  BY <1>1, <1>2, <1>3, <1>7, <1>9, <1>10 DEF Stored

LEMMA StoreLoop ==
    ASSUME NEW L \in SUBSET (0 .. 15), L \subseteq Regs, Cardinality(L) < AddrSize,
           NEW p \in BOOLEAN, NEW u \in BOOLEAN, NEW b \in Val,
           NEW rr \in [Regs -> Val], NEW mm \in [Val -> Val]
    PROVE  Stored(BdtLoop(FALSE, p, u, L, [base |-> b, r |-> rr, mem |-> mm]),
                  p, u, b, L, L, rr, mm)
<1> DEFINE s == [base |-> b, r |-> rr, mem |-> mm]
<1>1. PICK f : Runs(f, FALSE, p, u, L, s)
  BY LoopRuns
<1> DEFINE T == {k \in 0 .. 16 : Stored(f[k], p, u, b, L, Before(L, u, k), rr, mm)}
<1>2. 0 \in T
  <2>1. Before(L, u, 0) = {} /\ Cardinality({}) = 0
    BY Turns, FS_EmptySet
  <2>2. Moved(u, b, 0) = b
    BY PlusZero DEF Moved
  <2>3. s \in LoopState /\ s.r = rr /\ s.base = b /\ s.mem = mm
    BY DEF LoopState
  <2>4. Stored(s, p, u, b, L, {}, rr, mm)
    BY <2>1, <2>2, <2>3 DEF Stored
  <2> QED
    BY <1>1, <2>1, <2>4 DEF Runs
<1>3. \A k \in 0 .. 15 : k \in T => k + 1 \in T
  <2> SUFFICES ASSUME NEW k \in 0 .. 15, k \in T
               PROVE  Stored(f[k + 1], p, u, b, L, Before(L, u, k + 1), rr, mm)
    OBVIOUS
  <2> DEFINE i == Visited(k + 1, u)
  <2>1. CASE i \in L
    <3>1. Stored(f[k], p, u, b, L, Before(L, u, k), rr, mm)
      OBVIOUS
    <3>2. f[k + 1] = BdtStep(FALSE, p, u, f[k], i)
      BY <1>1, <2>1 DEF Runs
    <3>3. i = Visited(k + 1, u)
      OBVIOUS
    <3> HIDE DEF T, i
    <3>4. Stored(BdtStep(FALSE, p, u, f[k], i), p, u, b, L, Before(L, u, k + 1), rr, mm)
      BY <2>1, <3>1, <3>3, StoreTurn
    <3> QED
      BY <3>2, <3>4
  <2>2. CASE i \notin L
    BY <1>1, <2>2, Turn DEF Runs
  <2> QED
    BY <2>1, <2>2
<1> HIDE DEF T
<1>4. 16 \in T
  BY <1>2, <1>3, Sixteen
<1> QED
  BY <1>1, <1>4, Turns DEF T, Runs

\* What a load of the registers S of L leaves in s.
Loaded(s, p, u, b, L, S, rr, mm) ==
    /\ s \in LoopState /\ s.mem = mm /\ s.base = Moved(u, b, Cardinality(S))
    /\ \A i \in Regs : s.r[i] = IF i \in S THEN mm[AddrOf(p, u, b, L, i)] ELSE rr[i]

LEMMA LoadTurn ==
    ASSUME NEW L \in SUBSET (0 .. 15), L \subseteq Regs,
           NEW p \in BOOLEAN, NEW u \in BOOLEAN, NEW b \in Val,
           NEW rr \in [Regs -> Val], NEW mm \in [Val -> Val], NEW k \in 0 .. 15, NEW s,
           Loaded(s, p, u, b, L, Before(L, u, k), rr, mm), NEW i \in L, i = Visited(k + 1, u)
    PROVE  Loaded(BdtStep(TRUE, p, u, s, i), p, u, b, L, Before(L, u, k + 1), rr, mm)
<1> DEFINE S == Before(L, u, k)
           moved == Plus(s.base, IF u THEN 1 ELSE -1)
           at == IF p THEN moved ELSE s.base
           t == [s EXCEPT !.base = moved, !.r[i] = s.mem[at]]
<1>1. BdtStep(TRUE, p, u, s, i) = t
  BY DEF BdtStep
<1>2. Before(L, u, k + 1) = S \cup {i}
  <2>1. Added(L, u, k, i)
    BY Turn
  <2> QED
    BY <2>1 DEF Added
<1>3. moved = Moved(u, b, Cardinality(Before(L, u, k + 1))) /\ at = AddrOf(p, u, b, L, i)
  BY TurnMoves DEF Loaded
<1>4. moved \in Val /\ at \in Val
  <2>1. s.base \in Int
    BY AddrAssumption DEF Loaded, LoopState, Val
  <2>2. moved \in Val
    BY <2>1, PlusIn
  <2> QED
    BY <1>3, <2>2, AddrIn
<1> HIDE DEF S, moved, at
<1>5. t \in LoopState /\ t.mem = mm /\ t.base = moved /\ t.r = [s.r EXCEPT ![i] = mm[at]]
  BY <1>4 DEF Loaded, LoopState
<1>6. \A j \in Regs : t.r[j] = IF j = i THEN mm[at] ELSE s.r[j]
  BY <1>5 DEF Loaded, LoopState
<1> HIDE DEF t
<1>7. \A j \in Regs : t.r[j] = IF j \in S \cup {i} THEN mm[AddrOf(p, u, b, L, j)] ELSE rr[j]
  BY <1>3, <1>6 DEF Loaded, S
<1> QED
  BY <1>1, <1>2, <1>3, <1>5, <1>7 DEF Loaded

LEMMA LoadLoop ==
    ASSUME NEW L \in SUBSET (0 .. 15), L \subseteq Regs,
           NEW p \in BOOLEAN, NEW u \in BOOLEAN, NEW b \in Val,
           NEW rr \in [Regs -> Val], NEW mm \in [Val -> Val]
    PROVE  Loaded(BdtLoop(TRUE, p, u, L, [base |-> b, r |-> rr, mem |-> mm]),
                  p, u, b, L, L, rr, mm)
<1> DEFINE s == [base |-> b, r |-> rr, mem |-> mm]
<1>1. PICK f : Runs(f, TRUE, p, u, L, s)
  BY LoopRuns
<1> DEFINE T == {k \in 0 .. 16 : Loaded(f[k], p, u, b, L, Before(L, u, k), rr, mm)}
<1>2. 0 \in T
  <2>1. Before(L, u, 0) = {} /\ Cardinality({}) = 0
    BY Turns, FS_EmptySet
  <2>2. Moved(u, b, 0) = b
    BY PlusZero DEF Moved
  <2>3. s \in LoopState /\ s.r = rr /\ s.base = b /\ s.mem = mm
    BY DEF LoopState
  <2>4. Loaded(s, p, u, b, L, {}, rr, mm)
    BY <2>1, <2>2, <2>3 DEF Loaded
  <2> QED
    BY <1>1, <2>1, <2>4 DEF Runs
<1>3. \A k \in 0 .. 15 : k \in T => k + 1 \in T
  <2> SUFFICES ASSUME NEW k \in 0 .. 15, k \in T
               PROVE  Loaded(f[k + 1], p, u, b, L, Before(L, u, k + 1), rr, mm)
    OBVIOUS
  <2> DEFINE i == Visited(k + 1, u)
  <2>1. CASE i \in L
    <3>1. Loaded(f[k], p, u, b, L, Before(L, u, k), rr, mm)
      OBVIOUS
    <3>2. f[k + 1] = BdtStep(TRUE, p, u, f[k], i)
      BY <1>1, <2>1 DEF Runs
    <3>3. i = Visited(k + 1, u)
      OBVIOUS
    <3> HIDE DEF T, i
    <3>4. Loaded(BdtStep(TRUE, p, u, f[k], i), p, u, b, L, Before(L, u, k + 1), rr, mm)
      BY <2>1, <3>1, <3>3, LoadTurn
    <3> QED
      BY <3>2, <3>4
  <2>2. CASE i \notin L
    BY <1>1, <2>2, Turn DEF Runs
  <2> QED
    BY <2>1, <2>2
<1> HIDE DEF T
<1>4. 16 \in T
  BY <1>2, <1>3, Sixteen
<1> QED
  BY <1>1, <1>4, Turns DEF T, Runs

-----------------------------------------------------------------------------
(* The stack *)

LEMMA Sizes ==
    /\ AddrSize \in Nat /\ AddrSize >= 3 /\ Depth \in 1 .. AddrSize - 1
    /\ Val \subseteq Int /\ 0 \in Val /\ 2 \in Val /\ Start \in Val
    /\ Saved \subseteq Regs /\ SP \in Regs /\ 15 \in Regs /\ SP = 13
    /\ SP \notin Saved \cup Pointers /\ 15 \notin Pointers /\ Pointers \subseteq Regs
    /\ 14 \in Saved /\ 14 \notin {SP, 15}
<1>1. /\ AddrSize \in Nat /\ AddrSize >= 3 /\ Depth \in 1 .. AddrSize - 1
      /\ Val \subseteq Int /\ 0 \in Val /\ 2 \in Val /\ Start \in Val
  BY AddrAssumption, StartAssumption DEF Val
<1>2. \A i \in Saved : i # 13
  BY RegsAssumption
<1>3. \A i \in Pointers : i # 13 /\ i # 15
  BY RegsAssumption
<1> QED
  BY <1>1, <1>2, <1>3, RegsAssumption DEF Regs, SP

LEMMA ValInt == \A v \in Val : v \in Int
BY Sizes

LEMMA SpecialRegs ==
    /\ SP \in Regs /\ 15 \in Regs /\ SP # 15
    /\ \A i \in Saved : i \in Regs /\ i # SP
    /\ \A i \in Pointers : i \in Regs /\ i # SP /\ i # 15
<1>1. SP # 15
  BY DEF SP
<1> QED
  BY <1>1, Sizes, Zenon

\* A list of registers the guest pushes.
LEMMA Lists ==
    ASSUME NEW L \in SUBSET Saved
    PROVE  /\ L \in SUBSET (0 .. 15) /\ L \subseteq Regs /\ SP \notin L
           /\ IsFiniteSet(L) /\ Cardinality(L) \in Nat
<1>1. L \in SUBSET (0 .. 15)
  <2>1. \A i \in Saved : i \in 0 .. 15
    BY RegsAssumption
  <2> QED
    BY <2>1, Zenon
<1>2. L \in SUBSET L
  OBVIOUS
<1> QED
  BY <1>1, <1>2, Sizes, PartOf

LEMMA MovedIn == ASSUME NEW u \in BOOLEAN, NEW b \in Int, NEW n \in Int PROVE Moved(u, b, n) \in Val
BY PlusIn DEF Moved

LEMMA MovedTwice ==
    ASSUME NEW u \in BOOLEAN, NEW b \in Int, NEW m \in Int, NEW n \in Int, NEW s, s = m + n
    PROVE  Moved(u, Moved(u, b, m), n) = Moved(u, b, s)
<1>1. CASE u
  <2>1. Plus(Plus(b, m), n) = Plus(b, s)
    BY PlusPlus
  <2> QED
    BY <1>1, <2>1 DEF Moved
<1>2. CASE ~u
  <2> DEFINE x == -m
             y == -n
             z == -s
  <2>1. x \in Int /\ y \in Int /\ z = x + y
    OBVIOUS
  <2> HIDE DEF x, y, z
  <2>2. Plus(Plus(b, x), y) = Plus(b, z)
    BY <2>1, PlusPlus
  <2> QED
    BY <1>2, <2>2 DEF Moved, x, y, z
<1> QED
  BY <1>1, <1>2

LEMMA MovedBack ==
    ASSUME NEW u \in BOOLEAN, NEW b \in Int, NEW n \in Int
    PROVE  Moved(~u, b, n) = Moved(u, b, -n)
<1>1. -(-n) = n
  OBVIOUS
<1> QED
  BY <1>1 DEF Moved

\* Height, slots and stack for stack pointer sp, in convention u, fl.
HeightFn(sp, u) == (IF u THEN sp - Start ELSE Start - sp) % AddrSize
SlotFn(sp, u, fl, k) == Plus(sp, IF u THEN -(IF fl THEN k - 1 ELSE k) ELSE IF fl THEN k - 1 ELSE k)
StackOf(sp, u, fl, m) == [k \in 1 .. HeightFn(sp, u) |-> m[SlotFn(sp, u, fl, k)]]

\* Where the j-th word from the bottom lies.
Cell(u, fl, j) == Moved(u, Start, IF fl THEN j ELSE j - 1)

LEMMA StackFns ==
    ASSUME up \in BOOLEAN, full \in BOOLEAN
    PROVE  /\ Height = HeightFn(r[SP], up)
           /\ \A k \in Int : Slot(k) = SlotFn(r[SP], up, full, k)
BY DEF Height, HeightFn, Slot, SlotFn

\* The height determines the stack pointer and is determined by it.
LEMMA HeightOf ==
    ASSUME NEW u \in BOOLEAN, NEW h \in Val
    PROVE  HeightFn(Moved(u, Start, h), u) = h
<1>1. Start \in Int
  BY Sizes
<1>2. (Plus(Start, h) - Start) % AddrSize = h /\ (Start - Plus(Start, -h)) % AddrSize = h
  BY <1>1, Back
<1> QED
  BY <1>2 DEF HeightFn, Moved

LEMMA PlusSame ==
    ASSUME NEW a \in Int, NEW j \in Int, NEW k \in Int, NEW q \in Int, j = k + q * AddrSize
    PROVE  Plus(a, j) = Plus(a, k)
<1> DEFINE x == a + j
           y == a + k
<1>1. x \in Int /\ y \in Int /\ x = y + q * AddrSize
  BY Sizes
<1> HIDE DEF x, y
<1>2. SameRemainder(x, y)
  BY <1>1, Multiple
<1> QED
  BY <1>2 DEF SameRemainder, Plus, x, y

LEMMA PointerOf ==
    ASSUME NEW u \in BOOLEAN, NEW sp \in Val
    PROVE  HeightFn(sp, u) \in Val /\ sp = Moved(u, Start, HeightFn(sp, u))
<1> DEFINE x == IF u THEN sp - Start ELSE Start - sp
           q == x \div AddrSize
           h == x % AddrSize
           d == sp - Start
           y == IF u THEN h ELSE -h
           p == IF u THEN -q ELSE q
<1>1. x \in Int /\ d \in Int /\ AddrSize \in Nat \ {0} /\ Start \in Int
  BY Sizes
<1>2. h \in 0 .. AddrSize - 1 /\ x = q * AddrSize + h /\ q \in Int
  <2> HIDE DEF x
  <2> QED
    BY <1>1, Division
<1> HIDE DEF q, h
<1>3. y \in Int /\ p \in Int /\ y = d + p * AddrSize
  <2>1. CASE u
    <3>1. y = h /\ p = -q /\ x = d
      BY <2>1
    <3>2. (-q) * AddrSize = -(q * AddrSize)
      BY <1>1, <1>2
    <3> QED
      BY <1>1, <1>2, <3>1, <3>2
  <2>2. CASE ~u
    <3>1. y = -h /\ p = q /\ x = -d
      <4>1. x = Start - sp /\ Start \in Int /\ sp \in Int
        BY <2>2, Sizes
      <4> QED
        BY <2>2, <4>1
    <3> QED
      BY <1>1, <1>2, <3>1
  <2> QED
    BY <2>1, <2>2
<1>4. Plus(Start, d) = sp
  <2>1. Start + d = sp
    BY Sizes
  <2> QED
    BY <2>1, AddrAssumption DEF Plus, Val
<1> HIDE DEF y, p, d
<1>5. Plus(Start, y) = Plus(Start, d)
  BY <1>1, <1>3, PlusSame
<1>6. HeightFn(sp, u) = h
  BY DEF HeightFn, h
<1> QED
  BY <1>2, <1>4, <1>5, <1>6 DEF Moved, y, Val

\* Slots count from the top, cells from the bottom.
LEMMA SlotCell ==
    ASSUME NEW u \in BOOLEAN, NEW fl \in BOOLEAN, NEW h \in Int, NEW k \in Int,
           NEW j \in Int, j = h + 1 - k
    PROVE  SlotFn(Moved(u, Start, h), u, fl, k) = Cell(u, fl, j)
<1> DEFINE n == -(IF fl THEN k - 1 ELSE k)
           s == IF fl THEN j ELSE j - 1
           sp == Moved(u, Start, h)
<1>1. n \in Int /\ s = h + n /\ Start \in Int
  BY Sizes
<1>2. SlotFn(sp, u, fl, k) = Moved(u, sp, n)
  <2>1. -n = IF fl THEN k - 1 ELSE k
    OBVIOUS
  <2> QED
    BY <2>1 DEF SlotFn, Moved
<1> HIDE DEF n, s
<1>3. Moved(u, Moved(u, Start, h), n) = Moved(u, Start, s)
  BY <1>1, MovedTwice
<1> QED
  BY <1>2, <1>3 DEF Cell, s

LEMMA CellIn == ASSUME NEW u \in BOOLEAN, NEW fl \in BOOLEAN, NEW j \in Int PROVE Cell(u, fl, j) \in Val
<1> DEFINE s == IF fl THEN j ELSE j - 1
<1>1. s \in Int /\ Start \in Int
  BY Sizes
<1> HIDE DEF s
<1> QED
  BY <1>1, MovedIn DEF Cell, s

LEMMA CellsApart ==
    ASSUME NEW u \in BOOLEAN, NEW fl \in BOOLEAN, NEW j \in Int, NEW k \in Int,
           j - k < AddrSize, k - j < AddrSize, Cell(u, fl, j) = Cell(u, fl, k)
    PROVE  j = k
<1> DEFINE x == IF fl THEN j ELSE j - 1
           y == IF fl THEN k ELSE k - 1
           xs == IF u THEN x ELSE -x
           ys == IF u THEN y ELSE -y
<1>1. /\ xs \in Int /\ ys \in Int /\ xs - ys < AddrSize /\ ys - xs < AddrSize
      /\ Start \in Int /\ (xs = ys => j = k)
  BY Sizes
<1>2. Plus(Start, xs) = Plus(Start, ys)
  BY DEF Cell, Moved
<1> HIDE DEF xs, ys
<1>3. xs = ys
  BY <1>1, <1>2, PlusApart
<1> QED
  BY <1>1, <1>3

\* The words of the stack, top first.
LEMMA StackCells ==
    ASSUME NEW u \in BOOLEAN, NEW fl \in BOOLEAN, NEW h \in Val, NEW sp, NEW m,
           sp = Moved(u, Start, h)
    PROVE  StackOf(sp, u, fl, m) = [k \in 1 .. h |-> m[Cell(u, fl, h + 1 - k)]]
<1>1. HeightFn(sp, u) = h
  BY HeightOf
<1>2. \A k \in 1 .. h : SlotFn(sp, u, fl, k) = Cell(u, fl, h + 1 - k)
  <2> SUFFICES ASSUME NEW k \in 1 .. h
               PROVE  SlotFn(sp, u, fl, k) = Cell(u, fl, h + 1 - k)
    OBVIOUS
  <2> DEFINE j == h + 1 - k
  <2>1. h \in Int /\ k \in Int /\ j \in Int /\ j = h + 1 - k
    BY Sizes
  <2> HIDE DEF j
  <2>2. SlotFn(Moved(u, Start, h), u, fl, k) = Cell(u, fl, j)
    BY <2>1, SlotCell
  <2> QED
    BY <2>2 DEF j
<1> QED
  BY <1>1, <1>2 DEF StackOf

-----------------------------------------------------------------------------
(* Pushing and popping *)

TypeInv == /\ r \in [Regs -> Val] /\ mem \in [Val -> Val]
           /\ up \in BOOLEAN /\ full \in BOOLEAN

Inv == TypeInv /\ Height <= Depth

\* What a push of L and a pop of L do, however the guest makes them.
Pushed(L) ==
    /\ r' = [r EXCEPT ![SP] = Moved(up, @, Cardinality(L)), ![15] = Plus(@, 1)]
    /\ mem' \in [Val -> Val]
    /\ \A i \in L : mem'[Cell(up, full, Height + Rank(L, up, i))] = r[i]
    /\ \A j \in 1 .. Height : mem'[Cell(up, full, j)] = mem[Cell(up, full, j)]
    /\ UNCHANGED <<up, full>>

Popped(L) ==
    /\ r' \in [Regs -> Val] /\ r'[SP] = Moved(up, r[SP], -Cardinality(L))
    /\ \A i \in Regs \ {SP, 15} :
         r'[i] = IF i \in L THEN mem[Cell(up, full, Height + 1 - Rank(L, ~up, i))] ELSE r[i]
    /\ r'[15] = IF 15 \in L THEN Plus(mem[Cell(up, full, Height + 1 - Rank(L, ~up, 15))], 2)
                ELSE Plus(r[15], 1)
    /\ UNCHANGED <<mem, up, full>>

LEMMA HeightFacts ==
    ASSUME TypeInv
    PROVE  /\ Height \in Val /\ Height \in 0 .. AddrSize - 1 /\ r[SP] \in Val
           /\ r[SP] = Moved(up, Start, Height)
<1>1. r[SP] \in Val
  BY Sizes DEF TypeInv
<1>2. Height = HeightFn(r[SP], up)
  BY StackFns DEF TypeInv
<1>3. HeightFn(r[SP], up) \in Val /\ r[SP] = Moved(up, Start, HeightFn(r[SP], up))
  BY <1>1, PointerOf DEF TypeInv
<1> QED
  BY <1>1, <1>2, <1>3 DEF Val

LEMMA RankIn ==
    ASSUME NEW L \in SUBSET (0 .. 15), NEW u \in BOOLEAN, NEW i \in L
    PROVE  Rank(L, u, i) \in 1 .. Cardinality(L)
<1>1. i \in Before(L, u, 16) /\ Before(L, u, 16) = L /\ 16 \in 0 .. 16
  BY Turns
<1>2. Rank(L, u, i) \in 1 .. Cardinality(Before(L, u, 16))
  BY <1>1, Ranked
<1> QED
  BY <1>1, <1>2

\* A push writes above the stack, a pop reads from its top.
LEMMA PushAddr ==
    ASSUME TypeInv, NEW L \in SUBSET (0 .. 15), NEW i \in L
    PROVE  AddrOf(full, up, r[SP], L, i) = Cell(up, full, Height + Rank(L, up, i))
<1> DEFINE v == Rank(L, up, i)
           n == IF full THEN v ELSE v - 1
           s == IF full THEN Height + v ELSE Height + v - 1
<1>1. v \in Int
  BY RankIn DEF TypeInv
<1>2. n \in Int /\ s = Height + n /\ Height \in Int /\ Start \in Int
  BY <1>1, HeightFacts, Sizes
<1>3. AddrOf(full, up, r[SP], L, i) = Moved(up, r[SP], n)
  BY DEF AddrOf
<1>4. Cell(up, full, Height + v) = Moved(up, Start, s)
  <2> HIDE DEF v
  <2>1. CASE full
    BY <2>1 DEF Cell
  <2>2. CASE ~full
    BY <1>1, <1>2, <2>2 DEF Cell, TypeInv
  <2> QED
    BY <2>1, <2>2
<1> HIDE DEF n, s
<1>5. Moved(up, Moved(up, Start, Height), n) = Moved(up, Start, s)
  BY <1>2, MovedTwice DEF TypeInv
<1> QED
  BY <1>3, <1>4, <1>5, HeightFacts

LEMMA PopAddr ==
    ASSUME TypeInv, NEW L \in SUBSET (0 .. 15), NEW i \in L
    PROVE  AddrOf(~full, ~up, r[SP], L, i) = Cell(up, full, Height + 1 - Rank(L, ~up, i))
<1> DEFINE v == Rank(L, ~up, i)
           n == IF ~full THEN v ELSE v - 1
           m == -n
           s == IF full THEN Height + 1 - v ELSE Height + 1 - v - 1
<1>1. v \in Int
  <2> DEFINE d == ~up
  <2>1. d \in BOOLEAN
    OBVIOUS
  <2> HIDE DEF d
  <2>2. Rank(L, d, i) \in 1 .. Cardinality(L)
    BY <2>1, RankIn
  <2> QED
    BY <2>2 DEF d
<1>2. n \in Int /\ m \in Int /\ s = Height + m /\ Height \in Int /\ Start \in Int /\ r[SP] \in Int
  <2>1. Height \in Int /\ Start \in Int /\ r[SP] \in Int
    BY HeightFacts, Sizes
  <2> HIDE DEF v
  <2>2. CASE full
    BY <1>1, <2>1, <2>2
  <2>3. CASE ~full
    BY <1>1, <2>1, <2>3
  <2> QED
    BY <2>1, <2>2, <2>3
<1>3. AddrOf(~full, ~up, r[SP], L, i) = Moved(~up, r[SP], n)
  BY DEF AddrOf
<1>6. Cell(up, full, Height + 1 - v) = Moved(up, Start, s)
  <2> HIDE DEF v
  <2>1. CASE full
    BY <2>1 DEF Cell
  <2>2. CASE ~full
    BY <1>1, <1>2, <2>2 DEF Cell, TypeInv
  <2> QED
    BY <2>1, <2>2
<1> HIDE DEF n, s
<1>4. Moved(~up, r[SP], n) = Moved(up, r[SP], m)
  BY <1>2, MovedBack DEF TypeInv
<1> HIDE DEF m
<1>5. Moved(up, Moved(up, Start, Height), m) = Moved(up, Start, s)
  BY <1>2, MovedTwice DEF TypeInv
<1> QED
  BY <1>3, <1>4, <1>5, <1>6, HeightFacts

\* The words of the stack are not where a push writes.
LEMMA PushAbove ==
    ASSUME Inv, NEW L \in SUBSET (0 .. 15), Height + Cardinality(L) <= Depth, NEW i \in L,
           NEW j \in 1 .. Height
    PROVE  Cell(up, full, j) # Cell(up, full, Height + Rank(L, up, i))
<1> DEFINE k == Height + Rank(L, up, i)
<1>1. Rank(L, up, i) \in 1 .. Cardinality(L)
  BY RankIn DEF Inv, TypeInv
<1>2. Cardinality(L) \in Nat /\ Height \in Nat
  <2>1. L \in SUBSET L
    OBVIOUS
  <2> QED
    BY <2>1, PartOf, HeightFacts DEF Inv
<1>3. k \in Int /\ j \in Int /\ j - k < AddrSize /\ k - j < AddrSize /\ j # k
  BY <1>1, <1>2, Sizes
<1> HIDE DEF k
<1>4. Cell(up, full, j) # Cell(up, full, k)
  BY <1>3, CellsApart DEF Inv, TypeInv
<1> QED
  BY <1>4 DEF k

LEMMA PushByBdt ==
    ASSUME Inv, NEW L \in SUBSET Saved, Height + Cardinality(L) <= Depth,
           exec_bdt(FALSE, full, up, TRUE, SP, L)
    PROVE  Pushed(L)
<1> DEFINE done == BdtLoop(FALSE, full, up, L, [base |-> r[SP], r |-> r, mem |-> mem])
<1>1. /\ r' = [[done.r EXCEPT ![SP] = done.base] EXCEPT ![15] = Plus(@, 1)]
      /\ mem' = done.mem /\ UNCHANGED <<up, full>>
  BY DEF exec_bdt
<1>2. Stored(done, full, up, r[SP], L, L, r, mem)
  <2>1. L \in SUBSET (0 .. 15) /\ L \subseteq Regs /\ Cardinality(L) \in Nat
    BY Lists
  <2>2. Cardinality(L) < AddrSize
    BY <2>1, HeightFacts, Sizes DEF Inv
  <2> QED
    BY <2>1, <2>2, HeightFacts, StoreLoop DEF Inv, TypeInv
<1> HIDE DEF done
<1>3. r' = [r EXCEPT ![SP] = Moved(up, @, Cardinality(L)), ![15] = Plus(@, 1)]
  BY <1>1, <1>2, Sizes DEF Stored, Inv, TypeInv
<1>4. mem' \in [Val -> Val]
  BY <1>1, <1>2 DEF Stored, LoopState
<1>5. \A i \in L : mem'[Cell(up, full, Height + Rank(L, up, i))] = r[i]
  BY <1>1, <1>2, PushAddr, Lists DEF Stored, Inv
<1>6. ASSUME NEW j \in 1 .. Height
      PROVE  mem'[Cell(up, full, j)] = mem[Cell(up, full, j)]
  <2>1. \A i \in L : Cell(up, full, j) # AddrOf(full, up, r[SP], L, i)
    BY PushAbove, PushAddr, Lists DEF Inv
  <2>2. Cell(up, full, j) \in Val
    BY CellIn DEF Inv, TypeInv
  <2> QED
    BY <1>1, <1>2, <2>1, <2>2 DEF Stored
<1> QED
  BY <1>1, <1>3, <1>4, <1>5, <1>6 DEF Pushed

\* A single register has the first rank.
LEMMA Single ==
    ASSUME NEW i \in Saved, NEW u \in BOOLEAN
    PROVE  Rank({i}, u, i) = 1 /\ Cardinality({i}) = 1
<1>1. Cardinality({i}) = 1 /\ {i} \in SUBSET (0 .. 15)
  BY FS_Singleton, Lists
<1>2. Rank({i}, u, i) \in 1 .. Cardinality({i})
  BY <1>1, RankIn
<1> QED
  BY <1>1, <1>2

LEMMA PushBySdt ==
    ASSUME Inv, NEW i \in Saved, Height + Cardinality({i}) <= Depth,
           exec_sdt(FALSE, full, full, SP, i, IF up THEN 1 ELSE -1)
    PROVE  Pushed({i})
<1> DEFINE k == IF up THEN 1 ELSE -1
           base == IF full THEN Plus(r[SP], k) ELSE r[SP]
<1>1. /\ r' = [WrittenBack(r, full, full, SP, base, k) EXCEPT ![15] = Plus(@, 1)]
      /\ mem' = [mem EXCEPT ![base] = r[i]] /\ UNCHANGED <<up, full>>
  BY DEF exec_sdt
<1>2. Rank({i}, up, i) = 1 /\ Cardinality({i}) = 1 /\ {i} \in SUBSET (0 .. 15)
  BY Single, Lists DEF Inv, TypeInv
<1>3. Moved(up, r[SP], 1) = Plus(r[SP], k) /\ Moved(up, r[SP], 0) = r[SP]
  BY PlusZero, HeightFacts DEF Moved, Inv
<1>4. base = Cell(up, full, Height + Rank({i}, up, i))
  <2>1. AddrOf(full, up, r[SP], {i}, i) = base
    BY <1>2, <1>3 DEF AddrOf
  <2> QED
    BY <1>2, <2>1, PushAddr DEF Inv
<1>5. r' = [r EXCEPT ![SP] = Moved(up, @, Cardinality({i})), ![15] = Plus(@, 1)]
  <2> DEFINE sp == Plus(r[SP], k)
  <2>1. r' = [[r EXCEPT ![SP] = sp] EXCEPT ![15] = Plus(@, 1)]
    <3>1. CASE full
      BY <1>1, <3>1, Zenon DEF WrittenBack
    <3>2. CASE ~full
      BY <1>1, <3>2, Zenon DEF WrittenBack
    <3> QED
      BY <3>1, <3>2
  <2>2. Moved(up, r[SP], Cardinality({i})) = sp
    BY <1>2, <1>3
  <2>3. r \in [Regs -> Val] /\ SP \in Regs /\ 15 \in Regs /\ SP # 15
    BY Sizes DEF Inv, TypeInv
  <2> HIDE DEF sp
  <2>4. r' = [r EXCEPT ![SP] = sp, ![15] = Plus(@, 1)]
    BY <2>1, <2>3
  <2> QED
    BY <2>2, <2>4
<1>6. base \in Val /\ r[i] \in Val
  <2>1. r[SP] \in Val /\ r[SP] \in Int /\ r[i] \in Val
    BY Sizes DEF Inv, TypeInv
  <2>2. Plus(r[SP], k) \in Val
    <3>1. k \in Int
      OBVIOUS
    <3> HIDE DEF k
    <3> QED
      BY <2>1, <3>1, PlusIn
  <2> QED
    BY <2>1, <2>2
<1> HIDE DEF base
<1>7. mem' \in [Val -> Val] /\ mem'[base] = r[i] /\ \A a \in Val : a # base => mem'[a] = mem[a]
  BY <1>1, <1>6 DEF Inv, TypeInv
<1>8. ASSUME NEW j \in 1 .. Height
      PROVE  mem'[Cell(up, full, j)] = mem[Cell(up, full, j)]
  <2>1. Cell(up, full, j) # base
    BY <1>2, <1>4, PushAbove
  <2>2. Cell(up, full, j) \in Val
    BY CellIn DEF Inv, TypeInv
  <2> QED
    BY <1>7, <2>1, <2>2
<1> QED
  BY <1>1, <1>4, <1>5, <1>7, <1>8 DEF Pushed

LEMMA PopByBdt ==
    ASSUME Inv, NEW L \in SUBSET Saved, Cardinality(L) <= Height,
           exec_bdt(TRUE, ~full, ~up, TRUE, SP, L)
    PROVE  Popped(L)
<1> DEFINE p == ~full
           u == ~up
           done == BdtLoop(TRUE, p, u, L, [base |-> r[SP], r |-> r, mem |-> mem])
<1>1. /\ r' = [[done.r EXCEPT ![SP] = done.base]
                 EXCEPT ![15] = Plus(@, IF 15 \in L THEN 2 ELSE 1)]
      /\ mem' = done.mem /\ UNCHANGED <<up, full>>
  BY DEF exec_bdt
<1>2. p \in BOOLEAN /\ u \in BOOLEAN /\ u = ~up
  OBVIOUS
<1>3. /\ L \in SUBSET (0 .. 15) /\ L \subseteq Regs /\ Cardinality(L) \in Int /\ SP \notin L
      /\ r[SP] \in Val /\ r[SP] \in Int /\ r \in [Regs -> Val] /\ mem \in [Val -> Val]
      /\ SP \in Regs /\ 15 \in Regs /\ SP # 15
  <2>1. /\ L \in SUBSET (0 .. 15) /\ L \subseteq Regs /\ Cardinality(L) \in Nat /\ SP \notin L
    BY Lists
  <2>2. r \in [Regs -> Val] /\ mem \in [Val -> Val]
    BY DEF Inv, TypeInv
  <2>3. SP \in Regs /\ 15 \in Regs /\ SP # 15 /\ r[SP] \in Val /\ r[SP] \in Int
    BY <2>2, SpecialRegs, ValInt
  <2> QED
    BY <2>1, <2>2, <2>3
<1>4. \A i \in L : AddrOf(p, u, r[SP], L, i) = Cell(up, full, Height + 1 - Rank(L, ~up, i))
  BY PopAddr, Lists DEF Inv
<1>5. Moved(u, r[SP], Cardinality(L)) = Moved(up, r[SP], -Cardinality(L))
  <2> DEFINE n == Cardinality(L)
  <2>1. n \in Int /\ r[SP] \in Int
    BY <1>3
  <2> HIDE DEF n
  <2>2. Moved(~up, r[SP], n) = Moved(up, r[SP], -n)
    BY <2>1, MovedBack DEF Inv, TypeInv
  <2> QED
    BY <2>2 DEF n
<1> HIDE DEF p, u
<1>6. Loaded(done, p, u, r[SP], L, L, r, mem)
  BY <1>2, <1>3, LoadLoop
<1> HIDE DEF done
<1>7. /\ done.r \in [Regs -> Val] /\ done.base \in Val /\ done.mem = mem
      /\ done.base = Moved(up, r[SP], -Cardinality(L))
  BY <1>5, <1>6 DEF Loaded, LoopState
<1> DEFINE back == [done.r EXCEPT ![SP] = done.base]
           k == IF 15 \in L THEN 2 ELSE 1
<1>8. back \in [Regs -> Val] /\ r' = [back EXCEPT ![15] = Plus(@, k)]
  BY <1>1, <1>7
<1>9. /\ back[SP] = done.base
      /\ \A i \in Regs \ {SP} :
           back[i] = IF i \in L THEN mem[Cell(up, full, Height + 1 - Rank(L, ~up, i))] ELSE r[i]
  BY <1>3, <1>4, <1>6, <1>7 DEF Loaded
<1>10. Plus(back[15], k) \in Val
  <2> HIDE DEF back
  <2>1. back[15] \in Int /\ k \in Int
    <3>1. back[15] \in Val
      BY <1>3, <1>8
    <3> QED
      BY <3>1, ValInt
  <2> HIDE DEF k
  <2> QED
    BY <2>1, PlusIn
<1> HIDE DEF back
<1>11. /\ r' \in [Regs -> Val] /\ r'[SP] = back[SP] /\ r'[15] = Plus(back[15], k)
       /\ \A i \in Regs \ {SP, 15} : r'[i] = back[i]
  BY <1>3, <1>8, <1>10
<1> QED
  BY <1>1, <1>3, <1>7, <1>9, <1>11 DEF Popped

LEMMA PopBySdt ==
    ASSUME Inv, NEW i \in Saved, Cardinality({i}) <= Height,
           exec_sdt(TRUE, ~full, ~full, SP, i, IF up THEN -1 ELSE 1)
    PROVE  Popped({i})
<1> DEFINE p == ~full
           u == ~up
           k == IF up THEN -1 ELSE 1
           base == IF p THEN Plus(r[SP], k) ELSE r[SP]
           data == [r EXCEPT ![i] = mem[base]]
           sp == Plus(r[SP], k)
           c == IF i = 15 THEN 2 ELSE 1
<1>1. /\ r' = [WrittenBack(data, p, p, SP, base, k) EXCEPT ![15] = Plus(@, c)]
      /\ mem' = mem /\ UNCHANGED <<up, full>>
  BY DEF exec_sdt
<1>2. p \in BOOLEAN /\ u \in BOOLEAN /\ u = ~up
  OBVIOUS
<1>3. /\ {i} \in SUBSET (0 .. 15) /\ i \in Regs /\ i # SP
      /\ r[SP] \in Val /\ r[SP] \in Int /\ r \in [Regs -> Val] /\ mem \in [Val -> Val]
      /\ SP \in Regs /\ 15 \in Regs /\ SP # 15
  <2>1. {i} \in SUBSET (0 .. 15)
    BY Lists
  <2>2. r \in [Regs -> Val] /\ mem \in [Val -> Val]
    BY DEF Inv, TypeInv
  <2>3. i \in Regs /\ i # SP /\ SP \in Regs /\ 15 \in Regs /\ SP # 15 /\ r[SP] \in Val /\ r[SP] \in Int
    BY <2>2, SpecialRegs, ValInt
  <2> QED
    BY <2>1, <2>2, <2>3
<1>4. Rank({i}, ~up, i) = 1 /\ Cardinality({i}) = 1
  <2> HIDE DEF u
  <2>1. Rank({i}, u, i) = 1 /\ Cardinality({i}) = 1
    BY <1>2, Single
  <2> QED
    BY <1>2, <2>1
<1>5. Moved(up, r[SP], -1) = sp /\ Moved(~up, r[SP], 1) = sp /\ Moved(~up, r[SP], 0) = r[SP]
  BY <1>3, PlusZero DEF Moved
<1>6. base = Cell(up, full, Height + 1 - Rank({i}, ~up, i))
  <2>1. AddrOf(~full, ~up, r[SP], {i}, i) = base
    BY <1>4, <1>5 DEF AddrOf
  <2> QED
    BY <1>3, <2>1, PopAddr DEF Inv
<1>7. sp \in Val /\ base \in Val
  <2>1. k \in Int
    OBVIOUS
  <2> HIDE DEF k
  <2> QED
    BY <1>3, <2>1, PlusIn
<1>8. WrittenBack(data, p, p, SP, base, k) = [data EXCEPT ![SP] = sp]
  <2>1. data[SP] = r[SP]
    BY <1>3
  <2> HIDE DEF data
  <2>2. CASE full
    BY <2>1, <2>2, Zenon DEF WrittenBack
  <2>3. CASE ~full
    BY <2>3, Zenon DEF WrittenBack
  <2> QED
    BY <2>2, <2>3
<1> HIDE DEF base, sp
<1> DEFINE back == [data EXCEPT ![SP] = sp]
<1>9. /\ back \in [Regs -> Val] /\ back[SP] = sp
      /\ \A j \in Regs \ {SP} : back[j] = IF j = i THEN mem[base] ELSE r[j]
  BY <1>3, <1>7
<1> HIDE DEF data
<1>10. Plus(back[15], c) \in Val
  <2> HIDE DEF back
  <2>1. back[15] \in Int /\ c \in Int
    <3>1. back[15] \in Val
      BY <1>3, <1>9
    <3> QED
      BY <3>1, ValInt
  <2> HIDE DEF c
  <2> QED
    BY <2>1, PlusIn
<1> HIDE DEF back
<1>11. r' = [back EXCEPT ![15] = Plus(@, c)]
  BY <1>1, <1>8 DEF back
<1>12. /\ r' \in [Regs -> Val] /\ r'[SP] = back[SP] /\ r'[15] = Plus(back[15], c)
       /\ \A j \in Regs \ {SP, 15} : r'[j] = back[j]
  BY <1>3, <1>9, <1>10, <1>11
<1>13. ASSUME NEW j \in Regs \ {SP, 15}
       PROVE  r'[j] = IF j \in {i} THEN mem[Cell(up, full, Height + 1 - Rank({i}, ~up, j))]
                      ELSE r[j]
  BY <1>6, <1>9, <1>12
<1>14. r'[15] = IF 15 \in {i} THEN Plus(mem[Cell(up, full, Height + 1 - Rank({i}, ~up, 15))], 2)
                ELSE Plus(r[15], 1)
  BY <1>3, <1>6, <1>9, <1>12
<1>15. r'[SP] = Moved(up, r[SP], -Cardinality({i}))
  BY <1>4, <1>5, <1>9, <1>12
<1> QED
  BY <1>1, <1>12, <1>13, <1>14, <1>15, Zenon DEF Popped

-----------------------------------------------------------------------------
(* The abstract stack *)

TheRegs  == [i \in Regs \ {SP, 15} |-> r[i]]
ThePc    == Plus(r[15], -2)
TheStack == [k \in 1 .. Height |-> mem[Slot(k)]]

LEMMA IsSeq ==
    ASSUME NEW n \in Nat, NEW f \in [1 .. n -> Val]
    PROVE  f \in Seq(Val) /\ Len(f) = n
<1>1. f \in Seq(Val)
  BY SeqDef
<1>2. Len(f) \in Nat /\ DOMAIN f = 1 .. Len(f) /\ DOMAIN f = 1 .. n
  BY <1>1, LenProperties
<1> QED
  BY <1>1, <1>2

\* f is the stack of height h in memory m.
IsStack(f, u, fl, m, h) == f = [k \in 1 .. h |-> m[Cell(u, fl, h + 1 - k)]]

LEMMA CellsSeq ==
    ASSUME NEW u \in BOOLEAN, NEW fl \in BOOLEAN, NEW m \in [Val -> Val], NEW h \in Val, NEW f,
           IsStack(f, u, fl, m, h)
    PROVE  f \in Seq(Val) /\ Len(f) = h
<1>1. h \in Nat
  BY DEF Val
<1>2. \A k \in 1 .. h : Cell(u, fl, h + 1 - k) \in Val
  <2> SUFFICES ASSUME NEW k \in 1 .. h PROVE Cell(u, fl, h + 1 - k) \in Val
    OBVIOUS
  <2> DEFINE j == h + 1 - k
  <2>1. j \in Int
    BY <1>1
  <2> HIDE DEF j
  <2>2. Cell(u, fl, j) \in Val
    BY <2>1, CellIn
  <2> QED
    BY <2>2 DEF j
<1>3. f \in [1 .. h -> Val]
  BY <1>2 DEF IsStack
<1> QED
  BY <1>1, <1>3, IsSeq

LEMMA StackNow ==
    ASSUME TypeInv
    PROVE  /\ IsStack(TheStack, up, full, mem, Height)
           /\ TheStack \in Seq(Val) /\ Len(TheStack) = Height
<1>1. TheStack = StackOf(r[SP], up, full, mem)
  BY StackFns DEF TypeInv, TheStack, StackOf
<1>2. IsStack(TheStack, up, full, mem, Height)
  BY <1>1, HeightFacts, StackCells DEF TypeInv, IsStack
<1> QED
  BY <1>2, HeightFacts, CellsSeq DEF TypeInv

LEMMA StackNext ==
    ASSUME TypeInv, TypeInv', UNCHANGED <<up, full>>, NEW h \in Val, r'[SP] = Moved(up, Start, h)
    PROVE  /\ IsStack(TheStack', up, full, mem', h) /\ Height' = h
           /\ TheStack' \in Seq(Val) /\ Len(TheStack') = h
<1>1. /\ Height' = HeightFn(r'[SP], up)
      /\ \A k \in Int : Slot(k)' = SlotFn(r'[SP], up, full, k)
  BY DEF Height, HeightFn, Slot, SlotFn, TypeInv
<1>2. TheStack' = StackOf(r'[SP], up, full, mem')
  BY <1>1 DEF TheStack, StackOf
<1>3. IsStack(TheStack', up, full, mem', h)
  BY <1>2, StackCells DEF TypeInv, IsStack
<1>4. HeightFn(Moved(up, Start, h), up) = h
  BY HeightOf DEF TypeInv
<1> QED
  BY <1>1, <1>3, <1>4, CellsSeq DEF TypeInv

\* The depth of a register among those pushed.
LEMMA PlaceIs == ASSUME TypeInv, NEW L, NEW i PROVE Stack!Place(L, i) = Rank(L, ~up, i)
<1>1. {j \in L : IF up THEN j >= i ELSE j <= i} = {j \in L : IF ~up THEN j <= i ELSE j >= i}
  <2>1. CASE up
    BY <2>1, Zenon
  <2>2. CASE ~up
    BY <2>2, Zenon
  <2> QED
    BY <2>1, <2>2
<1> QED
  BY <1>1, Zenon DEF Stack!Place, Rank, Stack!Cardinality, Cardinality

LEMMA PlusSwap ==
    ASSUME NEW a \in Int, NEW k \in Int, NEW m \in Int
    PROVE  Plus(Plus(a, k), m) = Plus(Plus(a, m), k)
<1> DEFINE s == k + m
<1>1. s = k + m
  OBVIOUS
<1>2. s = m + k
  OBVIOUS
<1> HIDE DEF s
<1>3. Plus(Plus(a, k), m) = Plus(a, s)
  BY <1>1, PlusPlus
<1>4. Plus(Plus(a, m), k) = Plus(a, s)
  BY <1>2, PlusPlus
<1> QED
  BY <1>3, <1>4

LEMMA PcMoves ==
    ASSUME TypeInv, NEW k \in Int
    PROVE  Plus(Plus(r[15], k), -2) = Plus(ThePc, k)
<1>1. r[15] \in Int
  BY SpecialRegs, ValInt DEF TypeInv
<1> DEFINE m == -2
<1>2. m \in Int
  OBVIOUS
<1>3. ThePc = Plus(r[15], m)
  BY DEF ThePc
<1> HIDE DEF m
<1>4. Plus(Plus(r[15], k), m) = Plus(Plus(r[15], m), k)
  BY <1>1, <1>2, PlusSwap
<1> QED
  BY <1>3, <1>4 DEF m

LEMMA PcBack == ASSUME NEW v \in Val PROVE Plus(Plus(v, -2), 2) = v /\ Plus(Plus(v, 2), -2) = v
<1>1. v \in Int /\ Plus(v, 0) = v
  BY ValInt, PlusZero
<1>2. Plus(Plus(v, -2), 2) = Plus(v, 0)
  BY <1>1, PlusPlus
<1>3. Plus(Plus(v, 2), -2) = Plus(v, 0)
  BY <1>1, PlusPlus
<1> QED
  BY <1>1, <1>2, <1>3
\* all begins with s and goes on with t.
Joined(all, s, t) ==
    /\ Len(all) = Len(s) + Len(t)
    /\ \A k \in 1 .. Len(s) : all[k] = s[k]
    /\ \A k \in 1 .. Len(t) : all[Len(s) + k] = t[k]

LEMMA ConcatIs ==
    ASSUME NEW S, NEW s \in Seq(S), NEW t \in Seq(S), NEW all \in Seq(S), Joined(all, s, t)
    PROVE  all = s \o t
<1> DEFINE cat == s \o t
           m == Len(s)
           n == Len(t)
<1>1. /\ m \in Nat /\ n \in Nat /\ Len(all) = m + n
      /\ (\A k \in 1 .. m : all[k] = s[k]) /\ \A k \in 1 .. n : all[m + k] = t[k]
  BY LenProperties DEF Joined
<1>2. /\ cat \in Seq(S) /\ Len(cat) = m + n
      /\ \A k \in 1 .. m + n : cat[k] = IF k <= m THEN s[k] ELSE t[k - m]
  BY ConcatProperties
<1> HIDE DEF m, n
<1>3. ASSUME NEW k \in 1 .. m + n
      PROVE  all[k] = cat[k]
  <2>1. CASE k <= m
    <3>1. k \in 1 .. m
      BY <1>1, <2>1
    <3> HIDE DEF cat
    <3> QED
      BY <1>1, <1>2, <2>1, <3>1
  <2>2. CASE k > m
    <3>1. k - m \in 1 .. n /\ m + (k - m) = k /\ ~(k <= m)
      BY <1>1, <2>2
    <3> HIDE DEF cat
    <3> QED
      BY <1>1, <1>2, <3>1
  <2>3. k <= m \/ k > m
    BY <1>1
  <2> QED
    BY <2>1, <2>2, <2>3
<1> HIDE DEF cat
<1>4. all = cat
  BY <1>1, <1>2, <1>3, SeqEqual
<1> QED
  BY <1>4 DEF cat

\* A push of the program puts the registers on the stack in their order.
LEMMA PushStep ==
    ASSUME Inv, NEW L \in SUBSET Saved, Height + Cardinality(L) <= Depth, Pushed(L)
    PROVE  Inv' /\ Stack!Push(L)
<1> DEFINE n == Cardinality(L)
           h == Height + n
           at(k) == CHOOSE i \in L : Stack!Place(L, i) = k
           value(i) == IF i = 15 THEN Plus(ThePc, 2) ELSE TheRegs[i]
           new == [k \in 1 .. n |-> value(at(k))]
<1>1. /\ n \in Nat /\ L \in SUBSET (0 .. 15) /\ L \subseteq Regs /\ SP \notin L
      /\ Height \in Nat /\ Height \in Val /\ h \in Val /\ h \in Nat /\ h <= Depth
  <2>1. /\ n \in Nat /\ L \in SUBSET (0 .. 15) /\ L \subseteq Regs /\ SP \notin L
    BY Lists
  <2>2. Height \in 0 .. AddrSize - 1 /\ Height \in Val
    BY HeightFacts DEF Inv
  <2>3. h \in 0 .. AddrSize - 1 /\ h <= Depth
    BY <2>1, <2>2, Sizes
  <2> QED
    BY <2>1, <2>2, <2>3 DEF Val
<1>2. r \in [Regs -> Val] /\ SP \in Regs /\ 15 \in Regs /\ SP # 15 /\ r[SP] \in Val /\ r[15] \in Val
  BY SpecialRegs DEF Inv, TypeInv
<1>3. r'[SP] = Moved(up, Start, h) /\ r'[SP] \in Val
  <2>1. Start \in Int /\ Height \in Int /\ n \in Int
    BY <1>1, Sizes
  <2>2. r'[SP] = Moved(up, r[SP], n)
    BY <1>2 DEF Pushed
  <2> HIDE DEF n
  <2>3. h \in Int /\ h = Height + n
    BY <2>1
  <2> HIDE DEF h
  <2>4. Moved(up, Moved(up, Start, Height), n) = Moved(up, Start, h)
    BY <2>1, <2>3, MovedTwice DEF Inv, TypeInv
  <2>5. Moved(up, Start, h) \in Val
    BY <2>1, <2>3, MovedIn DEF Inv, TypeInv
  <2> QED
    BY <2>2, <2>4, <2>5, HeightFacts DEF Inv
<1>4. TypeInv'
  <2>1. Plus(r[15], 1) \in Val
    BY <1>2, ValInt, PlusIn
  <2>2. r' \in [Regs -> Val]
    BY <1>2, <1>3, <2>1 DEF Pushed
  <2> QED
    BY <2>2 DEF Pushed, Inv, TypeInv
<1>5. /\ IsStack(TheStack', up, full, mem', h) /\ Height' = h
      /\ TheStack' \in Seq(Val) /\ Len(TheStack') = h
  BY <1>1, <1>3, <1>4, StackNext DEF Pushed, Inv
<1>6. /\ IsStack(TheStack, up, full, mem, Height)
      /\ TheStack \in Seq(Val) /\ Len(TheStack) = Height
  BY StackNow DEF Inv
<1>7. \A i \in L : value(i) = r[i] /\ r[i] \in Val
  <2>1. Plus(ThePc, 2) = r[15]
    BY <1>2, PcBack DEF ThePc
  <2> QED
    BY <1>1, <1>2, <2>1 DEF TheRegs
<1>8. ASSUME NEW k \in 1 .. n
      PROVE  at(k) \in L /\ Rank(L, up, at(k)) = n + 1 - k
  <2> DEFINE u == ~up
  <2>1. u \in BOOLEAN
    OBVIOUS
  <2>2. up \in BOOLEAN
    BY DEF Inv, TypeInv
  <2>3. \A i \in L : Stack!Place(L, i) = Rank(L, u, i)
    BY PlaceIs DEF Inv
  <2>4. \A i \in L : Rank(L, up, i) + Rank(L, u, i) = n + 1 /\ Rank(L, up, i) \in Nat
    BY <1>1, <2>2, Opposite, RankIn
  <2> HIDE DEF u
  <2>5. \E i \in L : Rank(L, u, i) = k
    BY <1>1, <2>1, RanksTaken
  <2>6. \E i \in L : Stack!Place(L, i) = k
    BY <2>3, <2>5
  <2>7. at(k) \in L /\ Stack!Place(L, at(k)) = k
    BY <2>6
  <2>8. Rank(L, u, at(k)) = k
    BY <2>3, <2>7, Zenon
  <2>9. Rank(L, up, at(k)) + k = n + 1 /\ Rank(L, up, at(k)) \in Nat
    BY <2>4, <2>7, <2>8, Zenon
  <2> HIDE DEF at, n
  <2> QED
    BY <1>1, <2>7, <2>9
<1> HIDE DEF at, value
<1>9. new \in Seq(Val) /\ Len(new) = n /\ \A k \in 1 .. n : new[k] = r[at(k)]
  <2>1. new \in [1 .. n -> Val] /\ \A k \in 1 .. n : new[k] = r[at(k)]
    BY <1>7, <1>8
  <2> HIDE DEF new, n
  <2> QED
    BY <1>1, <2>1, IsSeq
<1> HIDE DEF new
<1>10. ASSUME NEW k \in 1 .. n
       PROVE  TheStack'[k] = new[k]
  <2> DEFINE i == at(k)
  <2>1. i \in L /\ Rank(L, up, i) = n + 1 - k
    BY <1>8
  <2>2. mem'[Cell(up, full, Height + Rank(L, up, i))] = r[i]
    BY <2>1 DEF Pushed
  <2>3. h + 1 - k = Height + Rank(L, up, i) /\ k \in 1 .. h
    <3> HIDE DEF n, i
    <3> QED
      BY <1>1, <2>1
  <2>4. TheStack'[k] = mem'[Cell(up, full, h + 1 - k)]
    <3> HIDE DEF h
    <3> QED
      BY <1>5, <2>3 DEF IsStack
  <2> HIDE DEF h
  <2> QED
    BY <1>9, <2>2, <2>3, <2>4
<1>11. ASSUME NEW k \in 1 .. Height
       PROVE  TheStack'[n + k] = TheStack[k]
  <2> DEFINE j == Height + 1 - k
  <2>1. j \in 1 .. Height /\ h + 1 - (n + k) = j /\ n + k \in 1 .. h
    <3> HIDE DEF n
    <3> QED
      BY <1>1
  <2>2. TheStack'[n + k] = mem'[Cell(up, full, j)]
    <3>1. TheStack'[n + k] = mem'[Cell(up, full, h + 1 - (n + k))]
      <4> DEFINE x == n + k
      <4>1. x \in 1 .. h
        BY <2>1
      <4> HIDE DEF x, h
      <4>2. TheStack'[x] = mem'[Cell(up, full, h + 1 - x)]
        BY <1>5, <4>1 DEF IsStack
      <4> QED
        BY <4>2 DEF x
    <3> QED
      BY <2>1, <3>1
  <2>3. TheStack[k] = mem[Cell(up, full, j)]
    BY <1>6 DEF IsStack
  <2> HIDE DEF j
  <2> QED
    BY <2>1, <2>2, <2>3 DEF Pushed
<1>12. TheStack' = new \o TheStack
  <2> DEFINE all == TheStack'
             m == Height
  <2>1. /\ all \in Seq(Val) /\ new \in Seq(Val) /\ TheStack \in Seq(Val) /\ n = Len(new)
        /\ m = Len(TheStack) /\ Len(all) = n + m
    BY <1>1, <1>5, <1>6, <1>9
  <2>2. (\A k \in 1 .. n : all[k] = new[k]) /\ \A k \in 1 .. m : all[n + k] = TheStack[k]
    BY <1>10, <1>11
  <2> HIDE DEF all, n, m
  <2>3. Joined(all, new, TheStack)
    BY <2>1, <2>2, Zenon DEF Joined
  <2>4. all = new \o TheStack
    BY <2>1, <2>3, ConcatIs
  <2> QED
    BY <2>4 DEF all
<1>13. TheRegs' = TheRegs
  <2>1. \A i \in Regs \ {SP, 15} : r'[i] = r[i]
    BY <1>2 DEF Pushed
  <2> QED
    BY <2>1 DEF TheRegs
<1>14. ThePc' = Plus(ThePc, 1)
  <2>1. r'[15] = Plus(r[15], 1)
    BY <1>2 DEF Pushed
  <2>2. Plus(Plus(r[15], 1), -2) = Plus(ThePc, 1)
    BY PcMoves DEF Inv
  <2> QED
    BY <2>1, <2>2 DEF ThePc
<1>15. Stack!Push(L)
  <2>1. Stack!Plus(ThePc, 1) = Plus(ThePc, 1) /\ Stack!Plus(ThePc, 2) = Plus(ThePc, 2)
    BY DEF Stack!Plus, Plus
  <2>2. Stack!Cardinality(L) = n
    BY DEF Stack!Cardinality, Cardinality
  <2>3. new = [k \in 1 .. n |-> IF at(k) = 15 THEN Plus(ThePc, 2) ELSE TheRegs[at(k)]]
    BY DEF new, value
  <2> DEFINE pushed == [k \in 1 .. Stack!Cardinality(L) |->
                          IF at(k) = 15 THEN Stack!Plus(ThePc, 2) ELSE TheRegs[at(k)]]
  <2>4. UNCHANGED <<TheRegs, up>>
    BY <1>13 DEF Pushed
  <2> HIDE DEF new, n
  <2>5. new = pushed
    BY <2>1, <2>2, <2>3
  <2> HIDE DEF pushed
  <2>6. TheStack' = pushed \o TheStack /\ ThePc' = Stack!Plus(ThePc, 1)
    BY <1>12, <1>14, <2>1, <2>5
  <2> QED
    BY <2>4, <2>6, Zenon DEF Stack!Push, TheStack, TheRegs, ThePc, at, pushed
<1> QED
  BY <1>1, <1>4, <1>5, <1>15 DEF Inv
LEMMA SubSeqIs ==
    ASSUME NEW S, NEW s \in Seq(S), NEW rest \in Seq(S), NEW n \in 0 .. Len(s),
           Len(rest) = Len(s) - n, \A k \in 1 .. Len(s) - n : rest[k] = s[n + k]
    PROVE  rest = SubSeq(s, n + 1, Len(s))
<1> DEFINE h == Len(s)
           a == n + 1
           sub == SubSeq(s, a, h)
<1>1. h \in Nat /\ n \in Nat /\ n <= h
  BY LenProperties
<1>2. \A k \in a .. h : s[k] \in S
  <2>1. \A k \in a .. h : k \in 1 .. h
    BY <1>1
  <2> QED
    BY <2>1, ElementOfSeq
<1>3. a \in Int /\ h \in Int
  BY <1>1
<1>4. a = n + 1
  OBVIOUS
<1>5. Len(rest) = h - n /\ \A k \in 1 .. h - n : rest[k] = s[n + k]
  OBVIOUS
<1> HIDE DEF a, h
<1>6. /\ sub \in Seq(S) /\ Len(sub) = IF a <= h THEN h - a + 1 ELSE 0
      /\ \A k \in 1 .. h - a + 1 : sub[k] = s[a + k - 1]
  BY <1>2, <1>3, SubSeqProperties
<1> HIDE DEF sub
<1>7. Len(sub) = h - n
  BY <1>1, <1>3, <1>4, <1>6
<1>8. ASSUME NEW k \in 1 .. h - n
      PROVE  rest[k] = sub[k]
  <2>1. k \in 1 .. h - a + 1 /\ a + k - 1 = n + k
    BY <1>1, <1>3, <1>4
  <2> QED
    BY <1>5, <1>6, <2>1
<1>9. rest = sub
  BY <1>5, <1>6, <1>7, <1>8, SeqEqual
<1> QED
  BY <1>9 DEF sub, a, h

LEMMA StackRegs == Stack!Regs = Regs \ {SP, 15}
BY SpecialRegs DEF Stack!Regs, Regs

\* A pop of the program gives every register the word that is its own.
LEMMA PopStep ==
    ASSUME Inv, NEW L \in SUBSET Saved, Cardinality(L) <= Height, Popped(L)
    PROVE  Inv' /\ Stack!Pop(L)
<1> DEFINE n == Cardinality(L)
           h == Height - n
           value(i) == TheStack[Stack!Place(L, i)]
<1>1. /\ n \in Nat /\ L \in SUBSET (0 .. 15) /\ L \subseteq Regs /\ SP \notin L
      /\ Height \in Nat /\ Height \in Val /\ h \in Val /\ h \in Nat /\ h <= Depth
      /\ n \in 0 .. Height
  <2>1. /\ n \in Nat /\ L \in SUBSET (0 .. 15) /\ L \subseteq Regs /\ SP \notin L
    BY Lists
  <2>2. Height \in 0 .. AddrSize - 1 /\ Height \in Val /\ Height <= Depth
    BY HeightFacts DEF Inv
  <2>3. h \in 0 .. AddrSize - 1 /\ h <= Depth /\ n \in 0 .. Height
    BY <2>1, <2>2, Sizes
  <2> QED
    BY <2>1, <2>2, <2>3 DEF Val
<1>2. /\ r \in [Regs -> Val] /\ r' \in [Regs -> Val] /\ mem' = mem /\ mem \in [Val -> Val]
      /\ SP \in Regs /\ 15 \in Regs /\ SP # 15 /\ r[SP] \in Val /\ r[15] \in Val
  BY SpecialRegs DEF Inv, TypeInv, Popped
<1>3. r'[SP] = Moved(up, Start, h)
  <2> DEFINE m == -n
  <2>1. Start \in Int /\ Height \in Int /\ m \in Int /\ h = Height + m
    BY <1>1, Sizes
  <2>2. r'[SP] = Moved(up, r[SP], m)
    BY DEF Popped
  <2> HIDE DEF m, h
  <2>3. Moved(up, Moved(up, Start, Height), m) = Moved(up, Start, h)
    BY <2>1, MovedTwice DEF Inv, TypeInv
  <2> QED
    BY <2>2, <2>3, HeightFacts DEF Inv
<1>4. TypeInv'
  BY <1>2 DEF Popped, Inv, TypeInv
<1>5. /\ IsStack(TheStack', up, full, mem, h) /\ Height' = h
      /\ TheStack' \in Seq(Val) /\ Len(TheStack') = h
  BY <1>1, <1>2, <1>3, <1>4, StackNext DEF Popped, Inv
<1>6. /\ IsStack(TheStack, up, full, mem, Height)
      /\ TheStack \in Seq(Val) /\ Len(TheStack) = Height
  BY StackNow DEF Inv
<1>7. ASSUME NEW i \in L
      PROVE  /\ value(i) = mem[Cell(up, full, Height + 1 - Rank(L, ~up, i))]
             /\ value(i) \in Val
  <2> DEFINE u == ~up
             k == Rank(L, u, i)
  <2>1. u \in BOOLEAN
    OBVIOUS
  <2>2. Stack!Place(L, i) = k
    BY PlaceIs DEF Inv
  <2> HIDE DEF u
  <2>3. k \in 1 .. n
    BY <1>1, <2>1, RankIn
  <2> HIDE DEF k, n
  <2>4. k \in 1 .. Height
    BY <1>1, <2>3
  <2>5. TheStack[k] = mem[Cell(up, full, Height + 1 - k)]
    BY <1>6, <2>4 DEF IsStack
  <2>6. TheStack[k] \in Val
    BY <1>6, <2>4, ElementOfSeq
  <2> QED
    BY <2>2, <2>5, <2>6 DEF k, u
<1>8. TheStack' = SubSeq(TheStack, n + 1, Len(TheStack))
  <2> DEFINE rest == TheStack'
             s == TheStack
  <2>1. ASSUME NEW k \in 1 .. h
        PROVE  rest[k] = s[n + k]
    <3> DEFINE x == n + k
               y == Height + 1 - x
    <3>1. x \in 1 .. Height /\ y = h + 1 - k
      <4> HIDE DEF n
      <4> QED
        BY <1>1
    <3> HIDE DEF x, y, h
    <3>2. rest[k] = mem[Cell(up, full, y)]
      BY <1>5, <3>1 DEF IsStack
    <3>3. s[x] = mem[Cell(up, full, Height + 1 - x)]
      BY <1>6, <3>1 DEF IsStack
    <3> QED
      BY <3>2, <3>3 DEF x, y
  <2>2. /\ s \in Seq(Val) /\ rest \in Seq(Val) /\ n \in 0 .. Len(s) /\ Len(rest) = Len(s) - n
        /\ \A k \in 1 .. Len(s) - n : rest[k] = s[n + k]
    BY <1>1, <1>5, <1>6, <2>1
  <2> HIDE DEF rest, s, n
  <2>3. rest = SubSeq(s, n + 1, Len(s))
    BY <2>2, SubSeqIs
  <2> QED
    BY <2>3 DEF rest, s
<1>9. TheRegs' = [i \in Regs \ {SP, 15} |-> IF i \in L THEN value(i) ELSE TheRegs[i]]
  <2>1. \A i \in Regs \ {SP, 15} : r'[i] = IF i \in L THEN value(i) ELSE r[i]
    BY <1>7 DEF Popped
  <2> HIDE DEF value
  <2> QED
    BY <2>1 DEF TheRegs
<1>10. ThePc' = IF 15 \in L THEN value(15) ELSE Plus(ThePc, 1)
  <2>1. CASE 15 \in L
    <3> DEFINE v == value(15)
    <3>1. v \in Val /\ r'[15] = Plus(v, 2)
      BY <1>7, <2>1 DEF Popped
    <3> HIDE DEF v
    <3>2. Plus(Plus(v, 2), -2) = v
      BY <3>1, PcBack
    <3>3. ThePc' = v
      BY <3>1, <3>2 DEF ThePc
    <3> QED
      BY <2>1, <3>3 DEF v
  <2>2. CASE 15 \notin L
    <3>1. r'[15] = Plus(r[15], 1)
      BY <2>2 DEF Popped
    <3>2. Plus(Plus(r[15], 1), -2) = Plus(ThePc, 1)
      BY PcMoves DEF Inv
    <3> QED
      BY <2>2, <3>1, <3>2 DEF ThePc
  <2> QED
    BY <2>1, <2>2
<1>11. Stack!Pop(L)
  <2>1. Stack!Plus(ThePc, 1) = Plus(ThePc, 1)
    BY DEF Stack!Plus, Plus
  <2>2. Stack!Cardinality(L) = n
    BY DEF Stack!Cardinality, Cardinality
  <2>3. n <= Len(TheStack)
    BY <1>1, <1>6
  <2> HIDE DEF n
  <2> QED
    BY <1>8, <1>9, <1>10, <2>1, <2>2, <2>3, StackRegs
       DEF Stack!Pop, TheStack, TheRegs, ThePc, Popped
<1> QED
  BY <1>1, <1>4, <1>5, <1>11 DEF Inv
\* What leaves the stack alone.
LEMMA StackSame ==
    ASSUME TypeInv, r'[SP] = r[SP], UNCHANGED <<up, full>>, \A a \in StackWords : mem'[a] = mem[a]
    PROVE  Height' = Height /\ TheStack' = TheStack
<1>1. Height' = Height /\ \A k \in Int : Slot(k)' = Slot(k)
  BY DEF Height, Slot
<1>2. \A k \in 1 .. Height : mem'[Slot(k)] = mem[Slot(k)]
  BY DEF StackWords
<1> QED
  BY <1>1, <1>2 DEF TheStack

\* A branch with link leaves the address behind it in r14.
LEMMA CallStep ==
    ASSUME Inv, NEW t \in Targets, exec_bra(TRUE, t)
    PROVE  Inv' /\ Stack!Call(t)
<1>1. /\ r \in [Regs -> Val] /\ SP \in Regs /\ 15 \in Regs /\ SP # 15 /\ 14 \in Regs /\ 14 # SP
      /\ r[15] \in Val /\ r[15] \in Int /\ t \in Val /\ t \in Int
  <2>1. r \in [Regs -> Val] /\ 14 \in Regs /\ 14 # SP /\ t \in Val
    BY Sizes, StartAssumption DEF Inv, TypeInv, Val
  <2> QED
    BY <2>1, SpecialRegs, ValInt
<1> DEFINE link == Plus(r[15], -1)
           pc   == Plus(t, 2)
<1>2. link \in Val /\ pc \in Val
  BY <1>1, PlusIn
<1>3. r' = [r EXCEPT ![14] = link, ![15] = pc] /\ UNCHANGED <<mem, up, full>>
  BY DEF exec_bra
<1>4. link = Plus(ThePc, 1)
  <2> DEFINE m == -1
             n == -2
  <2>1. m = n + 1 /\ n \in Int
    OBVIOUS
  <2> HIDE DEF m, n
  <2>2. Plus(Plus(r[15], n), 1) = Plus(r[15], m)
    BY <1>1, <2>1, PlusPlus
  <2> QED
    BY <2>2 DEF m, n, ThePc
<1>5. Plus(pc, -2) = t
  BY <1>1, PcBack
<1> HIDE DEF link, pc
<1>6. r' \in [Regs -> Val] /\ r'[SP] = r[SP] /\ r'[15] = pc
  BY <1>1, <1>2, <1>3
<1>7. TypeInv'
  BY <1>3, <1>6 DEF Inv, TypeInv
<1>8. Height' = Height /\ TheStack' = TheStack
  BY <1>3, <1>6, StackSame DEF Inv
<1>9. TheRegs' = [TheRegs EXCEPT ![14] = link]
  <2>1. \A i \in Regs \ {SP, 15} : r'[i] = IF i = 14 THEN link ELSE r[i]
    BY <1>1, <1>3
  <2>2. TheRegs' \in [Regs \ {SP, 15} -> Val] /\ TheRegs \in [Regs \ {SP, 15} -> Val]
    BY <1>1, <1>6 DEF TheRegs
  <2>3. \A i \in Regs \ {SP, 15} : TheRegs'[i] = [TheRegs EXCEPT ![14] = link][i]
    BY <1>1, <2>1 DEF TheRegs
  <2> QED
    BY <1>1, <1>2, <2>2, <2>3
<1>10. ThePc' = t
  BY <1>5, <1>6 DEF ThePc
<1>11. Stack!Call(t)
  <2>1. Stack!Plus(ThePc, 1) = Plus(ThePc, 1)
    BY DEF Stack!Plus, Plus
  <2> QED
    BY <1>3, <1>4, <1>8, <1>9, <1>10, <2>1 DEF Stack!Call, TheStack, TheRegs, ThePc
<1> QED
  BY <1>7, <1>8, <1>11 DEF Inv

\* What an access through pointer rn does that moves it by d.
Accessed(rn, d, rd) ==
    /\ r' \in [Regs -> Val] /\ mem' \in [Val -> Val] /\ UNCHANGED <<up, full>>
    /\ r'[rn] = Plus(r[rn], d) /\ r'[15] = Plus(r[15], 1)
    /\ \A i \in Regs \ {rn, rd, 15} : r'[i] = r[i]
    /\ \A a \in StackWords : mem'[a] = mem[a]

LEMMA AccessStep ==
    ASSUME Inv, NEW rn \in Pointers, NEW d \in {-1, 0, 1},
           NEW rd \in Saved \ ({15} \cup Pointers), Accessed(rn, d, rd)
    PROVE  Inv' /\ Stack!Access(rn, d, rd)
<1>1. /\ rn \in Regs /\ rn # SP /\ rn # 15 /\ rd \in Regs /\ rd # SP /\ rd # 15 /\ rd # rn
      /\ SP \in Regs /\ 15 \in Regs /\ SP # 15
  BY SpecialRegs
<1>2. TypeInv'
  BY DEF Accessed, Inv, TypeInv
<1>3. Height' = Height /\ TheStack' = TheStack
  BY <1>1, StackSame DEF Accessed, Inv
<1> DEFINE v == r'[rd]
<1>4. v \in Val
  BY <1>1 DEF Accessed
<1>5. TheRegs' = [i \in Regs \ {SP, 15} |-> IF i = rn THEN Plus(TheRegs[rn], d)
                                              ELSE IF i = rd THEN v ELSE TheRegs[i]]
  BY <1>1 DEF Accessed, TheRegs
<1>6. ThePc' = Plus(ThePc, 1)
  <2>1. Plus(Plus(r[15], 1), -2) = Plus(ThePc, 1)
    BY PcMoves DEF Inv
  <2> QED
    BY <2>1 DEF Accessed, ThePc
<1> HIDE DEF v
<1>7. Stack!Access(rn, d, rd)
  <2>1. Stack!Plus(ThePc, 1) = Plus(ThePc, 1) /\ Stack!Plus(TheRegs[rn], d) = Plus(TheRegs[rn], d)
    BY DEF Stack!Plus, Plus
  <2>2. v \in Stack!Val
    BY <1>4 DEF Stack!Val, Val
  <2>3. \E w \in Stack!Val :
          TheRegs' = [i \in Stack!Regs |-> IF i = rn THEN Stack!Plus(TheRegs[rn], d)
                                             ELSE IF i = rd THEN w ELSE TheRegs[i]]
    BY <1>5, <2>1, <2>2, StackRegs
  <2> QED
    BY <1>3, <1>6, <2>1, <2>3 DEF Stack!Access, TheStack, TheRegs, ThePc, Accessed
<1> QED
  BY <1>2, <1>3, <1>7 DEF Inv
\* How far an access moves its pointer.
Offset(p, w, k) == IF p /\ ~w THEN 0 ELSE k

\* The registers rr of an access that moved the pointer, the memory mm.
LEMMA AccessIs ==
    ASSUME Inv, NEW rn \in Pointers, NEW d \in Int, NEW rd \in Saved \ ({15} \cup Pointers),
           NEW base \in Val, base \notin StackWords, NEW x \in Val, NEW y \in Val, NEW rr, NEW n,
           NEW l, rr = [IF l THEN [r EXCEPT ![rd] = x] ELSE r EXCEPT ![rn] = n],
           n = Plus(r[rn], d), r' = [rr EXCEPT ![15] = Plus(@, 1)],
           mem' = IF l THEN mem ELSE [mem EXCEPT ![base] = y], UNCHANGED <<up, full>>
    PROVE  Accessed(rn, d, rd)
<1>1. /\ rn \in Regs /\ rn # 15 /\ rd \in Regs /\ rd # 15 /\ rd # rn /\ 15 \in Regs
      /\ r \in [Regs -> Val] /\ mem \in [Val -> Val]
  BY SpecialRegs DEF Inv, TypeInv
<1>2. n \in Val /\ Plus(r[15], 1) \in Val
  <2>1. r[rn] \in Val /\ r[15] \in Val
    BY <1>1
  <2>2. r[rn] \in Int /\ r[15] \in Int
    BY <2>1, ValInt
  <2> QED
    BY <2>2, PlusIn
<1> DEFINE data == IF l THEN [r EXCEPT ![rd] = x] ELSE r
<1>3. data \in [Regs -> Val] /\ \A i \in Regs \ {rd} : data[i] = r[i]
  BY <1>1
<1>4. rr = [data EXCEPT ![rn] = n]
  OBVIOUS
<1> HIDE DEF data
<1>5. /\ r' \in [Regs -> Val] /\ r'[rn] = n /\ r'[15] = Plus(r[15], 1)
      /\ \A i \in Regs \ {rn, rd, 15} : r'[i] = r[i]
  BY <1>1, <1>2, <1>3, <1>4
<1>6. mem' \in [Val -> Val] /\ \A a \in Val : a # base => mem'[a] = mem[a]
  BY <1>1
<1>7. \A a \in StackWords : a \in Val /\ a # base
  <2>1. r[SP] \in Int /\ up \in BOOLEAN /\ full \in BOOLEAN /\ Height \in Int
    BY HeightFacts, ValInt DEF Inv, TypeInv
  <2>2. ASSUME NEW k \in 1 .. Height
        PROVE  Slot(k) \in Val
    <3> DEFINE below == IF full THEN k - 1 ELSE k
               s == IF up THEN -below ELSE below
    <3>1. s \in Int
      BY <2>1
    <3>2. Slot(k) = Plus(r[SP], s)
      BY DEF Slot
    <3> HIDE DEF s
    <3> QED
      BY <2>1, <3>1, <3>2, PlusIn
  <2> QED
    BY <2>2 DEF StackWords
<1> QED
  BY <1>5, <1>6, <1>7 DEF Accessed

LEMMA AccessBySdt ==
    ASSUME Inv, NEW l \in BOOLEAN, NEW p \in BOOLEAN, NEW w \in BOOLEAN, NEW k \in {-1, 1},
           NEW rn \in Pointers, NEW rd \in Saved \ ({15} \cup Pointers),
           Plus(r[rn], IF p THEN k ELSE 0) \notin StackWords, p \/ ~w,
           exec_sdt(l, p, w, rn, rd, k)
    PROVE  Accessed(rn, Offset(p, w, k), rd)
<1> DEFINE d == Offset(p, w, k)
           base == IF p THEN Plus(r[rn], k) ELSE r[rn]
           data == IF l THEN [r EXCEPT ![rd] = mem[base]] ELSE r
           n == Plus(r[rn], d)
           rr == WrittenBack(data, p, w, rn, base, k)
<1>1. /\ rn \in Regs /\ rn # 15 /\ rd \in Regs /\ rd # 15 /\ rd # rn /\ r \in [Regs -> Val]
      /\ mem \in [Val -> Val] /\ r[rn] \in Val /\ r[rn] \in Int /\ r[rd] \in Val
      /\ k \in Int /\ d \in Int
  <2>1. /\ rn \in Regs /\ rn # 15 /\ rd \in Regs /\ rd # 15 /\ rd # rn /\ r \in [Regs -> Val]
        /\ mem \in [Val -> Val]
    BY SpecialRegs DEF Inv, TypeInv
  <2>2. k \in Int /\ d \in Int
    BY DEF Offset
  <2> QED
    BY <2>1, <2>2, ValInt
<1>2. Plus(r[rn], 0) = r[rn]
  BY <1>1, PlusZero
<1>3. base \in Val /\ base \notin StackWords
  BY <1>1, <1>2, PlusIn
<1>4. /\ r' = [rr EXCEPT ![15] = Plus(@, 1)] /\ UNCHANGED <<up, full>>
      /\ mem' = IF l THEN mem ELSE [mem EXCEPT ![base] = r[rd]]
  BY <1>1 DEF exec_sdt
<1>5. rr = [data EXCEPT ![rn] = n]
  <2>1. data[rn] = r[rn] /\ data \in [Regs -> Val]
    BY <1>1, <1>3
  <2>2. CASE p /\ w
    <3>1. base = n
      BY <2>2 DEF Offset
    <3> HIDE DEF data, base, n
    <3> QED
      BY <2>2, <3>1 DEF WrittenBack
  <2>3. CASE p /\ ~w
    <3>1. n = r[rn]
      BY <1>2, <2>3 DEF Offset
    <3>2. rr = data
      BY <2>3, Zenon DEF WrittenBack
    <3> HIDE DEF data, base, n, rr
    <3> QED
      BY <1>1, <2>1, <3>1, <3>2
  <2>4. CASE ~p
    <3>1. n = Plus(r[rn], k)
      BY <2>4 DEF Offset
    <3>2. rr = [data EXCEPT ![rn] = Plus(@, k)]
      <4>1. ~p /\ ~w
        BY <2>4
      <4> QED
        BY <4>1, Zenon DEF WrittenBack
    <3> HIDE DEF data, base, n, rr
    <3> QED
      BY <2>1, <3>1, <3>2
  <2> QED
    BY <2>2, <2>3, <2>4
<1>6. rr = [IF l THEN [r EXCEPT ![rd] = mem[base]] ELSE r EXCEPT ![rn] = n]
  BY <1>5, Zenon
<1>7. mem[base] \in Val
  BY <1>1, <1>3
<1>8. n = Plus(r[rn], d)
  OBVIOUS
<1> HIDE DEF base, rr, n, d, data
<1>9. Accessed(rn, d, rd)
  BY <1>1, <1>3, <1>4, <1>6, <1>7, <1>8, AccessIs
<1> QED
  BY <1>9 DEF d

LEMMA AccessBySdth ==
    ASSUME Inv, NEW l \in BOOLEAN, NEW p \in BOOLEAN, NEW w \in BOOLEAN, NEW k \in {-1, 1},
           NEW rn \in Pointers, NEW rd \in Saved \ ({15} \cup Pointers),
           Plus(r[rn], IF p THEN k ELSE 0) \notin StackWords, p \/ ~w,
           exec_sdth(l, p, w, rn, rd, k)
    PROVE  Accessed(rn, Offset(p, w, k), rd)
<1> DEFINE d == Offset(p, w, k)
           base == IF p THEN Plus(r[rn], k) ELSE r[rn]
           data == IF l THEN [r EXCEPT ![rd] = mem[base]] ELSE r
           last == IF p THEN base ELSE Plus(base, k)
           n == Plus(r[rn], d)
           rr == IF w \/ ~p THEN [data EXCEPT ![rn] = last] ELSE data
<1>1. /\ rn \in Regs /\ rn # 15 /\ rd \in Regs /\ rd # 15 /\ rd # rn /\ r \in [Regs -> Val]
      /\ mem \in [Val -> Val] /\ r[rn] \in Val /\ r[rn] \in Int /\ r[rd] \in Val
      /\ k \in Int /\ d \in Int
  <2>1. /\ rn \in Regs /\ rn # 15 /\ rd \in Regs /\ rd # 15 /\ rd # rn /\ r \in [Regs -> Val]
        /\ mem \in [Val -> Val]
    BY SpecialRegs DEF Inv, TypeInv
  <2>2. k \in Int /\ d \in Int
    BY DEF Offset
  <2> QED
    BY <2>1, <2>2, ValInt
<1>2. Plus(r[rn], 0) = r[rn]
  BY <1>1, PlusZero
<1>3. base \in Val /\ base \notin StackWords
  BY <1>1, <1>2, PlusIn
<1>4. /\ r' = [rr EXCEPT ![15] = Plus(@, 1)] /\ UNCHANGED <<up, full>>
      /\ mem' = IF l THEN mem ELSE [mem EXCEPT ![base] = r[rd]]
  BY <1>1 DEF exec_sdth
<1>5. rr = [data EXCEPT ![rn] = n]
  <2>1. data[rn] = r[rn] /\ data \in [Regs -> Val]
    BY <1>1, <1>3
  <2>2. CASE p /\ ~w
    <3>1. n = r[rn] /\ rr = data
      BY <1>2, <2>2 DEF Offset
    <3> HIDE DEF data, base, n, rr
    <3> QED
      BY <1>1, <2>1, <3>1
  <2>3. CASE ~(p /\ ~w)
    <3>1. last = n /\ (w \/ ~p)
      BY <2>3 DEF Offset
    <3> HIDE DEF data, last, n
    <3> QED
      BY <3>1
  <2> QED
    BY <2>2, <2>3
<1>6. rr = [IF l THEN [r EXCEPT ![rd] = mem[base]] ELSE r EXCEPT ![rn] = n]
  BY <1>5, Zenon
<1>7. mem[base] \in Val
  BY <1>1, <1>3
<1>8. n = Plus(r[rn], d)
  OBVIOUS
<1> HIDE DEF base, rr, n, d, data, last
<1>9. Accessed(rn, d, rd)
  BY <1>1, <1>3, <1>4, <1>6, <1>7, <1>8, AccessIs
<1> QED
  BY <1>9 DEF d
-----------------------------------------------------------------------------
(* Loads and stores implement the stack *)

LEMMA InitStep == Init => Inv /\ Stack!Init
<1> SUFFICES ASSUME Init PROVE Inv /\ Stack!Init
  OBVIOUS
<1>1. /\ r = [i \in Regs |-> IF i = SP THEN Start ELSE IF i = 15 THEN 2 ELSE 0]
      /\ mem = [a \in Val |-> 0] /\ up \in BOOLEAN /\ full \in BOOLEAN
  BY DEF Init
<1>2. TypeInv
  BY <1>1, Sizes DEF TypeInv
<1>3. r[SP] = Start /\ r[15] = 2 /\ \A i \in Regs \ {SP, 15} : r[i] = 0
  BY <1>1, SpecialRegs
<1>4. Height = 0
  <2>1. Start - Start = 0 /\ 0 % AddrSize = 0
    BY Sizes
  <2> QED
    BY <1>3, <2>1 DEF Height
<1>5. TheStack = <<>>
  <2>1. TheStack \in Seq(Val) /\ Len(TheStack) = 0
    BY <1>2, <1>4, StackNow
  <2> QED
    BY <2>1, EmptySeq
<1>6. ThePc = 0
  <2>1. Plus(Plus(0, 2), -2) = 0 /\ Plus(0, 2) = 2
    <3>1. 0 + 2 = 2 /\ 2 % AddrSize = 2
      BY Sizes
    <3> QED
      BY <3>1, Sizes, PcBack DEF Plus
  <2> QED
    BY <1>3, <2>1 DEF ThePc
<1>7. TheRegs = [i \in Stack!Regs |-> 0]
  BY <1>3, StackRegs DEF TheRegs
<1>8. Stack!Init
  BY <1>1, <1>5, <1>6, <1>7 DEF Stack!Init, TheStack, TheRegs, ThePc
<1> QED
  BY <1>2, <1>4, <1>8, Sizes DEF Inv

LEMMA NextStep ==
    ASSUME Inv, ~TVariants, [Next]_vars
    PROVE  Inv' /\ [Stack!Next]_(Stack!vars)
<1>1. ASSUME Push
      PROVE  Inv' /\ Stack!Next
  <2>1. PICK L \in SUBSET Saved :
          /\ Height + Cardinality(L) <= Depth
          /\ \/ exec_bdt(FALSE, full, up, TRUE, SP, L)
             \/ \E i \in L : /\ L = {i}
                             /\ exec_sdt(FALSE, full, full, SP, i, IF up THEN 1 ELSE -1)
    BY <1>1, Zenon DEF Push
  <2>2. Pushed(L)
    BY <2>1, PushByBdt, PushBySdt
  <2>3. Inv' /\ Stack!Push(L)
    BY <2>1, <2>2, PushStep
  <2> QED
    BY <2>3 DEF Stack!Next
<1>2. ASSUME Pop
      PROVE  Inv' /\ Stack!Next
  <2>1. PICK L \in SUBSET Saved :
          /\ Cardinality(L) <= Height
          /\ \/ exec_bdt(TRUE, ~full, ~up, TRUE, SP, L)
             \/ \E i \in L : /\ L = {i}
                             /\ exec_sdt(TRUE, ~full, ~full, SP, i, IF up THEN -1 ELSE 1)
    BY <1>2, Zenon DEF Pop
  <2>2. Popped(L)
    BY <2>1, PopByBdt, PopBySdt
  <2>3. Inv' /\ Stack!Pop(L)
    BY <2>1, <2>2, PopStep
  <2> QED
    BY <2>3 DEF Stack!Next
<1>3. ASSUME Index
      PROVE  Inv' /\ Stack!Next
  <2>1. PICK l \in BOOLEAN, p \in BOOLEAN, w \in BOOLEAN, k \in {-1, 1}, rn \in Pointers,
             rd \in Saved \ ({15} \cup Pointers) :
          /\ Plus(r[rn], IF p THEN k ELSE 0) \notin StackWords
          /\ \/ (~p /\ w => TVariants) /\ exec_sdt(l, p, w, rn, rd, k)
             \/ (p \/ ~w) /\ exec_sdth(l, p, w, rn, rd, k)
    BY <1>3, Zenon DEF Index
  <2> DEFINE d == Offset(p, w, k)
  <2>2. Accessed(rn, d, rd)
    BY <2>1, AccessBySdt, AccessBySdth
  <2>3. d \in {-1, 0, 1} /\ rd \in Stack!Regs \ Pointers
    BY DEF Offset, Stack!Regs
  <2> HIDE DEF d
  <2>4. Inv' /\ Stack!Access(rn, d, rd)
    BY <2>2, <2>3, AccessStep
  <2> QED
    BY <2>3, <2>4 DEF Stack!Next
<1>4. ASSUME Call
      PROVE  Inv' /\ Stack!Next
  <2>1. PICK t \in Targets : exec_bra(TRUE, t)
    BY <1>4 DEF Call
  <2>2. Inv' /\ Stack!Call(t)
    BY <2>1, CallStep
  <2> QED
    BY <2>2 DEF Stack!Next
<1>5. ASSUME UNCHANGED vars
      PROVE  Inv' /\ UNCHANGED Stack!vars
  <2>1. UNCHANGED <<r, mem, up, full>>
    BY <1>5 DEF vars
  <2>2. Height' = Height /\ \A k : Slot(k)' = Slot(k)
    BY <2>1 DEF Height, Slot
  <2>3. Inv'
    BY <2>1, <2>2 DEF Inv, TypeInv
  <2>4. UNCHANGED Stack!vars
    BY <2>1, <2>2 DEF Stack!vars
  <2> QED
    BY <2>3, <2>4
<1> QED
  BY <1>1, <1>2, <1>3, <1>4, <1>5 DEF Next

(* Without LDRT and STRT: in each of the four conventions, whatever the       *)
(* registers pushed, the depth of the stack and the size of the address       *)
(* space, multiple and single transfers, accesses through pointers and calls  *)
(* implement the sequence of words of GuestStack.                             *)
THEOREM Implements == ASSUME ~TVariants PROVE Spec => ImplementsStack
<1>1. Init => Inv /\ Stack!Init
  BY InitStep
<1>2. Inv /\ [Next]_vars => Inv' /\ [Stack!Next]_(Stack!vars)
  BY NextStep
<1> QED
  BY <1>1, <1>2, PTL DEF Spec, ImplementsStack, Stack!Spec
=============================================================================

----------------------------- MODULE Collections -----------------------------
(***************************************************************************)
(* What the containers of libjtype promise: a map, a list that is filled   *)
(* and then consumed, a sequence that is edited in place, and a bag whose  *)
(* least item is taken first.  ret is the result of the last operation.    *)
(***************************************************************************)
EXTENDS Naturals, Sequences, SequencesExt, Functions

CONSTANTS Keys, Data, Nothing

VARIABLES map,   \* from some of the keys to data
          list,  \* its head first
          seq,
          bag,   \* how many items there are of each key
          ret

vars == <<map, list, seq, bag, ret>>

Init ==
  /\ map = << >>
  /\ list = << >>
  /\ seq = << >>
  /\ bag = [k \in Keys |-> 0]
  /\ ret = Nothing

Lookup(k) == IF k \in DOMAIN map THEN map[k] ELSE Nothing

Store(k, d) ==
  ret' = Nothing /\ map' = [j \in DOMAIN map \cup {k} |-> IF j = k THEN d ELSE map[j]]
Drop(k) ==
  ret' = Lookup(k) /\ map' = Restrict(map, DOMAIN map \ {k})
Find(k) == ret' = Lookup(k) /\ map' = map
Flush == ret' = Nothing /\ map' = << >>

MapNext ==
  /\ UNCHANGED <<list, seq, bag>>
  /\ \/ \E k \in Keys : (\E d \in Data : Store(k, d)) \/ Drop(k) \/ Find(k)
     \/ Flush

Push(d) == ret' = Nothing /\ list' = <<d>> \o list
Turn == ret' = Nothing /\ list' = Reverse(list)
Pop == list # << >> /\ ret' = Head(list) /\ list' = Tail(list)

ListNext ==
  /\ UNCHANGED <<map, seq, bag>>
  /\ (\E d \in Data : Push(d)) \/ Turn \/ Pop

Edit ==
  \/ \E i \in 1..(Len(seq) + 1), d \in Data : seq' = InsertAt(seq, i, d)
  \/ \E i \in 1..Len(seq) : seq' = RemoveAt(seq, i)
  \/ \E i, j \in 1..Len(seq) : seq' = InsertAt(RemoveAt(seq, i), j, seq[i])

SeqNext ==
  /\ UNCHANGED <<map, list, bag>>
  /\ ret' = Nothing /\ Edit

Put(k) == ret' = Nothing /\ bag' = [bag EXCEPT ![k] = @ + 1]
TakeLeast(k) ==
  /\ ret' = k
  /\ bag[k] > 0
  /\ \A j \in Keys : bag[j] > 0 => k <= j
  /\ bag' = [bag EXCEPT ![k] = @ - 1]

BagNext ==
  /\ UNCHANGED <<map, list, seq>>
  /\ \E k \in Keys : Put(k) \/ TakeLeast(k)

Next == MapNext \/ ListNext \/ SeqNext \/ BagNext
Spec == Init /\ [][Next]_vars
=============================================================================

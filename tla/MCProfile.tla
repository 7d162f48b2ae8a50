----------------------------- MODULE MCProfile ------------------------------
(***************************************************************************)
(* Guests of four words whose blocks differ in length, overlap, fall into  *)
(* each other or loop, and before them an interrupt handler of two words.  *)
(***************************************************************************)
EXTENDS Profile, TLC

Plain == [k |-> "plain", dest |-> 0]
B(to) == [k |-> "b", dest |-> to]
Bcc(to) == [k |-> "bcc", dest |-> to]

Guest(g) == (0 :> Plain) @@ (1 :> [k |-> "ret", dest |-> 0])
            @@ (2 :> g[1]) @@ (3 :> g[2]) @@ (4 :> g[3]) @@ (5 :> g[4])
mcPrograms == {Guest(g) : g \in
  {<<Plain, Bcc(2), Plain, B(2)>>,       \* two loops, one within the other
   <<Plain, Bcc(5), B(2), B(3)>>,        \* a block entered in the middle
   <<Bcc(4), Plain, Plain, B(2)>>,       \* a choice of two
   <<Plain, Plain, Plain, B(4)>>,        \* a loop of two words
   <<Plain, Plain, Bcc(3), B(2)>>}}
mcEntries == {2, 4}
=============================================================================

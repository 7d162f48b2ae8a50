------------------------------- MODULE MCMmu --------------------------------
(***************************************************************************)
(* One section of two pages of two quarters, one domain and two places for *)
(* first-level tables.  First-level descriptors: a second-level table with *)
(* a small page of unequal subpages and a missing page, one with a large   *)
(* page in both slots, a section, and a section on a frame without         *)
(* handlers.                                                               *)
(***************************************************************************)
EXTENDS Mmu, TLC

SmallPage == [type |-> "coarse", domain |-> "d",
              l2 |-> 0 :> [type |-> "small", base |-> "ram1", ap |-> 0 :> 0 @@ 1 :> 3] @@
                     1 :> [type |-> "fault"]]

LargePage == [type |-> "coarse", domain |-> "d",
              l2 |-> [p \in Pages |-> [type |-> "large", base |-> "ram0",
                                       ap |-> 0 :> 1 @@ 1 :> 0]]]

Section(base, ap) == [type |-> "section", domain |-> "d", base |-> base, ap |-> ap]

MCDescs == {SmallPage, LargePage, Section("ram0", 1), Section("hole", 3)}

Word(m, a, s) == [m |-> m, a |-> a, s |-> s, r |-> 0]

MCControls == {Word(0, 0, 0), Word(1, 0, 0), Word(1, 1, 1)}

TableSymmetry == Permutations(Tables)
=============================================================================

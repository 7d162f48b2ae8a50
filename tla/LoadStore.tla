----------------------------- MODULE LoadStore ------------------------------
(***************************************************************************)
(* Loads, stores, block transfers and branches of core/execute.inc.c       *)
(* (32-bit variant, LART build) on aligned words of memory that is mapped: *)
(* translation and faults are in Mmu, the forms of LDM and STM with ^ in   *)
(* Processor.  An address counts words.                                    *)
(*                                                                         *)
(* The guest keeps a stack in one of the four conventions of the ARM, the  *)
(* stack pointer at the last word pushed (full) or behind it (empty), and  *)
(* addresses its other data by pointers that stay off the stack.           *)
(***************************************************************************)
EXTENDS Integers, FiniteSets

CONSTANTS AddrSize, Saved, Pointers, Targets,   \* as in GuestStack
          Start,       \* initial stack pointer
          Depth,       \* words the guest's stack may hold
          TVariants    \* the guest uses LDRT and STRT

ASSUME AddrAssumption == AddrSize \in Nat /\ AddrSize > 2 /\ Depth \in 1 .. AddrSize - 1
ASSUME RegsAssumption == /\ Saved \subseteq (0..12) \cup {14, 15} /\ 14 \in Saved
                         /\ Pointers \subseteq 0..12
ASSUME StartAssumption == Start \in 0 .. AddrSize - 1 /\ Targets \subseteq 0 .. AddrSize - 1
ASSUME TAssumption == TVariants \in BOOLEAN

VARIABLES r,          \* the registers; r[15] is two instructions ahead
          mem,
          up, full    \* the guest's stack convention

vars == <<r, mem, up, full>>

SP == 13
Val == 0 .. AddrSize - 1
Plus(a, k) == (a + k) % AddrSize
Regs == Saved \cup Pointers \cup {SP, 15}

-----------------------------------------------------------------------------
(* Instructions *)

\* Mutant: the loop counts the same way in both directions.
Visited_upwards(k, u) == k - 1

\* The register that turn k of exec_bdt's loops looks at: r0 to r15 upwards in
\* memory, r15 to r0 downwards.
Visited(k, u) == IF u THEN k - 1 ELSE 16 - k

\* A turn that transfers: the base moves before or after the transfer.
BdtStep(l, p, u, s, i) ==
    LET moved == Plus(s.base, IF u THEN 1 ELSE -1)
        at    == IF p THEN moved ELSE s.base
    IN  IF l THEN [s EXCEPT !.base = moved, !.r[i] = s.mem[at]]
        ELSE [s EXCEPT !.base = moved, !.mem[at] = s.r[i]]

\* The loop, from base, registers and memory s: sixteen turns, one per register.
BdtLoop(l, p, u, list, s) ==
    LET after[k \in 0 .. 16] ==
          IF k = 0 THEN s
          ELSE IF Visited(k, u) \in list THEN BdtStep(l, p, u, after[k - 1], Visited(k, u))
          ELSE after[k - 1]
    IN  after[16]

\* LDM and STM without ^.  The base is written back after the transfers; a
\* loaded r15 is corrected for the pipeline.
exec_bdt(l, p, u, w, rn, list) ==
    LET done == BdtLoop(l, p, u, list, [base |-> r[rn], r |-> r, mem |-> mem])
        back == IF w THEN [done.r EXCEPT ![rn] = done.base] ELSE done.r
    IN  /\ r' = [back EXCEPT ![15] = Plus(@, IF l /\ 15 \in list THEN 2 ELSE 1)]
        /\ mem' = done.mem
        /\ UNCHANGED <<up, full>>

\* The two write-backs of exec_sdt, in their order: a post-indexed access adds
\* the offset to the register, then W stores the address used.
WrittenBack(rr, p, w, rn, base, offset) ==
    LET post == IF p THEN rr ELSE [rr EXCEPT ![rn] = Plus(@, offset)]
    IN  IF w THEN [post EXCEPT ![rn] = base] ELSE post

\* LDR and STR; not p and w together are LDRT and STRT.
exec_sdt(l, p, w, rn, rd, offset) ==
    LET base == IF p THEN Plus(r[rn], offset) ELSE r[rn]
        data == IF l THEN [r EXCEPT ![rd] = mem[base]] ELSE r
        back == WrittenBack(data, p, w, rn, base, offset)
    IN  /\ r' = [back EXCEPT ![15] = Plus(@, IF l /\ rd = 15 THEN 2 ELSE 1)]
        /\ mem' = IF l THEN mem ELSE [mem EXCEPT ![base] = r[rd]]
        /\ UNCHANGED <<up, full>>

\* Halfword and signed loads and stores: one write-back, for a post-indexed
\* access too.  r15 is never loaded; it is stored one instruction further.
exec_sdth(l, p, w, rn, rd, offset) ==
    LET base == IF p THEN Plus(r[rn], offset) ELSE r[rn]
        data == IF l THEN [r EXCEPT ![rd] = mem[base]] ELSE r
        last == IF p THEN base ELSE Plus(base, offset)
        back == IF w \/ ~p THEN [data EXCEPT ![rn] = last] ELSE data
    IN  /\ r' = [back EXCEPT ![15] = Plus(@, 1)]
        /\ mem' = IF l THEN mem
                  ELSE [mem EXCEPT ![base] = IF rd = 15 THEN Plus(r[15], 1) ELSE r[rd]]
        /\ UNCHANGED <<up, full>>

\* B and BL to address t.
exec_bra(l, t) == /\ r' = [r EXCEPT ![14] = IF l THEN Plus(r[15], -1) ELSE @, ![15] = Plus(t, 2)]
                  /\ UNCHANGED <<mem, up, full>>

-----------------------------------------------------------------------------
(* The guest *)

Init == /\ r = [i \in Regs |-> IF i = SP THEN Start ELSE IF i = 15 THEN 2 ELSE 0]
        /\ mem = [a \in Val |-> 0]
        /\ up \in BOOLEAN
        /\ full \in BOOLEAN

\* Words on the stack, and the address of the k-th from the top.
Height == (IF up THEN r[SP] - Start ELSE Start - r[SP]) % AddrSize
Slot(k) == LET below == IF full THEN k - 1 ELSE k
           IN  Plus(r[SP], IF up THEN -below ELSE below)
StackWords == {Slot(k) : k \in 1 .. Height}

\* Pushing, by STM or by a single store, in the direction of the stack.
Push == \E L \in SUBSET Saved :
          /\ L # {} /\ Height + Cardinality(L) <= Depth
          /\ \/ exec_bdt(FALSE, full, up, TRUE, SP, L)
             \/ \E i \in L : /\ L = {i}
                             /\ exec_sdt(FALSE, full, full, SP, i, IF up THEN 1 ELSE -1)

\* Popping, by the opposite LDM or by a single load.
Pop == \E L \in SUBSET Saved :
         /\ L # {} /\ Cardinality(L) <= Height
         /\ \/ exec_bdt(TRUE, ~full, ~up, TRUE, SP, L)
            \/ \E i \in L : /\ L = {i}
                            /\ exec_sdt(TRUE, ~full, ~full, SP, i, IF up THEN -1 ELSE 1)

\* Indexed accesses through a pointer, off the stack.
Index == \E l, p, w \in BOOLEAN, k \in {-1, 1}, rn \in Pointers, rd \in Saved \ ({15} \cup Pointers) :
           /\ Plus(r[rn], IF p THEN k ELSE 0) \notin StackWords
           /\ \/ (~p /\ w => TVariants) /\ exec_sdt(l, p, w, rn, rd, k)
              \/ (p \/ ~w) /\ exec_sdth(l, p, w, rn, rd, k)

Call == \E t \in Targets : exec_bra(TRUE, t)

Next == Push \/ Pop \/ Index \/ Call

Spec == Init /\ [][Next]_vars

-----------------------------------------------------------------------------
(* Properties *)

Stack == INSTANCE GuestStack WITH
           regs  <- [i \in Regs \ {SP, 15} |-> r[i]],
           pc    <- Plus(r[15], -2),
           stack <- [k \in 1 .. Height |-> mem[Slot(k)]]

\* In each of the four stack conventions, STM and LDM, single pushes and pops
\* mixed with them in any way, calls and returns by popping r15 implement a
\* sequence of words: every register comes back from where it went, the link
\* and return addresses are right, pointers move by their offsets, and the
\* stack pointer wraps with the address space.
ImplementsStack == Stack!Spec
=============================================================================

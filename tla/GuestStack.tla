----------------------------- MODULE GuestStack -----------------------------
(***************************************************************************)
(* What loads, stores and branches promise a compiled guest program: its   *)
(* stack is a sequence of words, pushing and popping any set of registers  *)
(* moves them in one order, a branch with link leaves the address behind   *)
(* it in the link register, popping the program counter jumps to the word  *)
(* popped, and indexed accesses move a pointer by exactly their offset.    *)
(***************************************************************************)
EXTENDS Integers, Sequences, FiniteSets

CONSTANTS AddrSize,    \* words of the address space
          Saved,       \* registers the program pushes and pops, r15 possibly too
          Pointers,    \* registers it walks through memory with
          Targets      \* addresses it calls

Val == 0 .. AddrSize - 1
Plus(a, k) == (a + k) % AddrSize

VARIABLES regs,     \* the registers other than the stack pointer and r15
          pc,       \* address of the instruction to be executed
          stack,    \* top first
          up        \* the stack grows upwards

vars == <<regs, pc, stack, up>>

\* How deep register i lies when the set L has been pushed: the lowest register
\* at the lowest address.
Place(L, i) == Cardinality({j \in L : IF up THEN j >= i ELSE j <= i})

Regs == (Saved \cup Pointers) \ {15}

Init == /\ regs = [i \in Regs |-> 0]
        /\ pc = 0
        /\ stack = <<>>
        /\ up \in BOOLEAN

\* Pushing r15 stores the address two instructions ahead.
Push(L) ==
    LET value(i) == IF i = 15 THEN Plus(pc, 2) ELSE regs[i]
        at(k)    == CHOOSE i \in L : Place(L, i) = k
    IN  /\ stack' = [k \in 1 .. Cardinality(L) |-> value(at(k))] \o stack
        /\ pc' = Plus(pc, 1)
        /\ UNCHANGED <<regs, up>>

Pop(L) ==
    LET n == Cardinality(L)
        value(i) == stack[Place(L, i)]
    IN  /\ n <= Len(stack)
        /\ stack' = SubSeq(stack, n + 1, Len(stack))
        /\ regs' = [i \in Regs |-> IF i \in L THEN value(i) ELSE regs[i]]
        /\ pc' = IF 15 \in L THEN value(15) ELSE Plus(pc, 1)
        /\ UNCHANGED up

Call(t) == /\ regs' = [regs EXCEPT ![14] = Plus(pc, 1)]
           /\ pc' = t
           /\ UNCHANGED <<stack, up>>

\* An access through pointer rn, outside the stack: a load gives register rd
\* some value, a store none, and the pointer moves by k, or by nothing.
Access(rn, k, rd) ==
    /\ \E v \in Val : regs' = [i \in Regs |-> IF i = rn THEN Plus(regs[rn], k)
                                                     ELSE IF i = rd THEN v ELSE regs[i]]
    /\ pc' = Plus(pc, 1)
    /\ UNCHANGED <<stack, up>>

Next == \/ \E L \in SUBSET Saved : Push(L) \/ Pop(L)
        \/ \E t \in Targets : Call(t)
        \/ \E rn \in Pointers, k \in {-1, 0, 1}, rd \in Regs \ Pointers : Access(rn, k, rd)

Spec == Init /\ [][Next]_vars
=============================================================================

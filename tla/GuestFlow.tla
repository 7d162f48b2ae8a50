------------------------------ MODULE GuestFlow ------------------------------
(***************************************************************************)
(* The guest under the emulation loop: it goes through its program from    *)
(* word to word, and an interrupt that is enabled may come between two     *)
(* instructions.  What a word does is left to where it leads.              *)
(***************************************************************************)
EXTENDS Integers

CONSTANTS Programs,  \* what the guest may run
          Entries,   \* where it starts
          Vector     \* where an interrupt goes, as on the machine a low address

VARIABLES prog,     \* the guest's words: [k, dest], by address
          pc, lr,   \* the next instruction, the interrupt's return address
          irqoff    \* interrupts are disabled

guest == <<prog, pc, lr, irqoff>>

\* Where an instruction may lead, and if it writes r15.  A conditional branch
\* asks for flags and goes either way, ret is a handler's return.
Goes(word, a, link) ==
  CASE word.k = "plain" -> {[to |-> a + 1, wrote |-> FALSE]}
    [] word.k = "b"     -> {[to |-> word.dest, wrote |-> TRUE]}
    [] word.k = "bcc"   -> {[to |-> a + 1, wrote |-> FALSE],
                            [to |-> word.dest, wrote |-> TRUE]}
    [] word.k = "ret"   -> {[to |-> link, wrote |-> TRUE]}

\* A program is one the machine has memory for: from every word, the vector and
\* the entries it goes on to another.  A return finds an address of the program.
ASSUME GuestAssumption ==
  \A p \in Programs :
    /\ DOMAIN p \subseteq Nat
    /\ {0, Vector} \cup Entries \subseteq DOMAIN p
    /\ \A a \in DOMAIN p :
         /\ p[a].k \in {"plain", "b", "bcc", "ret"}
         /\ p[a].k \in {"plain", "bcc"} => a + 1 \in DOMAIN p
         /\ p[a].k \in {"b", "bcc"} => p[a].dest \in DOMAIN p

Start ==
  /\ prog \in Programs
  /\ pc \in Entries /\ lr = 0
  /\ irqoff = FALSE

\* One instruction; a return from an interrupt enables them again.
Step(g) ==
  /\ g \in Goes(prog[pc], pc, lr)
  /\ pc' = g.to
  /\ irqoff' = (irqoff /\ prog[pc].k # "ret")
  /\ UNCHANGED <<prog, lr>>

\* processor_irq
Interrupted ==
  /\ ~irqoff
  /\ pc' = Vector /\ lr' = pc /\ irqoff' = TRUE
  /\ UNCHANGED prog
=============================================================================

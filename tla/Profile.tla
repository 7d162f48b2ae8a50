------------------------------- MODULE Profile -------------------------------
(***************************************************************************)
(* The emulation loop of a build with RECOMPILE (machine_start in          *)
(* core/machine.c, profile.c, transmap.c): the interpreter tells the       *)
(* profiler where a block starts and which of its instructions wrote r15;  *)
(* the profiler counts, has a block translated when it is hot, and runs    *)
(* the native code when the guest comes back.  A word has one address, and *)
(* a length counts words.                                                  *)
(***************************************************************************)
EXTENDS GuestFlow

CONSTANTS Threshold,  \* RECOMPILE_THRESHOLD
          maxblocks,  \* translations the machine allows itself
          Disturbances \* bound: interrupts and debugger stops

ASSUME ProfileAssumption ==
  Threshold \in Nat /\ maxblocks \in Nat /\ Disturbances \in Nat

None == -1

VARIABLES feednewpc,    \* local variable of machine_start
          ran,          \* an instruction ends this turn of its loop
          start, currenttrans, \* profile_state; an entry is known by its address
          transmap,     \* the entries: [length, usecount, code], code the
                        \* number of words translated or None
          curblocks,
          native,       \* the translation that runs, by its address
          disturbances, \* interrupts and debugger stops so far
          halted,       \* how the process ended
          strayed,      \* history: an interrupt came since start was set
          seen,         \* history: words the interpreter has run
          own           \* history: entries whose extent a run of their own set

profile == <<start, currenttrans, transmap, curblocks>>
allvars == <<guest, feednewpc, ran, profile, native, disturbances, halted, strayed, seen, own>>

Init ==
  /\ Start
  /\ feednewpc = TRUE /\ ran = FALSE
  /\ start = None /\ currenttrans = None
  /\ transmap = << >>
  /\ curblocks = 0
  /\ native = None
  /\ disturbances = 0
  /\ halted = "no"
  /\ strayed = FALSE /\ seen = {} /\ own = {}

Running == halted = "no" /\ native = None
Feeding == Running /\ feednewpc

----------------------------------------------------------------------------
(* profile_feednseqaddr, at a new leader *)

\* transmap_getentry: the entry for an address
Known(a) == {b \in DOMAIN transmap : b = a}
TheEntry(a) == CHOOSE b \in Known(a) : TRUE

\* RECOMPILE_THRESHOLD is all that a count is compared with.
Counted(n) == IF n > Threshold THEN n ELSE n + 1

\* No entry yet: a new one becomes the current one.
FeedNew ==
  /\ Feeding /\ Known(pc) = {}
  /\ start' = pc /\ currenttrans' = pc
  /\ transmap' = [a \in DOMAIN transmap \cup {pc} |->
                    IF a = pc THEN [length |-> 0, usecount |-> 0, code |-> None]
                    ELSE transmap[a]]
  /\ feednewpc' = FALSE
  /\ ran' = FALSE /\ strayed' = FALSE
  /\ UNCHANGED <<guest, curblocks, native, disturbances, halted, seen, own>>

\* There is native code: it runs, and the next address is fed.
FeedNative ==
  /\ Feeding /\ Known(pc) # {} /\ transmap[TheEntry(pc)].code # None
  /\ native' = TheEntry(pc)
  /\ pc' = native'
  /\ start' = None
  /\ ran' = FALSE /\ strayed' = FALSE
  /\ UNCHANGED <<prog, lr, irqoff, feednewpc, currenttrans, transmap, curblocks, disturbances, halted, seen, own>>

\* No code yet: the entry that is still the current one is counted, and this
\* one is translated if that makes it hot.
FeedKnown == Feeding /\ Known(pc) # {} /\ transmap[TheEntry(pc)].code = None
Count == [transmap EXCEPT ![currenttrans].usecount = Counted(@)]

\* Mutant of Hot: the entry at hand is looked at, the current one counted.
Hot_own == transmap[TheEntry(pc)].usecount > Threshold /\ curblocks < maxblocks

Hot == Count[currenttrans].usecount > Threshold /\ curblocks < maxblocks

FeedCold ==
  /\ FeedKnown /\ currenttrans # None /\ ~Hot
  /\ transmap' = Count
  /\ start' = pc
  /\ feednewpc' = FALSE
  /\ ran' = FALSE /\ strayed' = FALSE
  /\ UNCHANGED <<guest, currenttrans, curblocks, native, disturbances, halted, seen, own>>

\* recompile_chunk takes the words of the length as it is now, and needs one at
\* least (the translation of none has no block to emit into); the new code runs
\* at once.
FeedHot ==
  /\ FeedKnown /\ currenttrans # None /\ Hot
  /\ LET e == TheEntry(pc)
     IN /\ currenttrans' = e
        /\ transmap' = [Count EXCEPT ![e].code = transmap[e].length]
        /\ native' = e
        /\ pc' = e
        /\ halted' = IF transmap[e].length = 0 THEN "empty" ELSE halted
  /\ curblocks' = curblocks + 1
  /\ start' = None
  /\ ran' = FALSE /\ strayed' = FALSE
  /\ UNCHANGED <<prog, lr, irqoff, feednewpc, disturbances, seen, own>>

----------------------------------------------------------------------------
(* One turn of the loop *)

\* Mutant of Words: the instruction that wrote r15 is left out.
Words_short(addr) == addr - start

\* Mutant of Words: the address is the next instruction's.
Words_ahead(addr) == addr - start + 2

\* From the start of the block to an instruction, both included
Words(addr) == addr - start + 1

\* profile_feedseqaddr, with the address of an instruction that wrote r15.  It
\* belongs to the block, extends the current entry, or the process ends.  The
\* current entry may have its code by then, which stays as it is.
feedseqaddr(addr) ==
  LET valid == start # None
      beyond == valid /\ addr >= start + transmap[currenttrans].length
      before == valid /\ ~beyond /\ addr < start
  IN /\ halted' = IF before THEN "assert" ELSE IF valid THEN halted ELSE "invalid"
     /\ start' = IF before THEN None ELSE start
     /\ transmap' = IF beyond THEN [transmap EXCEPT ![currenttrans].length = Words(addr)]
                    ELSE transmap
     /\ own' = IF ~beyond \/ transmap[currenttrans].code # None THEN own
               ELSE IF currenttrans = start /\ ~strayed THEN own \cup {start}
               ELSE own \ {currenttrans}
     /\ UNCHANGED <<currenttrans, curblocks>>

\* Mutant of StartsBlock: only a jump forward is followed by a new block.
StartsBlock_forward(g) == g.wrote /\ g.to > pc

\* Behind an instruction that wrote r15 a block starts.
StartsBlock(g) == g.wrote

Execute ==
  /\ Running /\ ~feednewpc
  /\ \E g \in Goes(prog[pc], pc, lr) :
       /\ Step(g)
       /\ IF g.wrote THEN feedseqaddr(pc) ELSE UNCHANGED <<profile, own, halted>>
       /\ feednewpc' = StartsBlock(g)
  /\ ran' = TRUE
  /\ seen' = seen \cup {pc}
  /\ UNCHANGED <<native, disturbances, strayed>>

\* ostimer_clock at the end of a turn may call processor_irq.
Interrupt ==
  /\ Running /\ ran
  /\ disturbances < Disturbances /\ disturbances' = disturbances + 1
  /\ Interrupted
  /\ strayed' = TRUE
  /\ ran' = FALSE
  /\ UNCHANGED <<feednewpc, profile, native, halted, seen, own>>

\* A step ends machine_start after an instruction, a breakpoint before one;
\* the loop that continues feeds its first address.
Reenter ==
  /\ Running /\ (ran \/ ~feednewpc)
  /\ disturbances < Disturbances /\ disturbances' = disturbances + 1
  /\ feednewpc' = TRUE
  /\ ran' = FALSE
  /\ UNCHANGED <<guest, profile, native, halted, strayed, seen, own>>

----------------------------------------------------------------------------
(* Native code.  It holds the words that were translated, whatever the       *)
(* entry's length becomes; module Recompiler is about what they do.          *)
Last == native + transmap[native].code - 1

\* One instruction; no turn of the loop ends here.  Leaving the words ends the
\* native code.
Native ==
  /\ halted = "no" /\ native # None
  /\ ~(pc = Last /\ prog[pc].k = "plain") /\ prog[pc].k # "ret"
  /\ \E g \in Goes(prog[pc], pc, lr) :
       /\ Step(g)
       /\ native' = IF g.to \in native..Last THEN native ELSE None
  /\ UNCHANGED <<feednewpc, ran, profile, disturbances, halted, strayed, seen, own>>

\* Behind a last word that is no branch nothing was generated, and a handler's
\* return would leave the mode as it is.
NativeEnds ==
  /\ halted = "no" /\ native # None
  /\ \/ pc = Last /\ prog[pc].k = "plain" /\ halted' = "fell"
     \/ prog[pc].k = "ret" /\ halted' = "mode"
  /\ UNCHANGED <<guest, feednewpc, ran, profile, native, disturbances, strayed, seen, own>>

Feed == FeedNew \/ FeedNative \/ FeedCold \/ FeedHot
Next == Feed \/ Execute \/ Interrupt \/ Reenter \/ Native \/ NativeEnds

\* The loop and the native code never wait.
Fairness == WF_allvars(Feed) /\ WF_allvars(Execute) /\ WF_allvars(Native)
Spec == Init /\ [][Next]_allvars /\ Fairness

----------------------------------------------------------------------------
(* Properties *)

\* The loop's assertions and its use of the current entry hold as long as no
\* interrupt comes in the middle of a block: the interrupt changes r15 behind
\* the profiler's back, and then "Non-sequential address?" fails (profile.c:41).
AssertionsNeedInterrupt ==
  /\ halted # "invalid"
  /\ FeedKnown => currenttrans # None
  /\ halted = "assert" => strayed

\* A translation made from what runs of its own block have shown ends in a
\* branch, so native code never runs behind its end; it is never empty.
TranslatesWholeBlocks == halted \in {"fell", "empty"} => native \notin own

\* Such a translation holds no word that the interpreter has not run: a word
\* between blocks, which may be a literal, is not taken for an instruction
\* although lengths are set by addresses alone (profile.c:24-30).
TranslatesWhatRan == native \in own => native..Last \subseteq seen

\* A guest that runs for ever gets its translations, however its blocks follow
\* each other: every visit is counted for some entry (profile.c:74).  Native
\* code may keep it for ever before.
HotIsTranslated ==
  <>(curblocks = maxblocks \/ halted # "no") \/ <>[](native # None)
=============================================================================

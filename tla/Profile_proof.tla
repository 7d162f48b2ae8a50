--------------------------- MODULE Profile_proof ----------------------------
(***************************************************************************)
(* For every guest program, threshold and number of translations: an       *)
(* assertion of the profiler fails only after an interrupt, and a          *)
(* translation made from its own block's runs is whole and holds no word   *)
(* that has not been run.                                                  *)
(***************************************************************************)
EXTENDS Profile, TLAPS

\* The words of an entry: those that were translated, or that would be now.
Extent(e) == IF e.code = None THEN e.length ELSE e.code

Entry == [length : Nat, usecount : Nat, code : Nat \cup {None}]

\* The guest stays in its program.
GuestTyped ==
  /\ prog \in Programs
  /\ pc \in DOMAIN prog /\ lr \in DOMAIN prog

\* What the profiler records has its type.  There is a current entry as soon
\* as there is one, and while a block is being run.
Recorded ==
  /\ transmap \in [DOMAIN transmap -> Entry]
  /\ DOMAIN transmap \subseteq Nat
  /\ \/ currenttrans \in DOMAIN transmap
     \/ DOMAIN transmap = {} /\ currenttrans = None
  /\ \/ start \in Nat /\ currenttrans # None
     \/ start = None

\* Between two feeds a block is being run, from its start forward unless an
\* interrupt came, and all its words so far have been run.  Native code leaves
\* the loop at a feed.
InBlock ==
  /\ feednewpc \in BOOLEAN
  /\ ~feednewpc =>
       /\ start # None /\ native = None
       /\ strayed \/ (pc >= start /\ start..(pc - 1) \subseteq seen)

\* An entry of n words from address a: there are some, all have been run, and
\* the last one writes r15.
Whole(a, n) ==
  /\ n > 0
  /\ a..(a + n - 1) \subseteq seen
  /\ a + n - 1 \in DOMAIN prog
  /\ prog[a + n - 1].k # "plain"

\* So is every entry whose extent a run of its own has set.
OwnWhole == \A a \in own : a \in DOMAIN transmap /\ Whole(a, Extent(transmap[a]))

\* Only what has been translated runs, or was too short to.
NativeCoded ==
  native # None => native \in DOMAIN transmap /\ transmap[native].code # None

\* These parts together are inductive: the assertion holds because of InBlock,
\* whole blocks because of OwnWhole.
Inv == /\ GuestTyped /\ Recorded /\ InBlock /\ OwnWhole /\ NativeCoded
       /\ AssertionsNeedInterrupt /\ TranslatesWholeBlocks

----------------------------------------------------------------------------
(* The guest *)

\* Where an instruction leads: into the program, and if it does not write r15,
\* to the next word.
LEMMA GoesInside ==
    ASSUME GuestTyped, NEW g \in Goes(prog[pc], pc, lr)
    PROVE  /\ g.to \in DOMAIN prog
           /\ g.wrote => prog[pc].k # "plain"
           /\ ~g.wrote => g.to = pc + 1
BY GuestAssumption DEF GuestTyped, Goes

\* An instruction writes r15 or does not.
LEMMA GoesWrote ==
    ASSUME GuestTyped, NEW g \in Goes(prog[pc], pc, lr)
    PROVE  g.wrote = TRUE \/ g.wrote = FALSE
BY GuestAssumption DEF GuestTyped, Goes

\* An instruction or an interrupt keeps the guest in its program.
LEMMA GuestStays ==
    ASSUME GuestTyped,
           \/ \E g \in Goes(prog[pc], pc, lr) : Step(g)
           \/ Interrupted
           \/ UNCHANGED guest
    PROVE  GuestTyped'
<1>1. ASSUME NEW g \in Goes(prog[pc], pc, lr), Step(g)
      PROVE  GuestTyped'
  BY <1>1, GoesInside DEF GuestTyped, Step
<1>2. ASSUME Interrupted
      PROVE  GuestTyped'
  BY <1>2, GuestAssumption DEF GuestTyped, Interrupted
<1>3. ASSUME UNCHANGED guest
      PROVE  GuestTyped'
  BY <1>3 DEF GuestTyped, guest
<1> QED
  BY <1>1, <1>2, <1>3

\* The entry found for an address is the one of that address.
LEMMA EntryAt ==
    ASSUME NEW a, Known(a) # {}
    PROVE  TheEntry(a) = a /\ a \in DOMAIN transmap
BY DEF Known, TheEntry

----------------------------------------------------------------------------
(* The profiler *)

\* It holds in the beginning.
LEMMA InitInv == Init => Inv
<1> SUFFICES ASSUME Init PROVE Inv
  OBVIOUS
<1>1. GuestTyped
  BY GuestAssumption DEF Init, Start, GuestTyped
<1>2. Recorded
  <2>1. DOMAIN transmap = {}
    BY DEF Init
  <2> QED
    BY <2>1 DEF Init, Recorded
<1>3. InBlock /\ OwnWhole /\ NativeCoded
  BY DEF Init, InBlock, OwnWhole, NativeCoded
<1>4. AssertionsNeedInterrupt /\ TranslatesWholeBlocks
  BY DEF Init, AssertionsNeedInterrupt, TranslatesWholeBlocks, FeedKnown, Known
<1> QED
  BY <1>1, <1>2, <1>3, <1>4 DEF Inv

\* A known address has made some entry the current one.
LEMMA CurrentKnown ==
    ASSUME Recorded, Known(pc) # {}
    PROVE  currenttrans \in DOMAIN transmap /\ currenttrans # None
BY DEF Recorded, Known, None

\* The same of the next state.
LEMMA CurrentKnownNext ==
    ASSUME Recorded'
    PROVE  (FeedKnown => currenttrans # None)'
BY DEF Recorded, FeedKnown, Known, None

\* Entries keep their extent and are as whole as they were.
LEMMA WholeStays ==
    ASSUME OwnWhole, own' \subseteq own, prog' = prog, seen \subseteq seen',
           \A a \in DOMAIN transmap :
             a \in DOMAIN transmap' /\ Extent(transmap'[a]) = Extent(transmap[a])
    PROVE  OwnWhole'
BY DEF OwnWhole, Whole

\* A new entry has no length, and none of its own.
LEMMA FeedNewInv ==
    ASSUME Inv, FeedNew
    PROVE  Inv'
<1> USE DEF Inv
<1>1. GuestTyped'
  BY GuestStays DEF FeedNew
<1>2. pc \in Nat /\ pc \notin DOMAIN transmap
  BY GuestAssumption DEF FeedNew, GuestTyped, Known
<1>3. Recorded'
  BY <1>2 DEF FeedNew, Recorded, Entry, None
<1>4. InBlock'
  <2>1. start' # None /\ native' = None /\ start' = pc /\ pc' = pc /\ seen' = seen
    BY <1>2 DEF FeedNew, Feeding, Running, None, guest
  <2>2. feednewpc' \in BOOLEAN
    BY DEF FeedNew
  <2> QED
    BY <1>2, <2>1, <2>2 DEF InBlock
<1>5. OwnWhole'
  <2>1. own' = own /\ prog' = prog /\ seen' = seen
    BY DEF FeedNew, guest
  <2>2. \A a \in DOMAIN transmap : a \in DOMAIN transmap' /\ transmap'[a] = transmap[a]
    BY <1>2 DEF FeedNew
  <2> QED
    BY <2>1, <2>2, WholeStays
<1>6. NativeCoded'
  BY DEF FeedNew, Feeding, Running, NativeCoded
<1>7. AssertionsNeedInterrupt' /\ TranslatesWholeBlocks'
  BY <1>3, CurrentKnownNext
     DEF FeedNew, Feeding, Running, AssertionsNeedInterrupt, TranslatesWholeBlocks
<1> QED
  BY <1>1, <1>3, <1>4, <1>5, <1>6, <1>7

\* Native code found for a block that has been translated.
LEMMA FeedNativeInv ==
    ASSUME Inv, FeedNative
    PROVE  Inv'
<1> USE DEF Inv
<1>1. GuestTyped'
  BY GuestStays, EntryAt DEF FeedNative, guest
<1>2. Recorded'
  BY DEF FeedNative, Recorded
<1>3. InBlock' /\ OwnWhole'
  <2>1. UNCHANGED <<prog, seen, own, transmap>> /\ feednewpc = TRUE /\ feednewpc' = TRUE
    BY DEF FeedNative, Feeding, InBlock
  <2> QED
    BY <2>1, WholeStays DEF InBlock
<1>4. NativeCoded'
  BY EntryAt DEF FeedNative, NativeCoded
<1>5. AssertionsNeedInterrupt' /\ TranslatesWholeBlocks'
  BY <1>2, CurrentKnownNext
     DEF FeedNative, Feeding, Running, AssertionsNeedInterrupt, TranslatesWholeBlocks
<1> QED
  BY <1>1, <1>2, <1>3, <1>4, <1>5

\* Counting changes neither length nor code.
LEMMA CountTyped ==
    ASSUME Recorded, Known(pc) # {}
    PROVE  /\ Count \in [DOMAIN transmap -> Entry]
           /\ \A a \in DOMAIN transmap :
                Count[a].length = transmap[a].length /\ Count[a].code = transmap[a].code
<1>1. currenttrans \in DOMAIN transmap
  BY CurrentKnown
<1>2. Counted(transmap[currenttrans].usecount) \in Nat
  BY <1>1 DEF Recorded, Entry, Counted
<1> QED
  BY <1>1, <1>2 DEF Recorded, Count, Entry

\* A block that is not hot yet is counted and run again.
LEMMA FeedColdInv ==
    ASSUME Inv, FeedCold
    PROVE  Inv'
<1> USE DEF Inv
<1>1. GuestTyped'
  BY GuestStays DEF FeedCold
<1>2. pc \in Nat /\ Known(pc) # {}
  BY GuestAssumption DEF FeedCold, FeedKnown, GuestTyped
<1>3. Recorded'
  BY <1>2, CountTyped, CurrentKnown DEF FeedCold, Recorded
<1>4. InBlock'
  <2>1. start' # None /\ native' = None /\ start' = pc /\ pc' = pc /\ seen' = seen
    BY <1>2 DEF FeedCold, FeedKnown, Feeding, Running, None, guest
  <2>2. feednewpc' \in BOOLEAN
    BY DEF FeedCold
  <2> QED
    BY <1>2, <2>1, <2>2 DEF InBlock
<1>5. OwnWhole'
  <2>1. transmap' = Count /\ DOMAIN Count = DOMAIN transmap
    BY DEF FeedCold, Count
  <2>2. own' = own /\ prog' = prog /\ seen' = seen
    BY DEF FeedCold, guest
  <2>3. \A a \in DOMAIN transmap : Extent(Count[a]) = Extent(transmap[a])
    BY <1>2, CountTyped DEF Extent
  <2> QED
    BY <2>1, <2>2, <2>3, WholeStays
<1>6. NativeCoded'
  BY DEF FeedCold, FeedKnown, Feeding, Running, NativeCoded
<1>7. AssertionsNeedInterrupt' /\ TranslatesWholeBlocks'
  BY <1>3, CurrentKnownNext
     DEF FeedCold, FeedKnown, Feeding, Running, AssertionsNeedInterrupt, TranslatesWholeBlocks
<1> QED
  BY <1>1, <1>3, <1>4, <1>5, <1>6, <1>7

\* A hot block is translated: if it is empty, none of its own runs gave it its
\* length.
LEMMA FeedHotInv ==
    ASSUME Inv, FeedHot
    PROVE  Inv'
<1> USE DEF Inv
<1>1. GuestTyped'
  BY GuestStays, EntryAt DEF FeedHot, FeedKnown, guest
<1>2. Known(pc) # {} /\ TheEntry(pc) = pc /\ pc \in DOMAIN transmap
  BY EntryAt DEF FeedHot, FeedKnown
<1>3. /\ transmap' \in [DOMAIN transmap -> Entry]
      /\ \A a \in DOMAIN transmap : Extent(transmap'[a]) = Extent(transmap[a])
      /\ transmap'[pc].code # None
  <2>1. transmap' = [Count EXCEPT ![pc].code = transmap[pc].length]
    BY <1>2 DEF FeedHot
  <2>2. transmap[pc].code = None
    BY <1>2 DEF FeedHot, FeedKnown
  <2>3. transmap[pc].length \in Nat
    BY <1>2 DEF Recorded, Entry
  <2>4. /\ Count \in [DOMAIN transmap -> Entry]
        /\ \A a \in DOMAIN transmap :
             Count[a].length = transmap[a].length /\ Count[a].code = transmap[a].code
    BY <1>2, CountTyped
  <2> HIDE DEF Inv
  <2> QED
    BY <1>2, <2>1, <2>2, <2>3, <2>4 DEF Entry, Extent, None
<1>4. Recorded'
  BY <1>2, <1>3 DEF FeedHot, Recorded
<1>5. InBlock'
  BY DEF FeedHot, FeedKnown, Feeding, InBlock
<1>6. OwnWhole'
  <2>1. own' = own /\ prog' = prog /\ seen' = seen
    BY DEF FeedHot
  <2> QED
    BY <1>3, <2>1, WholeStays
<1>7. NativeCoded'
  BY <1>2, <1>3 DEF FeedHot, NativeCoded
<1>8. AssertionsNeedInterrupt'
  BY <1>4, CurrentKnownNext DEF FeedHot, FeedKnown, Feeding, Running, AssertionsNeedInterrupt
<1>9. TranslatesWholeBlocks'
  <2>1. transmap[pc].length = 0 => pc \notin own
    BY <1>2 DEF FeedHot, FeedKnown, OwnWhole, Whole, Extent
  <2> QED
    BY <1>2, <2>1 DEF FeedHot, FeedKnown, Feeding, Running, TranslatesWholeBlocks
<1> QED
  BY <1>1, <1>4, <1>5, <1>6, <1>7, <1>8, <1>9

----------------------------------------------------------------------------
(* Instructions *)

\* What the profiler is told of an instruction that wrote r15: it belongs to the
\* block and may make it longer, or an interrupt came before.
LEMMA FeedSeqInv ==
    ASSUME Inv, ~feednewpc, halted = "no", native = None,
           feedseqaddr(pc), prog[pc].k # "plain",
           feednewpc' = TRUE, UNCHANGED <<prog, native, strayed>>,
           seen' = seen \cup {pc}
    PROVE  /\ Recorded' /\ InBlock' /\ OwnWhole'
           /\ AssertionsNeedInterrupt' /\ TranslatesWholeBlocks'
<1> USE DEF Inv
<1> DEFINE beyond == pc >= start + transmap[currenttrans].length
<1>1. /\ pc \in Nat /\ pc \in DOMAIN prog
      /\ start \in Nat /\ start # None
      /\ currenttrans \in DOMAIN transmap
      /\ transmap[currenttrans].length \in Nat
      /\ strayed \/ (pc >= start /\ start..(pc - 1) \subseteq seen)
  <2>1. pc \in Nat /\ pc \in DOMAIN prog
    BY GuestAssumption DEF GuestTyped
  <2>2. start # None /\ (strayed \/ (pc >= start /\ start..(pc - 1) \subseteq seen))
    BY DEF InBlock
  <2>3. start \in Nat /\ currenttrans \in DOMAIN transmap
    BY <2>2 DEF Recorded
  <2> QED
    BY <2>1, <2>2, <2>3 DEF Recorded, Entry
<1>2. CASE beyond
  <2>1. pc - start + 1 \in Nat /\ pc - start + 1 > 0
    BY <1>1, <1>2
  <2>2. /\ transmap' = [transmap EXCEPT ![currenttrans].length = pc - start + 1]
        /\ start' = start /\ halted' = halted
        /\ own' = IF transmap[currenttrans].code # None THEN own
                  ELSE IF currenttrans = start /\ ~strayed THEN own \cup {start}
                  ELSE own \ {currenttrans}
        /\ currenttrans' = currenttrans
    BY <1>1, <1>2 DEF feedseqaddr, Words
  <2> HIDE DEF Inv
  <2>3. Recorded'
    BY <1>1, <2>1, <2>2 DEF Recorded, Entry, Inv
  <2>4. OwnWhole'
    <3> SUFFICES ASSUME NEW a \in own'
                 PROVE  (a \in DOMAIN transmap /\ Whole(a, Extent(transmap[a])))'
      BY DEF OwnWhole
    <3>1. CASE a = currenttrans /\ transmap[a].code = None
      <4>1. a = start /\ ~strayed
        BY <2>2, <3>1
      <4>2. Extent(transmap'[a]) = pc - start + 1
        BY <1>1, <2>2, <3>1 DEF Recorded, Entry, Inv, Extent
      <4>3. a + (pc - start + 1) - 1 = pc
        BY <1>1, <4>1
      <4>4. start..pc \subseteq seen'
        BY <1>1, <4>1
      <4> QED
        BY <1>1, <2>1, <2>2, <3>1, <4>1, <4>2, <4>3, <4>4 DEF Whole
    <3>2. CASE a # currenttrans \/ transmap[a].code # None
      <4>1. a \in own
        BY <2>2, <3>2
      <4>2. a \in DOMAIN transmap /\ Whole(a, Extent(transmap[a]))
        BY <4>1 DEF OwnWhole, Inv
      <4>3. transmap'[a].code = transmap[a].code
            /\ (transmap[a].code = None => transmap'[a] = transmap[a])
        BY <2>2, <3>2, <4>2 DEF Recorded, Entry, Inv
      <4>4. a \in DOMAIN transmap' /\ Extent(transmap'[a]) = Extent(transmap[a])
        BY <2>2, <4>2, <4>3 DEF Extent
      <4> QED
        BY <4>2, <4>4 DEF Whole
    <3> QED
      BY <3>1, <3>2
  <2>5. InBlock' /\ TranslatesWholeBlocks'
    BY <2>2 DEF InBlock, TranslatesWholeBlocks
  <2>6. AssertionsNeedInterrupt'
    BY <2>2, <2>3, CurrentKnownNext DEF AssertionsNeedInterrupt
  <2> QED
    BY <2>3, <2>4, <2>5, <2>6
<1>3. CASE ~beyond
  <2>1. /\ UNCHANGED <<transmap, own, currenttrans>>
        /\ start' = IF pc < start THEN None ELSE start
        /\ halted' = IF pc < start THEN "assert" ELSE halted
    BY <1>1, <1>3 DEF feedseqaddr
  <2>2. Recorded'
    BY <2>1 DEF Recorded
  <2>3. InBlock' /\ TranslatesWholeBlocks'
    BY <2>1 DEF InBlock, TranslatesWholeBlocks
  <2>4. halted' = "assert" => strayed
    BY <1>1, <2>1
  <2>5. AssertionsNeedInterrupt'
    BY <2>1, <2>2, <2>4, CurrentKnownNext DEF AssertionsNeedInterrupt
  <2>6. OwnWhole'
    BY <2>1, WholeStays
  <2> QED
    BY <2>2, <2>3, <2>5, <2>6
<1> QED
  BY <1>2, <1>3

\* An interpreted instruction.
LEMMA ExecuteInv ==
    ASSUME Inv, Execute
    PROVE  Inv'
<1>1. PICK g \in Goes(prog[pc], pc, lr) :
        /\ Step(g)
        /\ IF g.wrote THEN feedseqaddr(pc) ELSE UNCHANGED <<profile, own, halted>>
        /\ feednewpc' = g.wrote
        /\ seen' = seen \cup {pc}
  BY DEF Execute, StartsBlock
<1>2. GuestTyped'
  BY <1>1, GuestStays DEF Inv
<1>3. /\ halted = "no" /\ native = None /\ ~feednewpc
      /\ UNCHANGED <<prog, native, strayed>>
      /\ NativeCoded'
  BY <1>1 DEF Execute, Running, Step, NativeCoded
<1>4. CASE g.wrote
  <2>1. prog[pc].k # "plain"
    BY <1>4, GoesInside DEF Inv
  <2>2. feedseqaddr(pc) /\ feednewpc' = TRUE
    BY <1>1, <1>4, GoesWrote
  <2> QED
    BY <1>1, <1>2, <1>3, <2>1, <2>2, FeedSeqInv DEF Inv
<1>5. CASE ~g.wrote
  <2>1. UNCHANGED <<profile, own, halted>> /\ feednewpc' = FALSE /\ pc' = pc + 1
    BY <1>1, <1>5, GoesInside, GoesWrote DEF Inv, Step
  <2>2. Recorded' /\ OwnWhole'
    <3>1. UNCHANGED <<start, currenttrans, transmap, own>>
      BY <2>1 DEF profile
    <3> QED
      BY <1>1, <1>3, <3>1, WholeStays DEF Inv, Recorded
  <2>3. InBlock'
    <3>1. /\ start # None /\ start' = start
          /\ strayed \/ (pc >= start /\ start..(pc - 1) \subseteq seen)
      BY <1>3, <2>1 DEF Inv, InBlock, profile
    <3>2. strayed \/ (pc' >= start /\ start..(pc' - 1) \subseteq seen')
      <4>1. pc \in Nat /\ start \in Nat
        BY <3>1, GuestAssumption DEF Inv, GuestTyped, Recorded
      <4> QED
        BY <1>1, <2>1, <3>1, <4>1
    <3> QED
      BY <1>3, <2>1, <3>1, <3>2 DEF InBlock
  <2>4. AssertionsNeedInterrupt' /\ TranslatesWholeBlocks'
    BY <1>3, <2>1, <2>2, CurrentKnownNext DEF AssertionsNeedInterrupt, TranslatesWholeBlocks
  <2> QED
    BY <1>2, <1>3, <2>2, <2>3, <2>4 DEF Inv
<1> QED
  BY <1>4, <1>5

\* An interrupt makes the block stray, a debugger stop ends it.
LEMMA DisturbedInv ==
    ASSUME Inv, Interrupt \/ Reenter
    PROVE  Inv'
<1> USE DEF Inv
<1>1. GuestTyped'
  BY GuestStays DEF Interrupt, Reenter
<1>2. Recorded'
  BY DEF Interrupt, Reenter, profile, Recorded
<1>3. InBlock'
  BY DEF Interrupt, Reenter, profile, InBlock
<1>4. OwnWhole' /\ NativeCoded'
  <2>1. UNCHANGED <<prog, seen, own, transmap, native>>
    BY DEF Interrupt, Interrupted, Reenter, profile, guest
  <2> QED
    BY <2>1, WholeStays DEF NativeCoded
<1>5. AssertionsNeedInterrupt' /\ TranslatesWholeBlocks'
  BY <1>2, CurrentKnownNext
     DEF Interrupt, Reenter, Running, profile, AssertionsNeedInterrupt, TranslatesWholeBlocks
<1> QED
  BY <1>1, <1>2, <1>3, <1>4, <1>5

\* Native code touches nothing of the profiler's.  It runs behind its end only
\* behind a last word that is no branch, which an entry of its own runs' length
\* does not have.
LEMMA NativeInv ==
    ASSUME Inv, Native \/ NativeEnds
    PROVE  Inv'
<1> USE DEF Inv
<1>1. GuestTyped'
  BY GuestStays DEF Native, NativeEnds
<1>2. UNCHANGED <<prog, seen, own, start, currenttrans, transmap>>
      /\ native' \in {native, None}
  BY DEF Native, NativeEnds, Step, guest, profile
<1>3. Recorded' /\ OwnWhole' /\ NativeCoded'
  BY <1>2, WholeStays DEF Recorded, NativeCoded
<1>4. InBlock'
  <2>1. feednewpc = TRUE /\ feednewpc' = feednewpc
    BY DEF Native, NativeEnds, InBlock
  <2> QED
    BY <2>1 DEF InBlock
<1>5. AssertionsNeedInterrupt'
  BY <1>3, CurrentKnownNext DEF Native, NativeEnds, AssertionsNeedInterrupt
<1>6. TranslatesWholeBlocks'
  <2>1. CASE Native
    BY <2>1 DEF Native, TranslatesWholeBlocks
  <2>2. CASE NativeEnds
    <3>1. ASSUME native # None, pc = Last, prog[pc].k = "plain"
          PROVE  native \notin own
      BY <3>1 DEF NativeEnds, NativeCoded, Last, OwnWhole, Whole, Extent
    <3> QED
      BY <2>2, <3>1 DEF NativeEnds, TranslatesWholeBlocks
  <2> QED
    BY <2>1, <2>2
<1> QED
  BY <1>1, <1>3, <1>4, <1>5, <1>6

\* Every step keeps the invariant.
LEMMA StepInv ==
    ASSUME Inv, [Next]_allvars
    PROVE  Inv'
<1>1. CASE UNCHANGED allvars
  <2>1. UNCHANGED <<guest, feednewpc, profile, native, halted, strayed, seen, own>>
    BY <1>1 DEF allvars
  <2>2. GuestTyped' /\ Recorded' /\ InBlock' /\ OwnWhole' /\ NativeCoded'
    BY <2>1, WholeStays DEF Inv, guest, profile, GuestTyped, Recorded, InBlock, NativeCoded
  <2>3. AssertionsNeedInterrupt' /\ TranslatesWholeBlocks'
    BY <2>1, <2>2, CurrentKnownNext DEF Inv, AssertionsNeedInterrupt, TranslatesWholeBlocks
  <2> QED
    BY <2>2, <2>3 DEF Inv
<1> QED
  BY <1>1, FeedNewInv, FeedNativeInv, FeedColdInv, FeedHotInv, ExecuteInv,
     DisturbedInv, NativeInv DEF Next, Feed

\* The invariant of the loop with its profiler.
LEMMA Invariant == Spec => []Inv
<1> QED
  BY InitInv, StepInv, PTL DEF Spec

\* The loop's assertions and its use of the current entry hold as long as no
\* interrupt comes in the middle of a block (profile.c:41).
THEOREM Assertions == Spec => []AssertionsNeedInterrupt
<1>1. Inv => AssertionsNeedInterrupt
  BY DEF Inv
<1> QED
  BY <1>1, Invariant, PTL

\* A translation made from what runs of its own block have shown ends in a
\* branch and is not empty: native code never runs behind its end.
THEOREM WholeBlocks == Spec => []TranslatesWholeBlocks
<1>1. Inv => TranslatesWholeBlocks
  BY DEF Inv
<1> QED
  BY <1>1, Invariant, PTL

\* Nor does such a translation hold a word that the interpreter has not run.
THEOREM OnlyWhatRan == Spec => []TranslatesWhatRan
<1>1. Inv => TranslatesWhatRan
  <2> SUFFICES ASSUME Inv, native \in own
               PROVE  native..Last \subseteq seen
    BY DEF TranslatesWhatRan
  <2>1. native \in DOMAIN transmap /\ Whole(native, Extent(transmap[native]))
    BY DEF Inv, OwnWhole
  <2>2. native # None
    BY <2>1 DEF Inv, Recorded, None
  <2>3. Extent(transmap[native]) = transmap[native].code
    BY <2>2 DEF Inv, NativeCoded, Extent
  <2> QED
    BY <2>1, <2>3 DEF Whole, Last
<1> QED
  BY <1>1, Invariant, PTL
=============================================================================

----------------------------- MODULE Mmu_proof ------------------------------
(***************************************************************************)
(* The TLBs agree with the page tables, for every page table layout,       *)
(* control word and latency.  TlbCoherent is inductive once the tables and *)
(* registers a walk reads are known to have their types.                   *)
(***************************************************************************)
EXTENDS Mmu, TLAPS

\* What a walk reads has its type.
WalkTyped == /\ ptab \in [Tables -> [Sections -> Descs]]
             /\ translationbase \in Tables
             /\ domainaccesscontrol \in [Domains -> 0..3]

Inv == WalkTyped /\ TlbCoherent

\* The answer two addresses share.
SameAnswer(w, v) == w.ok /\ v.ok /\ w.kind = v.kind /\ w.base = v.base /\ w.perm = v.perm

\* w is what a walk answers when the coarse table d holds a page for va.
PageFound(control, va, d, access, m, w) ==
    LET l2    == d.l2[va[2]]
        full  == access = 3 \/ AllSame(l2.ap)
        pages == IF l2.type = "large" /\ full THEN Pages ELSE {va[2]}
        quart == IF l2.type = "large" \/ full THEN Quarters ELSE {va[3]}
        part  == IF l2.type = "large" THEN va[2] ELSE va[3]
    IN  /\ l2.type # "fault"
        /\ w = Found(l2.type, l2.base, Permission(control, l2.ap[part], access, m),
                     {va[1]} \X pages \X quart)

\* A walk through a coarse table that succeeds found a page.
LEMMA PageWalk ==
    ASSUME NEW control, NEW va, NEW d, NEW access, NEW m, NEW w,
           w = WalkPage(control, va, d, access, m), w.ok
    PROVE  PageFound(control, va, d, access, m, w)
<1> DEFINE l2    == d.l2[va[2]]
           full  == access = 3 \/ AllSame(l2.ap)
           pages == IF l2.type = "large" /\ full THEN Pages ELSE {va[2]}
           quart == IF l2.type = "large" \/ full THEN Quarters ELSE {va[3]}
           part  == IF l2.type = "large" THEN va[2] ELSE va[3]
           page  == Found(l2.type, l2.base, Permission(control, l2.ap[part], access, m),
                          {va[1]} \X pages \X quart)
<1>1. w = IF access \in {0, 2} THEN Fault("domain")
          ELSE IF l2.type = "fault" THEN Fault("dead") ELSE page
  BY Zenon DEF WalkPage
<1>2. w.ok /\ Fault("domain").ok = FALSE /\ Fault("dead").ok = FALSE
  BY DEF Fault
<1> HIDE DEF l2, page
<1>3. w = page /\ l2.type # "fault"
  BY <1>1, <1>2
<1> QED
  BY <1>3, Zenon DEF PageFound, l2, page

\* The part of an address a page walk covers.
LEMMA Covered ==
    ASSUME NEW va \in VA, NEW P \in SUBSET Pages, NEW Q \in SUBSET Quarters,
           NEW u \in {va[1]} \X P \X Q
    PROVE  u[1] = va[1] /\ u[2] \in P /\ u[3] \in Q
OBVIOUS

\* Every address a page walk covers is translated alike.
LEMMA PageUniform ==
    ASSUME NEW control, NEW d \in Descs, NEW access, NEW m, NEW va \in VA,
           d.type = "coarse",
           WalkPage(control, va, d, access, m).ok,
           NEW u \in WalkPage(control, va, d, access, m).cover
    PROVE  SameAnswer(WalkPage(control, va, d, access, m), WalkPage(control, u, d, access, m))
<1> DEFINE l2    == d.l2[va[2]]
           large == l2.type = "large"
           full  == access = 3 \/ AllSame(l2.ap)
           pages == IF large /\ full THEN Pages ELSE {va[2]}
           quart == IF large \/ full THEN Quarters ELSE {va[3]}
           part(x) == IF large THEN x[2] ELSE x[3]
<1>1. va[2] \in Pages /\ va[3] \in Quarters
  BY DEF VA
<1>2. access \notin {0, 2} /\ l2.type # "fault"
  BY DEF WalkPage, Fault, Found
<1>3. WalkPage(control, va, d, access, m) =
        Found(l2.type, l2.base, Permission(control, l2.ap[part(va)], access, m),
              {va[1]} \X pages \X quart)
  <2>1. PageFound(control, va, d, access, m, WalkPage(control, va, d, access, m))
    BY PageWalk
  <2> QED
    BY <2>1, Zenon DEF PageFound
<1>4. u[1] = va[1] /\ u[2] \in pages /\ u[3] \in quart
  <2>1. u \in {va[1]} \X pages \X quart
    <3> DEFINE w == WalkPage(control, va, d, access, m)
               perm == Permission(control, l2.ap[part(va)], access, m)
               cover == {va[1]} \X pages \X quart
    <3>1. w = Found(l2.type, l2.base, perm, cover) /\ u \in w.cover
      BY <1>3, Zenon
    <3> HIDE DEF w, perm, cover, l2
    <3>2. w.cover = cover
      BY <3>1 DEF Found
    <3> QED
      BY <3>1, <3>2, Zenon DEF cover
  <2>2. pages \in SUBSET Pages /\ quart \in SUBSET Quarters
    BY <1>1
  <2> HIDE DEF pages, quart
  <2> QED
    BY <2>1, <2>2, Covered
<1>5. d.l2[u[2]] = l2
  <2>1. CASE u[2] = va[2]
    BY <2>1
  <2>2. CASE large /\ u[2] \in Pages
    BY <2>2, <1>1, DescsAssumption
  <2> QED
    BY <2>1, <2>2, <1>4
<1>6. Permission(control, l2.ap[part(va)], access, m)
        = Permission(control, l2.ap[part(u)], access, m)
  <2>1. CASE access = 3
    BY <2>1 DEF Permission
  <2>2. CASE ~full
    BY <2>2, <1>4
  <2>3. CASE AllSame(l2.ap)
    <3>1. DOMAIN l2.ap = IF large THEN Pages ELSE Quarters
      BY <1>1, <1>2, DescsAssumption
    <3>2. part(va) \in DOMAIN l2.ap /\ part(u) \in DOMAIN l2.ap
      BY <3>1, <1>1, <1>4
    <3> QED
      BY <2>3, <3>2 DEF AllSame
  <2> QED
    BY <2>1, <2>2, <2>3
<1>7. /\ WalkPage(control, u, d, access, m).ok
      /\ WalkPage(control, u, d, access, m).kind = l2.type
      /\ WalkPage(control, u, d, access, m).base = l2.base
      /\ WalkPage(control, u, d, access, m).perm
           = Permission(control, l2.ap[part(u)], access, m)
  BY <1>2, <1>5 DEF WalkPage, Found
<1> DEFINE w == WalkPage(control, va, d, access, m)
           v == WalkPage(control, u, d, access, m)
           perm == Permission(control, l2.ap[part(va)], access, m)
<1>8. w.ok /\ w.kind = l2.type /\ w.base = l2.base /\ w.perm = perm
  <2> HIDE DEF l2, pages, quart, perm
  <2>1. w = Found(l2.type, l2.base, perm, {va[1]} \X pages \X quart)
    BY <1>3 DEF perm
  <2> HIDE DEF w
  <2> QED
    BY <2>1 DEF Found
<1>9. v.ok /\ v.kind = l2.type /\ v.base = l2.base /\ v.perm = perm
  BY <1>6, <1>7
<1> HIDE DEF w, v, perm, l2
<1>10. SameAnswer(w, v)
  BY <1>8, <1>9 DEF SameAnswer
<1> QED
  BY <1>10 DEF w, v

\* A page walk covers addresses of one section.
LEMMA PageSection ==
    ASSUME NEW control, NEW d, NEW access, NEW m, NEW va \in VA,
           WalkPage(control, va, d, access, m).ok,
           NEW u \in WalkPage(control, va, d, access, m).cover
    PROVE  u[1] = va[1]
<1> DEFINE l2    == d.l2[va[2]]
           full  == access = 3 \/ AllSame(l2.ap)
           pages == IF l2.type = "large" /\ full THEN Pages ELSE {va[2]}
           quart == IF l2.type = "large" \/ full THEN Quarters ELSE {va[3]}
<1>1. access \notin {0, 2} /\ l2.type # "fault"
  BY DEF WalkPage, Fault, Found
<1>2. WalkPage(control, va, d, access, m).cover = {va[1]} \X pages \X quart
  BY <1>1 DEF WalkPage, Found
<1>3. pages \in SUBSET Pages /\ quart \in SUBSET Quarters
  BY DEF VA
<1> HIDE DEF pages, quart
<1> QED
  BY <1>2, <1>3, Covered

\* Every address a translation covers is translated alike: what the mask of a
\* TLB entry admits has the answer the entry was made from.
LEMMA Uniform ==
    ASSUME NEW table \in [Sections -> Descs], NEW dac, NEW control, NEW m,
           NEW va \in VA,
           Translate(table, dac, control, va, m).ok,
           NEW u \in Translate(table, dac, control, va, m).cover
    PROVE  SameAnswer(Translate(table, dac, control, va, m),
                      Translate(table, dac, control, u, m))
<1> DEFINE d == table[va[1]]
<1>1. va[1] \in Sections /\ d \in Descs
  BY DEF VA
<1>2. CASE control.m = 0
  BY <1>2 DEF Translate, SameAnswer, Found
<1>3. CASE control.m # 0 /\ d.type = "coarse"
  <2>1. Translate(table, dac, control, va, m) = WalkPage(control, va, d, dac[d.domain], m)
    BY <1>3 DEF Translate
  <2>2. u[1] = va[1]
    <3>1. /\ WalkPage(control, va, d, dac[d.domain], m).ok
          /\ u \in WalkPage(control, va, d, dac[d.domain], m).cover
      BY <2>1
    <3> HIDE DEF d
    <3> QED
      BY <3>1, PageSection
  <2>3. Translate(table, dac, control, u, m) = WalkPage(control, u, d, dac[d.domain], m)
    BY <1>3, <2>2 DEF Translate
  <2> QED
    BY <1>1, <1>3, <2>1, <2>3, PageUniform
<1>4. CASE control.m # 0 /\ d.type = "section"
  <2>1. Translate(table, dac, control, va, m) = WalkSection(control, va, d, dac[d.domain], m)
    BY <1>4 DEF Translate
  <2>2. u[1] = va[1]
    <3>1. u \in {va[1]} \X Pages \X Quarters
      BY <2>1 DEF WalkSection, Found, Fault
    <3> QED
      BY <3>1, Covered
  <2>3. Translate(table, dac, control, u, m) = WalkSection(control, u, d, dac[d.domain], m)
    BY <1>4, <2>2 DEF Translate
  <2> QED
    BY <2>1, <2>3 DEF WalkSection, SameAnswer, Found, Fault
<1>5. CASE control.m # 0 /\ d.type \notin {"coarse", "section"}
  BY <1>5 DEF Translate, Fault
<1> QED
  BY <1>2, <1>3, <1>4, <1>5

-----------------------------------------------------------------------------

\* An entry made by a walk agrees with the tables the walk read.
LEMMA FillCoherent ==
    ASSUME WalkTyped, NEW va \in VA, NEW m, NEW tlb, Walk(va, m).ok
    PROVE  Coherent(Fill(tlb, Walk(va, m), m))
<1> DEFINE w == Walk(va, m)
           t == Fill(tlb, w, m)
<1>1. t.stamp = m /\ t.cover = w.cover /\ t.kind = w.kind /\ t.base = w.base
  BY DEF Fill
<1>2. w.base \notin Holes =>
        t.dev = w.base /\ t.read = w.perm.read /\ t.write = w.perm.write
  BY DEF Fill
<1>3. SUFFICES ASSUME NEW u \in w.cover PROVE Agrees(t, u)
  BY <1>1 DEF Coherent
<1>4. ptab[translationbase] \in [Sections -> Descs]
  BY DEF WalkTyped
<1>5. SameAnswer(w, Walk(u, m))
  BY <1>4, Uniform DEF Walk
<1> QED
  BY <1>1, <1>2, <1>5 DEF Agrees, SameAnswer

\* A flushed entry answers for nothing.
LEMMA FlushedCoherent == ASSUME NEW tlb PROVE Coherent(memory_invalidatetlb(tlb))
BY DEF Coherent, memory_invalidatetlb, NoMode

\* Steps that leave what a walk reads leave every entry as good as it was.
LEMMA Stable ==
    ASSUME UNCHANGED <<ptab, translationbase, domainaccesscontrol, mmucontrol>>
    PROVE  /\ WalkTyped => WalkTyped'
           /\ Coherent(insttlb') => Coherent(insttlb)'
           /\ Coherent(datatlb') => Coherent(datatlb)'
BY DEF WalkTyped, Coherent, Agrees, Walk

\* Completion keeps coherence: either the walk is unchanged and the entries
\* were coherent, or both are flushed, or the guest owes a flush.
LEMMA CompleteKeeps ==
    ASSUME Inv, ~halted, NEW control, NEW itlb, NEW dtlb, NEW stale \in BOOLEAN,
           Complete(control, itlb, dtlb, stale),
           UNCHANGED <<ptab, halted>>,
           WalkTyped',
           stale
             \/ (itlb.stamp = NoMode /\ dtlb.stamp = NoMode)
             \/ /\ Coherent(itlb) /\ Coherent(dtlb)
                /\ control = mmucontrol
                /\ UNCHANGED <<translationbase, domainaccesscontrol>>
    PROVE  Inv'
<1>1. CASE pending.left = 1
  <2>1. insttlb' = memory_invalidatetlb(itlb) /\ datatlb' = memory_invalidatetlb(dtlb)
    BY <1>1 DEF Complete
  <2>2. insttlb'.stamp = NoMode /\ datatlb'.stamp = NoMode
    BY <2>1 DEF memory_invalidatetlb
  <2> QED
    BY <2>2 DEF Inv, TlbCoherent, Coherent
<1>2. CASE pending.left # 1
  <2>1. insttlb' = itlb /\ datatlb' = dtlb /\ mmucontrol' = control /\ dirty' = stale
    BY <1>2 DEF Complete
  <2>2. CASE stale
    BY <2>1, <2>2 DEF Inv, TlbCoherent
  <2>3. CASE itlb.stamp = NoMode /\ dtlb.stamp = NoMode
    BY <2>1, <2>3 DEF Inv, TlbCoherent, Coherent
  <2>4. CASE /\ Coherent(itlb) /\ Coherent(dtlb)
             /\ control = mmucontrol
             /\ UNCHANGED <<translationbase, domainaccesscontrol>>
    <3>1. Coherent(insttlb)' /\ Coherent(datatlb)'
      BY <2>1, <2>4, Stable
    <3> QED
      BY <3>1 DEF Inv, TlbCoherent
  <2> QED
    BY <2>2, <2>3, <2>4
<1> QED
  BY <1>1, <1>2

\* A fetch keeps coherence.
LEMMA FetchKeeps ==
    ASSUME Inv, ~halted, NEW va \in VA, Fetch(va)
    PROVE  Inv'
<1>1. CASE halted' = TRUE /\ Die
  BY <1>1 DEF Die, mmu, Inv, WalkTyped, TlbCoherent
<1>2. CASE /\ UNCHANGED <<mmu, datatlb, halted, dirty>>
           /\ \/ insttlb' = insttlb
              \/ Walk(va, currentmode).ok
                 /\ insttlb' = Fill(insttlb, Walk(va, currentmode), currentmode)
              \/ insttlb' = memory_invalidatetlb(insttlb)
  <2>1. UNCHANGED <<ptab, translationbase, domainaccesscontrol, mmucontrol>>
    BY <1>2 DEF mmu
  <2>2. WalkTyped
    BY DEF Inv
  <2>3. ~dirty => Coherent(insttlb') /\ Coherent(datatlb')
    BY <1>2, <2>2, FillCoherent, FlushedCoherent DEF Inv, TlbCoherent
  <2> QED
    BY <1>2, <2>1, <2>2, <2>3, Stable DEF Inv, TlbCoherent
<1> QED
  BY <1>1, <1>2 DEF Fetch, Die

\* A load or store keeps coherence; one into the page tables owes a flush.
LEMMA TransferKeeps ==
    ASSUME Inv, ~halted, NEW va \in VA, NEW write \in BOOLEAN, NEW user \in BOOLEAN,
           NEW misaligned \in BOOLEAN, Transfer(va, write, user, misaligned)
    PROVE  Inv'
<1> DEFINE m == IF user THEN "usr" ELSE currentmode
           t == IF Hit(datatlb, va, m) THEN datatlb ELSE Fill(datatlb, Walk(va, m), m)
<1>1. CASE Die
  BY <1>1 DEF Die, mmu, Inv, WalkTyped, TlbCoherent
<1>2. CASE /\ Hit(datatlb, va, m) \/ Walk(va, m).ok
           /\ datatlb' = t
           /\ Store(write)
           /\ UNCHANGED <<translationbase, domainaccesscontrol, mmucontrol, insttlb, halted>>
  <2>1. CASE UNCHANGED <<ptab, dirty>>
    <3>1. WalkTyped
      BY DEF Inv
    <3>2. ~dirty => Coherent(insttlb') /\ Coherent(datatlb')
      BY <1>2, <3>1, FillCoherent DEF Inv, TlbCoherent
    <3> QED
      BY <1>2, <2>1, <3>1, <3>2, Stable DEF Inv, TlbCoherent
  <2>2. CASE /\ dirty' = TRUE
             /\ \E b \in Tables, s \in Sections, d \in Descs : ptab' = [ptab EXCEPT ![b][s] = d]
    <3>1. PICK b \in Tables, s \in Sections, d \in Descs : ptab' = [ptab EXCEPT ![b][s] = d]
      BY <2>2
    <3>2. ptab' \in [Tables -> [Sections -> Descs]]
      BY <3>1 DEF Inv, WalkTyped
    <3> QED
      BY <1>2, <2>2, <3>2 DEF Inv, WalkTyped, TlbCoherent
  <2> QED
    BY <1>2, <2>1, <2>2 DEF Store
<1> QED
  BY <1>1, <1>2 DEF Transfer

\* Every instruction keeps coherence.
LEMMA StepKeeps == ASSUME Inv, [Next]_vars PROVE Inv'
<1>1. CASE UNCHANGED vars
  BY <1>1 DEF vars, mmu, Inv, WalkTyped, TlbCoherent, Coherent, Agrees, Walk
<1>2. ASSUME ~halted, NEW va \in VA, Fetch(va) PROVE Inv'
  BY <1>2, FetchKeeps
<1>3. ASSUME ~halted, NEW va \in VA, NEW write \in BOOLEAN, NEW user \in BOOLEAN,
             NEW misaligned \in BOOLEAN, Transfer(va, write, user, misaligned)
      PROVE  Inv'
  BY <1>3, TransferKeeps
<1>4. WalkTyped /\ (~halted /\ ~dirty => Coherent(insttlb) /\ Coherent(datatlb))
  BY DEF Inv, TlbCoherent
<1>5. ASSUME ~halted, OtherInsn \/ ChangeMode PROVE Inv'
  <2>1. /\ Complete(mmucontrol, insttlb, datatlb, dirty)
        /\ UNCHANGED <<ptab, translationbase, domainaccesscontrol, halted>>
    BY <1>5 DEF OtherInsn, ChangeMode
  <2>2. WalkTyped'
    BY <1>4, <2>1 DEF WalkTyped
  <2>3. CASE ~dirty
    <3>1. Complete(mmucontrol, insttlb, datatlb, FALSE)
      BY <2>1, <2>3 DEF Complete
    <3> QED
      BY <1>4, <1>5, <2>1, <2>2, <2>3, <3>1, CompleteKeeps
  <2>4. CASE dirty
    <3>1. Complete(mmucontrol, insttlb, datatlb, TRUE)
      BY <2>1, <2>4 DEF Complete
    <3> QED
      BY <1>5, <2>1, <2>2, <3>1, CompleteKeeps
  <2> QED
    BY <2>3, <2>4
<1>6. ASSUME ~halted, NEW word \in Controls, McrSwitch(word) PROVE Inv'
  <2>1. UNCHANGED <<ptab, translationbase, domainaccesscontrol, mmucontrol, insttlb,
                    datatlb, halted, dirty>>
    BY <1>6 DEF McrSwitch
  <2> QED
    BY <1>4, <2>1, Stable DEF Inv, TlbCoherent
<1>7. ASSUME ~halted, NEW word \in Controls, McrControl(word) PROVE Inv'
  <2>1. Complete(word, insttlb, datatlb, TRUE) /\ UNCHANGED <<ptab, halted>>
    BY <1>7 DEF McrControl
  <2>2. WalkTyped'
    BY <1>4, <1>7 DEF WalkTyped, McrControl
  <2> QED
    BY <1>7, <2>1, <2>2, CompleteKeeps
<1>8. ASSUME ~halted, NEW b \in Tables, McrTranslationBase(b) PROVE Inv'
  <2>1. Complete(mmucontrol, insttlb, datatlb, TRUE) /\ UNCHANGED <<ptab, halted>>
    BY <1>8 DEF McrTranslationBase
  <2>2. WalkTyped'
    BY <1>4, <1>8 DEF WalkTyped, McrTranslationBase
  <2> QED
    BY <1>8, <2>1, <2>2, CompleteKeeps
<1>9. ASSUME ~halted, Flushed, UNCHANGED <<ptab, halted>>, WalkTyped' PROVE Inv'
  <2> DEFINE itlb == memory_invalidatetlb(insttlb)
             dtlb == memory_invalidatetlb(datatlb)
  <2>1. Complete(mmucontrol, itlb, dtlb, FALSE)
    BY <1>9 DEF Flushed
  <2>2. itlb.stamp = NoMode /\ dtlb.stamp = NoMode
    BY DEF memory_invalidatetlb
  <2> HIDE DEF itlb, dtlb
  <2> QED
    BY <1>9, <2>1, <2>2, CompleteKeeps
<1>10. ASSUME ~halted, NEW dac \in [Domains -> 0..3], McrDomains(dac) PROVE Inv'
  <2>1. WalkTyped'
    BY <1>4, <1>10 DEF WalkTyped, McrDomains
  <2> QED
    BY <1>9, <1>10, <2>1 DEF McrDomains
<1>11. ASSUME ~halted, McrFlush PROVE Inv'
  <2>1. WalkTyped'
    BY <1>4, <1>11 DEF WalkTyped, McrFlush
  <2> QED
    BY <1>9, <1>11, <2>1 DEF McrFlush
<1> QED
  BY <1>1, <1>2, <1>3, <1>5, <1>6, <1>7, <1>8, <1>10, <1>11 DEF Next

\* TlbCoherent for every page table, control word and latency: a guest that
\* flushes after editing is never answered from a stale entry (memory.c,
\* exec_crt).
THEOREM Coherence == Spec => []TlbCoherent
<1>1. Init => Inv
  <2> SUFFICES ASSUME Init PROVE Inv
    OBVIOUS
  <2>1. insttlb.stamp = NoMode /\ datatlb.stamp = NoMode
    BY DEF Init, EmptyTlb
  <2>2. WalkTyped
    BY DEF Init, WalkTyped
  <2> QED
    BY <2>1, <2>2 DEF Inv, TlbCoherent, Coherent
<1>2. Inv /\ [Next]_vars => Inv'
  BY StepKeeps
<1>3. Inv => TlbCoherent
  BY DEF Inv
<1> QED
  BY <1>1, <1>2, <1>3, PTL DEF Spec

-----------------------------------------------------------------------------
(* Types *)

\* The control word being switched in is one the guest wrote.
PendingTyped == pending \in [left : 0 .. Latency, word : Controls \cup {NotPending.word}]

TypeInv == TypeOK /\ PendingTyped

\* A permission is a pair of truth values, whatever the bits are.
LEMMA PermissionType ==
    ASSUME NEW control, NEW ap, NEW access, NEW m
    PROVE  /\ Permission(control, ap, access, m).read \in BOOLEAN
           /\ Permission(control, ap, access, m).write \in BOOLEAN
BY DEF Permission, apfault, isuser

\* A second level entry that is not a fault is a page in a frame.
LEMMA PageDesc ==
    ASSUME NEW d \in Descs, d.type = "coarse", NEW p \in Pages, d.l2[p].type # "fault"
    PROVE  d.l2[p].type \in {"large", "small"} /\ d.l2[p].base \in Frames
<1>1. d.l2[p].type \in {"fault", "small", "large"}
  BY DescsAssumption
<1>2. d.l2[p].base \in Frames
  BY FramesAssumption
<1> QED
  BY <1>1, <1>2

\* The types of what a walk that found something answers.
Kinds == {"identity", "section", "large", "small"}
AnswerTyped(w) == /\ w.kind \in Kinds
                  /\ w.base \in Frames \cup {"self"}
                  /\ w.cover \in SUBSET VA
                  /\ w.perm.read \in BOOLEAN /\ w.perm.write \in BOOLEAN

\* An answer made of typed parts is typed.
LEMMA FoundTyped ==
    ASSUME NEW kind, NEW base, NEW cover, NEW perm,
           kind \in Kinds, base \in Frames \cup {"self"}, cover \in SUBSET VA,
           perm.read \in BOOLEAN, perm.write \in BOOLEAN
    PROVE  AnswerTyped(Found(kind, base, perm, cover))
<1> DEFINE w == Found(kind, base, perm, cover)
<1>1. w.kind = kind /\ w.base = base /\ w.perm = perm /\ w.cover = cover
  BY DEF Found
<1> HIDE DEF w
<1>2. AnswerTyped(w)
  BY <1>1, Zenon DEF AnswerTyped
<1> QED
  BY <1>2 DEF w

\* The whole of a section, and the part of one a page walk covers, are addresses.
LEMMA CoverIn ==
    ASSUME NEW s \in Sections, NEW P \in SUBSET Pages, NEW Q \in SUBSET Quarters
    PROVE  {s} \X P \X Q \in SUBSET VA
BY DEF VA

\* With the MMU off the answer is typed.
LEMMA IdentityTyped == AnswerTyped(Found("identity", "self", [read |-> TRUE, write |-> TRUE], VA))
<1> DEFINE all == [read |-> TRUE, write |-> TRUE]
<1>1. all.read \in BOOLEAN /\ all.write \in BOOLEAN
  OBVIOUS
<1>2. "identity" \in Kinds
  BY DEF Kinds
<1>3. VA \in SUBSET VA /\ "self" \in Frames \cup {"self"}
  OBVIOUS
<1> HIDE DEF all
<1>4. AnswerTyped(Found("identity", "self", all, VA))
  BY <1>1, <1>2, <1>3, FoundTyped
<1> QED
  BY <1>4 DEF all

\* So is that of a walk that found a page,
LEMMA PageTyped ==
    ASSUME NEW control, NEW va \in VA, NEW d \in Descs, d.type = "coarse",
           NEW access, NEW m, NEW w, w = WalkPage(control, va, d, access, m), w.ok
    PROVE  AnswerTyped(w)
<1> DEFINE l2    == d.l2[va[2]]
           full  == access = 3 \/ AllSame(l2.ap)
           pages == IF l2.type = "large" /\ full THEN Pages ELSE {va[2]}
           quart == IF l2.type = "large" \/ full THEN Quarters ELSE {va[3]}
           part  == IF l2.type = "large" THEN va[2] ELSE va[3]
           perm  == Permission(control, l2.ap[part], access, m)
           cover == {va[1]} \X pages \X quart
<1>1. va[1] \in Sections /\ va[2] \in Pages /\ va[3] \in Quarters
  BY DEF VA
<1>2. l2.type # "fault" /\ w = Found(l2.type, l2.base, perm, cover)
  <2>1. PageFound(control, va, d, access, m, w)
    BY PageWalk, Zenon
  <2> QED
    BY <2>1, Zenon DEF PageFound
<1>3. l2.type \in {"large", "small"} /\ l2.base \in Frames
  BY <1>1, <1>2, PageDesc, Zenon
<1>4. pages \in SUBSET Pages /\ quart \in SUBSET Quarters
  BY <1>1
<1>5. perm.read \in BOOLEAN /\ perm.write \in BOOLEAN
  BY PermissionType
<1> HIDE DEF l2, pages, quart, perm
<1>6. cover \in SUBSET VA
  BY <1>1, <1>4, CoverIn
<1>7. l2.type \in Kinds /\ l2.base \in Frames \cup {"self"}
  BY <1>3 DEF Kinds
<1> HIDE DEF cover
<1>8. AnswerTyped(Found(l2.type, l2.base, perm, cover))
  BY <1>5, <1>6, <1>7, FoundTyped
<1> QED
  BY <1>2, <1>8

\* and of one that found a section.
LEMMA SectionTyped ==
    ASSUME NEW control, NEW va \in VA, NEW d \in Descs, d.type = "section",
           NEW access, NEW m, NEW w, w = WalkSection(control, va, d, access, m), w.ok
    PROVE  AnswerTyped(w)
<1> DEFINE perm  == Permission(control, d.ap, access, m)
           cover == {va[1]} \X Pages \X Quarters
<1>1. va[1] \in Sections
  BY DEF VA
<1>2. w = Found("section", d.base, perm, cover)
  <2>1. w = IF access \in {0, 2} THEN Fault("domain") ELSE Found("section", d.base, perm, cover)
    BY Zenon DEF WalkSection
  <2>2. Fault("domain").ok = FALSE
    BY DEF Fault
  <2> HIDE DEF perm, cover
  <2> QED
    BY <2>1, <2>2
<1>3. d.base \in Frames \cup {"self"} /\ "section" \in Kinds
  BY FramesAssumption DEF Kinds
<1>4. perm.read \in BOOLEAN /\ perm.write \in BOOLEAN
  BY PermissionType
<1>5. cover \in SUBSET VA
  BY <1>1, CoverIn
<1> HIDE DEF perm, cover
<1>6. AnswerTyped(Found("section", d.base, perm, cover))
  BY <1>3, <1>4, <1>5, FoundTyped
<1> QED
  BY <1>2, <1>6

\* What a successful walk answers has the types of a TLB entry's fields.
LEMMA WalkType ==
    ASSUME WalkTyped, NEW va \in VA, NEW m, Walk(va, m).ok
    PROVE  AnswerTyped(Walk(va, m))
<1> DEFINE w == Walk(va, m)
           d == ptab[translationbase][va[1]]
           access == domainaccesscontrol[d.domain]
<1>1. d \in Descs
  BY DEF VA, WalkTyped
<1>2. w = CASE mmucontrol.m = 0 ->
                 Found("identity", "self", [read |-> TRUE, write |-> TRUE], VA)
            [] mmucontrol.m # 0 /\ d.type = "coarse" ->
                 WalkPage(mmucontrol, va, d, access, m)
            [] mmucontrol.m # 0 /\ d.type = "section" ->
                 WalkSection(mmucontrol, va, d, access, m)
            [] OTHER -> Fault("dead")
  BY DEF Walk, Translate
<1>3. Fault("dead").ok = FALSE
  BY DEF Fault
<1> HIDE DEF w, d, access
<1>4. w.ok
  BY DEF w
<1>5. CASE mmucontrol.m = 0
  BY <1>2, <1>5, IdentityTyped DEF w
<1>6. CASE mmucontrol.m # 0 /\ d.type = "coarse"
  <2>1. w = WalkPage(mmucontrol, va, d, access, m)
    BY <1>2, <1>6
  <2> QED
    BY <1>1, <1>4, <1>6, <2>1, PageTyped DEF w
<1>7. CASE mmucontrol.m # 0 /\ d.type = "section"
  <2>1. w = WalkSection(mmucontrol, va, d, access, m)
    BY <1>2, <1>7
  <2> QED
    BY <1>1, <1>4, <1>7, <2>1, SectionTyped DEF w
<1>8. CASE mmucontrol.m # 0 /\ d.type \notin {"coarse", "section"}
  BY <1>2, <1>3, <1>4, <1>8
<1> QED
  BY <1>5, <1>6, <1>7, <1>8

\* An entry that a walk has filled is an entry, over a hole of the map too.
LEMMA FillType ==
    ASSUME WalkTyped, NEW va \in VA, NEW m \in Modes, NEW tlb \in Tlbs, Walk(va, m).ok
    PROVE  Fill(tlb, Walk(va, m), m) \in Tlbs
<1> DEFINE w == Walk(va, m)
<1>1. /\ w.kind \in {"identity", "section", "large", "small"}
      /\ w.base \in Frames \cup {"self"} /\ w.cover \in SUBSET VA
      /\ w.perm.read \in BOOLEAN /\ w.perm.write \in BOOLEAN
  BY WalkType DEF AnswerTyped, Kinds
<1> HIDE DEF w
<1>2. Fill(tlb, w, m) \in Tlbs
  <2>1. CASE w.base \in Holes
    BY <1>1, <2>1 DEF Fill, Tlbs
  <2>2. CASE w.base \notin Holes
    BY <1>1, <2>2 DEF Fill, Tlbs
  <2> QED
    BY <2>1, <2>2
<1> QED
  BY <1>2 DEF w

\* So is a flushed one.
LEMMA FlushedType == ASSUME NEW tlb \in Tlbs PROVE memory_invalidatetlb(tlb) \in Tlbs
BY DEF memory_invalidatetlb, Tlbs

\* An instruction that completes, with the types of what it leaves.
LEMMA CompleteType ==
    ASSUME TypeInv, NEW control \in Controls \cup {NotPending.word}, NEW itlb \in Tlbs,
           NEW dtlb \in Tlbs, NEW stale \in BOOLEAN,
           Complete(control, itlb, dtlb, stale)
    PROVE  /\ mmucontrol' \in Controls \cup {NotPending.word}
           /\ PendingTyped'
           /\ insttlb' \in Tlbs /\ datatlb' \in Tlbs
           /\ fetched' \in BOOLEAN /\ dirty' \in BOOLEAN
<1>1. pending \in [left : 0 .. Latency, word : Controls \cup {NotPending.word}]
  BY DEF TypeInv, PendingTyped
<1>2. CASE pending.left = 1
  <2>1. /\ pending' = NotPending /\ mmucontrol' = pending.word
        /\ insttlb' = memory_invalidatetlb(itlb) /\ datatlb' = memory_invalidatetlb(dtlb)
        /\ dirty' = FALSE /\ fetched' = FALSE
    BY <1>2 DEF Complete
  <2>2. PendingTyped'
    BY <2>1, LatencyAssumption DEF PendingTyped, NotPending
  <2> QED
    BY <1>1, <2>1, <2>2, FlushedType
<1>3. CASE pending.left # 1
  <2>1. /\ pending' = [pending EXCEPT !.left = IF @ = 0 THEN 0 ELSE @ - 1]
        /\ mmucontrol' = control /\ insttlb' = itlb /\ datatlb' = dtlb
        /\ dirty' = stale /\ fetched' = FALSE
    BY <1>3 DEF Complete
  <2>2. PendingTyped'
    BY <1>1, <2>1, LatencyAssumption DEF PendingTyped
  <2> QED
    BY <2>1, <2>2
<1> QED
  BY <1>2, <1>3

\* The parts of the type invariant the steps below change together.
LEMMA TypeParts ==
    ASSUME TypeInv
    PROVE  /\ WalkTyped
           /\ mmucontrol \in Controls \cup {NotPending.word}
           /\ insttlb \in Tlbs /\ datatlb \in Tlbs
           /\ currentmode \in Modes /\ dirty \in BOOLEAN
BY DEF TypeInv, TypeOK, WalkTyped

\* A process that ends keeps everything.
LEMMA DieType == ASSUME TypeInv, Die PROVE TypeInv'
BY DEF TypeInv, TypeOK, PendingTyped, Die, mmu

\* A fetch.
LEMMA FetchType ==
    ASSUME TypeInv, NEW va \in VA, Fetch(va)
    PROVE  TypeInv'
<1>1. CASE Die
  BY <1>1, DieType
<1>2. CASE /\ UNCHANGED <<mmu, datatlb, currentmode, halted, dirty>>
           /\ fetched' = TRUE /\ memoryfault' \in BOOLEAN
           /\ \/ insttlb' = insttlb
              \/ /\ Walk(va, currentmode).ok
                 /\ insttlb' = Fill(insttlb, Walk(va, currentmode), currentmode)
              \/ insttlb' = memory_invalidatetlb(insttlb)
  <2>1. insttlb' \in Tlbs
    BY <1>2, TypeParts, FillType, FlushedType
  <2> QED
    BY <1>2, <2>1 DEF TypeInv, TypeOK, PendingTyped, mmu
<1>3. \/ Die
      \/ /\ UNCHANGED <<mmu, datatlb, currentmode, halted, dirty>>
         /\ fetched' = TRUE /\ memoryfault' \in BOOLEAN
         /\ \/ insttlb' = insttlb
            \/ /\ Walk(va, currentmode).ok
               /\ insttlb' = Fill(insttlb, Walk(va, currentmode), currentmode)
            \/ insttlb' = memory_invalidatetlb(insttlb)
  BY DEF Fetch
<1> QED
  BY <1>1, <1>2, <1>3

\* A load or store, into a page table too.
LEMMA TransferType ==
    ASSUME TypeInv, NEW va \in VA, NEW write \in BOOLEAN, NEW user \in BOOLEAN,
           NEW misaligned \in BOOLEAN, Transfer(va, write, user, misaligned)
    PROVE  TypeInv'
<1> DEFINE m == IF user THEN "usr" ELSE currentmode
           t == IF Hit(datatlb, va, m) THEN datatlb ELSE Fill(datatlb, Walk(va, m), m)
<1>1. CASE Die
  BY <1>1, DieType
<1>2. CASE /\ Hit(datatlb, va, m) \/ Walk(va, m).ok
           /\ datatlb' = t
           /\ Store(write)
           /\ UNCHANGED <<translationbase, domainaccesscontrol, mmucontrol, pending,
                          insttlb, currentmode, memoryfault, fetched, halted>>
  <2>1. m \in Modes
    BY TypeParts, ModesAssumption
  <2>2. datatlb' \in Tlbs
    <3> HIDE DEF m
    <3> QED
      BY <1>2, <2>1, TypeParts, FillType
  <2>3. ptab' \in [Tables -> [Sections -> Descs]] /\ dirty' \in BOOLEAN
    <3>1. CASE UNCHANGED <<ptab, dirty>>
      BY <3>1 DEF TypeInv, TypeOK
    <3>2. CASE /\ dirty' = TRUE
               /\ \E b \in Tables, s \in Sections, d \in Descs :
                    ptab' = [ptab EXCEPT ![b][s] = d]
      BY <3>2 DEF TypeInv, TypeOK
    <3> QED
      BY <1>2, <3>1, <3>2 DEF Store
  <2> QED
    BY <1>2, <2>2, <2>3 DEF TypeInv, TypeOK, PendingTyped
<1> QED
  BY <1>1, <1>2 DEF Transfer

\* An instruction that completes with changes of the tables' registers or mode.
LEMMA CompletionType ==
    ASSUME TypeInv, NEW control \in Controls \cup {NotPending.word}, NEW itlb \in Tlbs,
           NEW dtlb \in Tlbs, NEW stale \in BOOLEAN,
           Complete(control, itlb, dtlb, stale),
           translationbase' \in Tables, domainaccesscontrol' \in [Domains -> 0..3],
           currentmode' \in Modes,
           UNCHANGED <<ptab, memoryfault, halted>>
    PROVE  TypeInv'
<1>1. /\ mmucontrol' \in Controls \cup {NotPending.word}
      /\ PendingTyped'
      /\ insttlb' \in Tlbs /\ datatlb' \in Tlbs
      /\ fetched' \in BOOLEAN /\ dirty' \in BOOLEAN
  BY CompleteType
<1>2. pending'.left \in 0 .. Latency
  BY <1>1 DEF PendingTyped
<1> QED
  BY <1>1, <1>2 DEF TypeInv, TypeOK

\* Every instruction keeps the types.
LEMMA StepType == ASSUME TypeInv, [Next]_vars PROVE TypeInv'
<1> DEFINE itlb == memory_invalidatetlb(insttlb)
           dtlb == memory_invalidatetlb(datatlb)
<1>1. /\ itlb \in Tlbs /\ dtlb \in Tlbs
      /\ translationbase \in Tables /\ domainaccesscontrol \in [Domains -> 0..3]
  BY TypeParts, FlushedType DEF TypeInv, TypeOK
<1> HIDE DEF itlb, dtlb
<1>2. CASE UNCHANGED vars
  BY <1>2 DEF vars, mmu, TypeInv, TypeOK, PendingTyped
<1>3. ASSUME NEW va \in VA, Fetch(va) PROVE TypeInv'
  BY <1>3, FetchType
<1>4. ASSUME NEW va \in VA, NEW write \in BOOLEAN, NEW user \in BOOLEAN,
             NEW misaligned \in BOOLEAN, Transfer(va, write, user, misaligned)
      PROVE  TypeInv'
  BY <1>4, TransferType
<1>5. CASE OtherInsn
  BY <1>1, <1>5, TypeParts, CompletionType DEF OtherInsn
<1>6. ASSUME NEW word \in Controls, McrSwitch(word) PROVE TypeInv'
  <2>1. /\ pending' = [left |-> Latency, word |-> word] /\ fetched' = FALSE
        /\ UNCHANGED <<ptab, translationbase, domainaccesscontrol, mmucontrol, insttlb,
                       datatlb, currentmode, memoryfault, halted, dirty>>
    BY <1>6 DEF McrSwitch
  <2>2. PendingTyped' /\ pending'.left \in 0 .. Latency
    BY <2>1, LatencyAssumption DEF PendingTyped
  <2> QED
    BY <2>1, <2>2 DEF TypeInv, TypeOK
<1>7. ASSUME NEW word \in Controls, McrControl(word) PROVE TypeInv'
  BY <1>1, <1>7, TypeParts, CompletionType DEF McrControl
<1>8. ASSUME NEW b \in Tables, McrTranslationBase(b) PROVE TypeInv'
  BY <1>1, <1>8, TypeParts, CompletionType DEF McrTranslationBase
<1>9. ASSUME NEW dac \in [Domains -> 0..3], McrDomains(dac) PROVE TypeInv'
  BY <1>1, <1>9, TypeParts, CompletionType DEF McrDomains, Flushed, itlb, dtlb
<1>10. CASE McrFlush
  BY <1>1, <1>10, TypeParts, CompletionType DEF McrFlush, Flushed, itlb, dtlb
<1>11. CASE ChangeMode
  BY <1>1, <1>11, TypeParts, CompletionType DEF ChangeMode
<1> QED
  BY <1>2, <1>3, <1>4, <1>5, <1>6, <1>7, <1>8, <1>9, <1>10, <1>11 DEF Next

\* Registers, TLBs and fault flag keep their types: an entry is always a whole
\* entry, over a hole of the memory map and behind a delayed switch too.
THEOREM TypeCorrect == Spec => []TypeOK
<1>1. Init => TypeInv
  <2> SUFFICES ASSUME Init PROVE TypeInv
    OBVIOUS
  <2>1. EmptyTlb \in Tlbs
    BY DEF EmptyTlb, Tlbs, NoMode
  <2>2. PendingTyped /\ pending.left \in 0 .. Latency
    BY LatencyAssumption DEF Init, PendingTyped, NotPending
  <2>3. mmucontrol = NotPending.word
    BY DEF Init, NotPending
  <2>4. domainaccesscontrol \in [Domains -> 0..3] /\ currentmode \in Modes
    BY ModesAssumption DEF Init
  <2>5. /\ memoryfault \in BOOLEAN /\ fetched \in BOOLEAN
        /\ halted \in BOOLEAN /\ dirty \in BOOLEAN
    BY DEF Init
  <2>6. /\ ptab \in [Tables -> [Sections -> Descs]] /\ translationbase \in Tables
        /\ insttlb \in Tlbs /\ datatlb \in Tlbs
    BY <2>1 DEF Init
  <2> QED
    BY <2>2, <2>3, <2>4, <2>5, <2>6 DEF TypeInv, TypeOK
<1>2. TypeInv /\ [Next]_vars => TypeInv'
  BY StepType
<1>3. TypeInv => TypeOK
  BY DEF TypeInv
<1> QED
  BY <1>1, <1>2, <1>3, PTL DEF Spec
=============================================================================

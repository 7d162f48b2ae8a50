-------------------------------- MODULE Mmu ---------------------------------
(***************************************************************************)
(* Address translation: the page-table walk and the two one-entry TLBs of  *)
(* core/memory.c, and the CP15 operations of exec_crt that govern them.    *)
(*                                                                         *)
(* A virtual address is <<section, page, quarter>>; a small page has its   *)
(* quarters as subpages, a large page its pages.  A physical address is a  *)
(* base (the frame a descriptor names) and the offset kept from the        *)
(* virtual address.  Page tables are abstract: a table maps sections to    *)
(* first-level descriptors, and a coarse descriptor holds its second-level *)
(* table.                                                                  *)
(***************************************************************************)
EXTENDS Integers

CONSTANTS Sections, Pages, Quarters,   \* the parts of an address
          Tables,        \* places of first-level tables (translation bases)
          Descs,         \* first-level descriptors the guest stores
          Controls,      \* control words the guest writes: [m, a, s, r]
          Domains,
          Modes,         \* processor modes the guest runs in
          Frames,        \* physical frames the descriptors name
          Holes,         \* those in 0xc2..0xc7 and 0xca..0xdf: no handler
          Latency        \* instructions run between an MMU switch and its effect

ASSUME LatencyAssumption == Latency \in Nat \ {0}
\* A second-level table holds small pages, or one large page in all its slots.
ASSUME DescsAssumption ==
    \A d \in Descs : d.type = "coarse" => \A p \in Pages :
       /\ d.l2[p].type \in {"fault", "small", "large"}
       /\ d.l2[p].type = "small" => DOMAIN d.l2[p].ap = Quarters
       /\ d.l2[p].type = "large" => /\ DOMAIN d.l2[p].ap = Pages
                                   /\ \A q \in Pages : d.l2[q] = d.l2[p]
ASSUME FramesAssumption ==
    \A d \in Descs :
       /\ d.type = "section" => d.base \in Frames
       /\ d.type = "coarse" =>
            \A p \in Pages : d.l2[p].type # "fault" => d.l2[p].base \in Frames
ASSUME ModesAssumption == {"usr", "svc"} \subseteq Modes /\ "none" \notin Modes

VARIABLES ptab,          \* the guest's page tables
          translationbase,
          domainaccesscontrol,
          mmucontrol,
          pending,       \* control word being switched in, and turns left
          insttlb, datatlb,
          currentmode,
          memoryfault,
          fetched,       \* an instruction has been fetched and not completed
          halted,        \* abort(), exit() or a failed assertion
          dirty          \* history: tables or registers changed since a flush

mmu == <<ptab, translationbase, domainaccesscontrol, mmucontrol, pending>>
vars == <<mmu, insttlb, datatlb, currentmode, memoryfault, fetched, halted, dirty>>

VA == Sections \X Pages \X Quarters
NoMode == "none"       \* modestamp -1: there isn't a mode -1

NotPending == [left |-> 0, word |-> [m |-> 0, a |-> 0, s |-> 0, r |-> 0]]

\* memory_inittlb: reads through mem_rnull exit, writes are ignored.
EmptyTlb == [stamp |-> NoMode, cover |-> {}, kind |-> "none", base |-> "null",
             dev |-> "null", read |-> FALSE, write |-> TRUE]

Init == /\ ptab \in [Tables -> [Sections -> Descs]]
        /\ translationbase \in Tables
        /\ domainaccesscontrol = [d \in Domains |-> 0]
        /\ mmucontrol = [m |-> 0, a |-> 0, s |-> 0, r |-> 0]
        /\ pending = NotPending
        /\ insttlb = EmptyTlb
        /\ datatlb = EmptyTlb
        /\ currentmode = "svc"
        /\ memoryfault = FALSE
        /\ fetched = FALSE
        /\ halted = FALSE
        /\ dirty = FALSE

-----------------------------------------------------------------------------
(* The walk: memory_virtualtophysical *)

\* currentmode & 15==0 is currentmode & (15==0), which is 0 in every mode.
isuser(m) == FALSE

\* The apfault table: who may read and write under access permission ap and
\* the S and R bits of the control register.
apfault(ap, s, r, user) ==
    IF ap = 0 THEN [read  |-> IF user THEN r = 1 /\ s = 0 ELSE s + r = 1,
                    write |-> FALSE]
    ELSE [read  |-> user => ap # 1,
          write |-> user => ap = 3]

\* Permissions under domain access 1 (client) or 3 (manager, no checking).
Permission(control, ap, access, m) ==
    IF access = 1 THEN apfault(ap, control.s, control.r, isuser(m))
    ELSE [read |-> TRUE, write |-> TRUE]

AllSame(f) == \A x, y \in DOMAIN f : f[x] = f[y]

Fault(why) == [ok |-> FALSE, why |-> why]

Found(kind, base, perm, cover) ==
    [ok |-> TRUE, kind |-> kind, base |-> base, perm |-> perm, cover |-> cover]

\* A translated page: valid for the whole page when its subpages agree or
\* are not checked, for one subpage otherwise.
WalkPage(control, va, d, access, m) ==
    LET l2    == d.l2[va[2]]
        large == l2.type = "large"
        part  == IF large THEN va[2] ELSE va[3]
        full  == access = 3 \/ AllSame(l2.ap)
        pages == IF large /\ full THEN Pages ELSE {va[2]}
        quart == IF large \/ full THEN Quarters ELSE {va[3]}
    IN  IF access \in {0, 2} THEN Fault("domain")
        ELSE IF l2.type = "fault" THEN Fault("dead")
        ELSE Found(l2.type, l2.base, Permission(control, l2.ap[part], access, m),
                   {va[1]} \X pages \X quart)

WalkSection(control, va, d, access, m) ==
    IF access \in {0, 2} THEN Fault("domain")
    ELSE Found("section", d.base, Permission(control, d.ap, access, m),
               {va[1]} \X Pages \X Quarters)

\* With the MMU off addresses map to themselves, 16Mb at a time.  Fine tables,
\* translation faults and frames outside the machine end the process (exit,
\* assert, abort).
Translate(table, dac, control, va, m) ==
    LET d == table[va[1]]
    IN  CASE control.m = 0 ->
               Found("identity", "self", [read |-> TRUE, write |-> TRUE], VA)
          [] control.m # 0 /\ d.type = "coarse" ->
               WalkPage(control, va, d, dac[d.domain], m)
          [] control.m # 0 /\ d.type = "section" ->
               WalkSection(control, va, d, dac[d.domain], m)
          [] OTHER -> Fault("dead")

Walk(va, m) ==
    Translate(ptab[translationbase], domainaccesscontrol, mmucontrol, va, m)

\* memory_physicalmap picks the handlers by frame; for a frame in a hole it
\* leaves those of the previous translation in place.
Fill(tlb, w, m) ==
    IF w.base \in Holes
    THEN [tlb EXCEPT !.stamp = m, !.cover = w.cover, !.kind = w.kind, !.base = w.base]
    ELSE [stamp |-> m, cover |-> w.cover, kind |-> w.kind, base |-> w.base,
          dev |-> w.base, read |-> w.perm.read, write |-> w.perm.write]

memory_invalidatetlb(tlb) == [tlb EXCEPT !.stamp = NoMode]

Hit(tlb, va, m) == tlb.stamp = m /\ va \in tlb.cover

-----------------------------------------------------------------------------
(* Instructions: a fetch, then any number of transfers, then completion *)

Die == /\ halted' = TRUE
       /\ UNCHANGED <<mmu, insttlb, datatlb, currentmode, memoryfault, fetched, dirty>>

\* memory_readinstword.  A domain fault sets memoryfault and nothing looks at
\* it: the word read through the old handlers is executed.
Fetch(va) ==
    LET hit == Hit(insttlb, va, currentmode)
        w   == Walk(va, currentmode)
        t   == IF hit THEN insttlb
               ELSE IF w.ok THEN Fill(insttlb, w, currentmode)
               ELSE memory_invalidatetlb(insttlb)
        dead == ~hit /\ ~w.ok /\ w.why = "dead"
    IN  /\ ~fetched
        /\ \/ /\ ~dead /\ t.read
              /\ insttlb' = t
              /\ memoryfault' = (memoryfault \/ ~(hit \/ w.ok))
              /\ fetched' = TRUE
              /\ UNCHANGED <<mmu, datatlb, currentmode, halted, dirty>>
           \/ /\ dead \/ ~t.read
              /\ Die

\* Where a store goes: anywhere, or into a page table.  The TLBs are not told.
Store(write) ==
    \/ /\ UNCHANGED <<ptab, dirty>>
    \/ /\ write
       /\ \E b \in Tables, s \in Sections, d \in Descs : ptab' = [ptab EXCEPT ![b][s] = d]
       /\ dirty' = TRUE

\* One load or store of an instruction.  The T variants tell the memory system
\* it is in user mode for the access.  Alignment is checked on a miss with the
\* A bit set.  A memoryfault then pending, this one's or an earlier fetch's,
\* becomes a data abort, which calls abort(); a read without permission exits.
Transfer(va, write, user, misaligned) ==
    LET m     == IF user THEN "usr" ELSE currentmode
        hit   == Hit(datatlb, va, m)
        w     == Walk(va, m)
        t     == IF hit THEN datatlb ELSE Fill(datatlb, w, m)
        align == ~hit /\ mmucontrol.m = 1 /\ mmucontrol.a = 1 /\ misaligned
        done  == /\ hit \/ w.ok
                 /\ IF write THEN t.write ELSE t.read
                 /\ ~align
                 /\ ~memoryfault
    IN  /\ fetched
        /\ \/ /\ done
              /\ datatlb' = t
              /\ Store(write)
              /\ UNCHANGED <<translationbase, domainaccesscontrol, mmucontrol, pending,
                             insttlb, currentmode, memoryfault, fetched, halted>>
           \/ /\ ~done
              /\ Die

\* Mutant: the data TLB is not flushed when the MMU is switched.
Complete_unflushed(control, itlb, dtlb, stale) ==
    /\ fetched
    /\ fetched' = FALSE
    /\ IF pending.left = 1
       THEN /\ pending' = NotPending
            /\ mmucontrol' = pending.word
            /\ insttlb' = memory_invalidatetlb(itlb)
            /\ datatlb' = dtlb
            /\ dirty' = FALSE
       ELSE /\ pending' = [pending EXCEPT !.left = IF @ = 0 THEN 0 ELSE @ - 1]
            /\ mmucontrol' = control
            /\ insttlb' = itlb
            /\ datatlb' = dtlb
            /\ dirty' = stale

\* An instruction completes, leaving the control word, TLBs and history given.
\* The last one of the window of a pending MMU switch stores the new control
\* word and flushes both TLBs.
Complete(control, itlb, dtlb, stale) ==
    /\ fetched
    /\ fetched' = FALSE
    /\ IF pending.left = 1
       THEN /\ pending' = NotPending
            /\ mmucontrol' = pending.word
            /\ insttlb' = memory_invalidatetlb(itlb)
            /\ datatlb' = memory_invalidatetlb(dtlb)
            /\ dirty' = FALSE
       ELSE /\ pending' = [pending EXCEPT !.left = IF @ = 0 THEN 0 ELSE @ - 1]
            /\ mmucontrol' = control
            /\ insttlb' = itlb
            /\ datatlb' = dtlb
            /\ dirty' = stale

\* The end of a load or store, or an instruction that does neither.
OtherInsn == /\ Complete(mmucontrol, insttlb, datatlb, dirty)
             /\ UNCHANGED <<ptab, translationbase, domainaccesscontrol, currentmode,
                            memoryfault, halted>>

\* Mutant: the window is one instruction longer.
McrSwitch_longer(word) ==
    /\ fetched
    /\ word.m # mmucontrol.m
    /\ pending.left = 0
    /\ pending' = [left |-> Latency + 1, word |-> word]
    /\ fetched' = FALSE
    /\ UNCHANGED <<ptab, translationbase, domainaccesscontrol, mmucontrol, insttlb,
                   datatlb, currentmode, memoryfault, halted, dirty>>

\* MCR c1 that switches the MMU: the next instructions run under the old
\* setting, inside this one.  (A guest does not switch again within them.)
McrSwitch(word) ==
    /\ fetched
    /\ word.m # mmucontrol.m
    /\ pending.left = 0
    /\ pending' = [left |-> Latency, word |-> word]
    /\ fetched' = FALSE
    /\ UNCHANGED <<ptab, translationbase, domainaccesscontrol, mmucontrol, insttlb,
                   datatlb, currentmode, memoryfault, halted, dirty>>

\* MCR c1 that changes other bits: stored at once, nothing flushed.
McrControl(word) ==
    /\ word.m = mmucontrol.m
    /\ Complete(word, insttlb, datatlb, TRUE)
    /\ UNCHANGED <<ptab, translationbase, domainaccesscontrol, currentmode, memoryfault,
                   halted>>

\* MCR c2: stored, nothing flushed.
McrTranslationBase(b) ==
    /\ translationbase' = b
    /\ Complete(mmucontrol, insttlb, datatlb, TRUE)
    /\ UNCHANGED <<ptab, domainaccesscontrol, currentmode, memoryfault, halted>>

Flushed == Complete(mmucontrol, memory_invalidatetlb(insttlb),
                    memory_invalidatetlb(datatlb), FALSE)

\* MCR c3: stored, and both TLBs flushed.
McrDomains(dac) ==
    /\ domainaccesscontrol' = dac
    /\ Flushed
    /\ UNCHANGED <<ptab, translationbase, currentmode, memoryfault, halted>>

\* MCR c7 and c8, whatever the operand.
McrFlush == /\ Flushed
            /\ UNCHANGED <<ptab, translationbase, domainaccesscontrol, currentmode,
                           memoryfault, halted>>

\* processor_mode stores the new mode for the memory system; no flush, the
\* entries carry the mode they were made in.
ChangeMode == /\ currentmode' \in Modes \ {currentmode}
              /\ Complete(mmucontrol, insttlb, datatlb, dirty)
              /\ UNCHANGED <<ptab, translationbase, domainaccesscontrol, memoryfault,
                             halted>>

Next ==
    /\ ~halted
    /\ \/ \E va \in VA : Fetch(va)
       \/ \E va \in VA, write, user, misaligned \in BOOLEAN :
             Transfer(va, write, user, misaligned)
       \/ OtherInsn
       \/ \E word \in Controls : McrSwitch(word) \/ McrControl(word)
       \/ \E b \in Tables : McrTranslationBase(b)
       \/ \E dac \in [Domains -> 0..3] : McrDomains(dac)
       \/ McrFlush
       \/ ChangeMode

Spec == Init /\ [][Next]_vars

-----------------------------------------------------------------------------
(* Properties *)

Tlbs == [stamp : Modes \cup {NoMode}, cover : SUBSET VA,
         kind : {"none", "identity", "section", "large", "small"},
         base : Frames \cup {"self", "null"}, dev : Frames \cup {"self", "null"},
         read : BOOLEAN, write : BOOLEAN]

\* Type invariant of the MMU registers, the TLBs and the fault flag.
TypeOK == /\ ptab \in [Tables -> [Sections -> Descs]]
          /\ translationbase \in Tables
          /\ domainaccesscontrol \in [Domains -> 0..3]
          /\ mmucontrol \in Controls \cup {NotPending.word}
          /\ pending.left \in 0 .. Latency
          /\ insttlb \in Tlbs /\ datatlb \in Tlbs
          /\ currentmode \in Modes
          /\ memoryfault \in BOOLEAN /\ fetched \in BOOLEAN
          /\ halted \in BOOLEAN /\ dirty \in BOOLEAN

\* Entry tlb answers for va as a walk of the tables would.
Agrees(tlb, va) ==
    LET w == Walk(va, tlb.stamp)
    IN  /\ w.ok
        /\ tlb.kind = w.kind
        /\ tlb.base = w.base
        /\ w.base \notin Holes =>
             tlb.dev = w.base /\ tlb.read = w.perm.read /\ tlb.write = w.perm.write

Coherent(tlb) == tlb.stamp # NoMode => \A va \in tlb.cover : Agrees(tlb, va)

\* A guest that flushes after changing its page tables, translation base or
\* permission bits is never served a stale translation or permission, by
\* either TLB, in any mode, across mode changes, T-variant accesses, domain
\* changes, domain faults and the delayed switching on or off of the MMU.
TlbCoherent == (~halted /\ ~dirty) => Coherent(insttlb) /\ Coherent(datatlb)
=============================================================================

------------------------------ MODULE Recompiler -----------------------------
(***************************************************************************)
(* recompile_chunk (recompile.c): a chunk of ARM code on its way through   *)
(* the passes to native code.  One action per pass, in the order of the    *)
(* calls; a pass that ends the process leaves fault behind.  Every program *)
(* of Programs is tried.                                                   *)
(***************************************************************************)
EXTENDS Pheta, PhetaPasses, Assemble

CONSTANTS Programs,   \* the chunks, as sequences of guest instructions
          Regs,       \* registers the programs use
          Questions, Fuel, Steps, \* bounds of the executions
          MaxTurns    \* bound: turns of the transitive branch pass

M == INSTANCE NativeMeaning
G == INSTANCE Graphs

VARIABLES prog,   \* the chunk
          pass,   \* the pass that comes next
          turns,  \* turns of the transitive branch pass so far
          c,      \* its intermediate code
          alloc,  \* the allocation of its temporaries
          nat     \* the native code

vars == <<prog, pass, turns, c, alloc, nat>>

None86 == [code |-> << >>, fault |-> "none"]

Init ==
  /\ prog \in Programs
  /\ pass = "translate"
  /\ turns = 0
  /\ c = NewChunk({})
  /\ alloc = << >>
  /\ nat = None86

\* A pass that can fail, and the pass after it
Becomes(chunk, to) == c' = chunk /\ pass' = IF chunk.fault = "none" THEN to ELSE "ended"

Translate ==
  /\ pass = "translate"
  /\ Becomes(translatechunk(prog), "transitive")
  /\ alloc' = IF c'.fault = "none" THEN palloc_constant(c', palloc_init(c'))
              ELSE alloc
  /\ UNCHANGED <<prog, turns, nat>>

\* One turn of the loop over all blocks
TransitiveBranch ==
  /\ pass = "transitive" /\ turns < MaxTurns
  /\ turns' = turns + 1
  /\ c' = transitive_branch(c)
  /\ pass' = IF c'.change THEN pass ELSE "cull"
  /\ UNCHANGED <<prog, alloc, nat>>

Cull ==
  /\ pass = "cull"
  /\ Becomes(cull(c), "fixup")
  /\ UNCHANGED <<prog, turns, alloc, nat>>

\* The passes dfs and scc only number the blocks; nothing reads the numbers
\* afterwards.
FixupFlags ==
  /\ pass = "fixup"
  /\ Becomes(fixup_flags(c, predecessor(c)), "alias")
  /\ UNCHANGED <<prog, turns, alloc, nat>>

SrcDestAlias ==
  /\ pass = "alias"
  /\ pass' = "generate"
  /\ alloc' = srcdestalias(c, alloc)
  /\ UNCHANGED <<prog, turns, c, nat>>

\* Linear scan with generation, spill code, flattening
Generate ==
  /\ pass = "generate"
  /\ LET x == linearscan(c, alloc)
     IN /\ alloc' = x.alloc
        /\ nat' = IF x.fault = "none" THEN flatten_code(c, x)
                  ELSE [None86 EXCEPT !.fault = x.fault]
  /\ pass' = "ended"
  /\ UNCHANGED <<prog, turns, c>>

Next == Translate \/ TransitiveBranch \/ Cull \/ FixupFlags \/ SrcDestAlias \/ Generate
Spec == Init /\ [][Next]_vars

Translated == pass # "translate" /\ c.fault = "none"
Generated == nat.code # << >> /\ nat.fault = "none"

----------------------------------------------------------------------------
(* Programs the translator handles.  What it does with others is listed in *)
(* the README.                                                             *)
Lines86 == 0..(Len(prog) - 1)
At(l) == prog[l + 1]
Branches(l) == At(l).k = "bra"
Goes(l) == IF Branches(l) THEN {At(l).dest} ELSE {}
Entered == {0} \cup UNION {{l + 1} \cup Goes(l) : l \in {l \in Lines86 : Branches(l)}}
Uses15(g) == \/ g.k \in {"dp", "sdt"} /\ g.rn = 15
             \/ g.k = "sdt" /\ g.l /\ g.rd = 15
             \/ g.k = "bdt" /\ g.l /\ 15 \in g.list

\* r15 is written by data operations only, no call; no conditional instruction
\* where a block starts.  No fall into the destination of a branch, unless
\* all before it is one block and the branch comes later.
Regular ==
  \A l \in Lines86 :
    /\ ~Uses15(At(l))
    /\ ~Branches(l) => At(l).cond = AL \/ l \notin Entered
    /\ Branches(l) =>
         LET d == At(l).dest
         IN /\ ~At(l).l
            /\ \/ d \notin 1..(Len(prog) - 1)
               \/ Branches(d - 1)
               \/ d <= l /\ \A k \in 0..(d - 1) : ~Branches(k)

Meaning == M!guest(prog)

\* No condition asks for a flag the chunk has not set, and no block that loops
\* to itself reads the carry
Local ==
  LET m == Meaning IN
  /\ m # {}
  /\ \A o \in m : \A q \in DOMAIN o.path :
       \A f \in DOMAIN q[2] : q[2][f][1] # "flag"
  /\ \A b \in ToSet(c.blocks) : b \in {c.blk[b].t, c.blk[b].f} =>
       \A i \in ToSet(c.blk[b].base) : i.op # "FENSURE"

\* No access to memory, no condition on the carry alone, no rotated constant,
\* no plain move to r15 or before another instruction, a condition at the end
Simple ==
  /\ At(Len(prog) - 1).k = "bra" /\ At(Len(prog) - 1).cond # AL
  /\ \A l \in Lines86 :
       /\ At(l).k \in {"dp", "mul", "bra"} /\ At(l).cond \notin {CS, CC}
       /\ Branches(l) => At(l).cond # AL
       /\ At(l).k = "dp" =>
            /\ At(l).o2.form = "imm" => At(l).o2.carry = None
            /\ At(l).op # "MOV" \/ l = Len(prog) - 2

Strip(outcomes) == {[pc |-> o.pc, regs |-> o.regs, mem |-> o.mem, path |-> o.path]
                      : o \in outcomes}
Exit(outcomes) == {[r15 |-> o.r15, regs |-> o.regs, mem |-> o.mem, path |-> o.path]
                     : o \in {o \in outcomes : o.pc # <<"abort">>}}

\* Until flags are placed, the block graph means what the ARM code does, the
\* state at each fault of a memory access included: pheta.c translates, and
\* the two passes change branches only.
Means ==
  Translated /\ pass \in {"transitive", "cull", "fixup"} /\ Regular
    => M!run(c, FALSE) = Meaning

\* Committing only the flags and predicates that pheta_fixup_flags found needed
\* leaves registers, stores, exits and the way through the chunk the same.
FixupMeans ==
  Translated /\ pass = "alias" /\ Regular /\ Local
    => Strip(M!run(c, TRUE)) = Strip(Meaning)

\* The native code stores in the register file what the block graph computes
\* and leaves the same address in r15, on the same conditions: allocation,
\* generation, spill code, the order of blocks and the jumps between them.
NativeMeans ==
  Generated /\ Simple /\ Regular /\ Local
    => Exit(M!exec(nat.code)) = Exit(M!run(c, TRUE))

\* Without spills every instruction the generator emits has an encoding.
Encodes ==
  (\A t \in DOMAIN alloc : alloc[t].type # "RFILE") => nat.fault # "encoding"

\* An operation that shares the place of its first source overwrites nothing
\* that is read afterwards: palloc_srcdestalias says the source is not used
\* after the instruction.  It does not ask this of moves, and looks at the
\* ranges as they were before any were shared.
OverwrittenIsDead ==
  pass = "generate" =>
    \A u \in Lines(c) :
      LET d == Line(c, u).dest
          Before == {Line(c, l).dest : l \in 0..(u - 1)} \ {None}
          After == UNION {ToSet(Uses(Line(c, l))) : l \in (u + 1)..(Len(Code(c)) - 1)}
      IN d # None /\ alloc[d].type = "ALIAS" /\ Line(c, u).op # "MOV" =>
           \A s \in Before \cap After : close(alloc, s) # close(alloc, d)

\* pheta_optimise_transitive_branch comes to an end within as many turns as
\* there are blocks, unless empty blocks branch to each other in a circle.
Empty == [node |-> {b \in ToSet(c.blocks) : IsEmpty(c, b)},
          edge |-> {<<b, s>> \in ToSet(c.blocks) \X ToSet(c.blocks) :
                      /\ IsEmpty(c, b) /\ IsEmpty(c, s)
                      /\ s \in {c.blk[b].t, c.blk[b].f}}]
TransitiveEnds ==
  pass = "transitive" /\ ~G!HasCycle(Empty) => turns < Len(c.blk)
=============================================================================

------------------------------- MODULE Palloc --------------------------------
(***************************************************************************)
(* Live ranges and the aliasing of temporaries (palloc.c).  All passes     *)
(* over the code go through the blocks in the same order, a block before   *)
(* its successors and the true one first, and count instructions in it as  *)
(* lines.  An allocation gives a temporary a type (UNSET, CONST, CONSTB,   *)
(* IREG, RFILE or ALIAS), the value that goes with it and the ARM register *)
(* it stands for, if any.                                                  *)
(***************************************************************************)
EXTENDS PhetaIr, Pqueue

EAX == 0
ECX == 1
EDX == 2
ESP == 4
EBP == 5
HostRegs == 0..7

\* The recursion of the passes, with its markers
RECURSIVE Visit(_, _, _)
Visit(c, seen, b) ==
  LET Into(s, n) == IF n = NoBlock \/ n \in ToSet(s) THEN s ELSE Visit(c, s, n)
  IN Into(Into(Append(seen, b), c.blk[b].t), c.blk[b].f)
Order(c) == Visit(c, << >>, c.root)

Code(c) == FlattenSeq([k \in DOMAIN Order(c) |-> c.blk[Order(c)[k]].base])
Line(c, l) == Code(c)[l + 1]
Lines(c) == 0..(Len(Code(c)) - 1)

\* palloc_init
palloc_init(c) ==
  [t \in 0..(c.tempno - 1) |-> [type |-> "UNSET", v |-> 0, arm |-> None]]

\* palloc_constant
palloc_constant(c, alloc) ==
  LET All == UNION {ToSet(c.blk[b].base) : b \in ToSet(c.blocks)}
      Def(t) == {i \in All : i.op \in Constant /\ i.dest = t}
  IN [t \in DOMAIN alloc |->
        IF Def(t) = {} THEN alloc[t]
        ELSE LET i == CHOOSE i \in Def(t) : TRUE
             IN [alloc[t] EXCEPT !.type = i.op, !.v = i.arg]]

IsConst(alloc, t) == alloc[t].type \in Constant

\* palloc_close
RECURSIVE close(_, _)
close(alloc, t) == IF alloc[t].type = "ALIAS" THEN close(alloc, alloc[t].v) ELSE t

\* palloc_findspans: a range starts where a temporary is defined, and ends at
\* the last line that reads it or a temporary aliased to it.  Ranges are kept
\* in the order of their first lines.
findspans(c, alloc) ==
  LET code == Code(c)
      Reads(r) == {l \in Lines(c) :
                     r \in {close(alloc, code[l + 1].src[n])
                              : n \in DOMAIN Uses(code[l + 1])}}
      Length(l, r) ==
        LET later == {u - l : u \in {u \in Reads(r) : u >= l}}
        IN IF later = {} THEN 0 ELSE CHOOSE m \in later : \A n \in later : n <= m
      Span(l) == LET r == close(alloc, code[l + 1].dest)
                 IN [start |-> l, length |-> Length(l, r), reg |-> r]
      defs == SelectSeq([n \in DOMAIN code |-> n - 1],
                        LAMBDA l : code[l + 1].dest # None)
  IN [n \in DOMAIN defs |-> Span(defs[n])]

EndOf(span) == span.start + span.length

\* palloc_srcdestalias: the destination of a move shares its source's
\* register.  Any other shares that of its first source, when this is the
\* last line to read it.  Constants are never shared.
srcdestalias(c, alloc0) ==
  LET spans == findspans(c, alloc0)
      Ends(t) == EndOf(spans[CHOOSE n \in DOMAIN spans : spans[n].reg = t])
      Alias(alloc, d, s, to) ==
        IF alloc[d].type = "UNSET" /\ ~IsConst(alloc, close(alloc, s))
        THEN [alloc EXCEPT ![d].type = "ALIAS", ![d].v = to] ELSE alloc
  IN FoldLeft(LAMBDA alloc, l :
       LET i == Line(c, l)
           s == i.src[1]
       IN CASE i.op = "MOV" -> Alias(alloc, i.dest, s, s)
            [] i.op # "MOV" /\ i.dest # None /\ Len(Uses(i)) > 0 ->
                 IF Ends(s) <= l
                 THEN Alias(alloc, i.dest, s, close(alloc, s)) ELSE alloc
            [] OTHER -> alloc,
       alloc0, [n \in 1..Len(Code(c)) |-> n - 1])

\* palloc_evict_ireg: every active range in the register moves to a free one.
\* TRUE when the register was free and allowed, or something else was.
palloc_evict_ireg(x, reg, except) ==
  LET free == {r \in HostRegs \ except : x.reguse[r] = 0}
      found == CHOOSE r \in free : \A q \in free : r <= q
      In(t) == x.alloc[t].type = "IREG" /\ x.alloc[t].v = reg
      moved == {t \in {close(x.alloc, r.reg) : r \in ToSet(x.active)} : In(t)}
  IN IF x.reguse[reg] = 0 /\ reg \notin except THEN [x EXCEPT !.ok = TRUE]
     ELSE IF free = {} THEN [x EXCEPT !.ok = FALSE]
     ELSE [x EXCEPT !.alloc = [t \in DOMAIN @ |->
                                 IF t \in moved THEN [@[t] EXCEPT !.v = found]
                                 ELSE @[t]],
                    !.reguse[reg] = 0, !.reguse[found] = 1, !.ok = TRUE]
=============================================================================

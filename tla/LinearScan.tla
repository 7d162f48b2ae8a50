----------------------------- MODULE LinearScan ------------------------------
(***************************************************************************)
(* Register allocation by linear scan (palloc_linearscan of palloc.c).     *)
(* Code is generated as the scan goes: what lies before the start of a     *)
(* range, then the range gets its register, and so on.                     *)
(***************************************************************************)
EXTENDS GenX86

MaxReg == 6

NewBuffer == [code |-> << >>, fetch |-> << >>, commit |-> << >>,
              expecting |-> {}, beenset |-> {}]

\* palloc_linearscan: ESP and EBP are never free
Scan(alloc) ==
  [alloc |-> alloc, reguse |-> [r \in HostRegs |-> IF r \in {ESP, EBP} THEN 2 ELSE 0],
   regno |-> 0, active |-> << >>, va |-> 0, ids |-> 1, ok |-> TRUE,
   buf |-> NewBuffer, bufs |-> << >>, fault |-> "none"]

\* Mutant of Expired: a range that ends where the new one starts is over.
ExpiredEarly(x, span) == x.active # << >> /\ EndOf(x.active[1]) <= span.start

\* Ranges that end before this one starts give their registers back
Expired(x, span) == x.active # << >> /\ EndOf(x.active[1]) < span.start
RECURSIVE Expire(_, _)
Expire(x, span) ==
  LET a == x.alloc[x.active[1].reg]
      frees == a.type = "IREG" /\ x.reguse[a.v] = 1
      y == IF frees THEN [x EXCEPT !.reguse[a.v] = 0, !.regno = @ - 1] ELSE x
  IN IF ~Expired(x, span) THEN x
     ELSE Expire([y EXCEPT !.active = pqueue_extract(@)], span)

InReg(alloc, t, r) == [alloc EXCEPT ![t].type = "IREG", ![t].v = r]

\* The active range that is spilled: the last one in the heap that ends later
\* than the new one, or the first.  It goes to the word of the register file
\* that has the number of its temporary.
Spill(x, span) ==
  LET held == SelectSeq(x.active, LAMBDA r : x.alloc[r.reg].type = "IREG")
      later == SelectSeq(held, LAMBDA r : EndOf(r) > EndOf(span))
      victim == (IF later = << >> THEN held[1] ELSE Last(later)).reg
      r == x.alloc[victim].v
  IN IF held = << >> THEN [x EXCEPT !.fault = "assert"]
     ELSE [x EXCEPT !.alloc = [InReg(@, span.reg, r)
                                 EXCEPT ![victim].type = "RFILE", ![victim].v = victim]]

\* A range whose register is not chosen yet gets the lowest free one
Allocate(x, span) ==
  LET y == Expire([x EXCEPT !.active =
                     pqueue_insert(@, span @@ [key |-> EndOf(span)])], span)
      free == {r \in HostRegs : y.reguse[r] = 0}
      r == CHOOSE r \in free : \A q \in free : r <= q
  IN IF x.alloc[span.reg].type # "UNSET" THEN x
     ELSE IF y.regno >= MaxReg THEN Spill(y, span)
     ELSE IF free = {} THEN [y EXCEPT !.fault = "assert"]
     ELSE [y EXCEPT !.reguse[r] = 1, !.regno = @ + 1,
                    !.alloc = InReg(@, span.reg, r)]

\* palloc_linearscan_inner, one line: its range if it starts one, its code
ScanLine(x, c, spans, l) ==
  LET here == SelectSeq(spans, LAMBDA s : s.start = l)
      y == IF here = << >> THEN x ELSE Allocate(x, here[1])
  IN IF x.fault # "none" THEN x
     ELSE IF y.fault # "none" THEN y ELSE translate_opcode(y, Line(c, l))

ScanBlock(x, c, spans, b, first) ==
  LET done == FoldLeft(LAMBDA y, l : ScanLine(y, c, spans, l),
                       [x EXCEPT !.buf = NewBuffer],
                       [n \in 1..Len(c.blk[b].base) |-> first + n - 1])
  IN [done EXCEPT !.bufs = (b :> done.buf) @@ @]

linearscan(c, alloc) ==
  LET spans == findspans(c, alloc)
      order == Order(c)
      First(k) == Len(FlattenSeq([n \in 1..(k - 1) |-> c.blk[order[n]].base]))
  IN FoldLeft(LAMBDA x, k : ScanBlock(x, c, spans, order[k], First(k)),
              Scan(alloc), [k \in DOMAIN order |-> k])
=============================================================================

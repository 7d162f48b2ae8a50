----------------------------- MODULE PhetaPasses -----------------------------
(***************************************************************************)
(* The passes over the block graph between translation and register        *)
(* allocation (pheta.c).  Each takes a chunk and returns the changed one.  *)
(* The list blocks is scanned from the latest block to the first.          *)
(***************************************************************************)
EXTENDS PhetaIr

IsEmpty(c, b) == c.blk[b].base = << >>

\* Mutant of SkipTrue: an opposite predicate takes the true way.
SkipTrueWay(c, b) ==
  LET k == c.blk[b]
      n == c.blk[k.t]
  IN IF k.t # NoBlock /\ IsEmpty(c, k.t) /\ k.pred = Opposite(n.pred)
     THEN [c EXCEPT !.blk[b].t = n.t, !.change = TRUE] ELSE c

\* pheta_optimise_transitive_branch: one block's successor for a true
\* predicate ...
SkipTrue(c, b) ==
  LET k == c.blk[b]
      n == c.blk[k.t]
  IN CASE k.t = NoBlock \/ ~IsEmpty(c, k.t) -> c
       [] k.pred = AL /\ k.f = NoBlock ->
            [c EXCEPT !.blk[b] = [@ EXCEPT !.pred = n.pred, !.f = n.f, !.t = n.t],
                      !.change = TRUE]
       [] k.pred = n.pred /\ b # k.t ->
            [c EXCEPT !.blk[b].t = n.t, !.change = TRUE]
       [] k.pred = Opposite(n.pred) ->
            [c EXCEPT !.blk[b].t = n.f, !.change = TRUE]
       [] OTHER -> c

\* ... and for a false one.
SkipFalse(c, b) ==
  LET k == c.blk[b]
      n == c.blk[k.f]
  IN CASE k.f = NoBlock \/ ~IsEmpty(c, k.f) -> c
       [] k.pred = n.pred /\ b # k.f ->
            [c EXCEPT !.blk[b].f = n.f, !.change = TRUE]
       [] k.pred = Opposite(n.pred) ->
            [c EXCEPT !.blk[b].f = n.t, !.change = TRUE]
       [] OTHER -> c

\* Mutant of transitive_branch: change is not reset.
transitive_branch_again(c) ==
  FoldLeft(LAMBDA d, b : SkipFalse(SkipTrue(d, b), b), c, c.blocks)

\* One turn of the loop of pheta_optimise_transitive_branch; the pass repeats
\* it while a turn sets change.
transitive_branch(c) ==
  FoldLeft(LAMBDA d, b : SkipFalse(SkipTrue(d, b), b),
           [c EXCEPT !.change = FALSE], c.blocks)

\* pheta_cull_unused_nodes: blocks no block branches to leave the list
cull(c) ==
  LET marked == {c.root} \cup {c.blk[b].t : b \in ToSet(c.blocks)}
                         \cup {c.blk[b].f : b \in ToSet(c.blocks)}
  IN [c EXCEPT !.blocks = SelectSeq(@, LAMBDA b : b \in marked)]

\* pheta_dfs_visit: numbers of the blocks in the order they are finished
RECURSIVE dfs_visit(_, _, _)
dfs_visit(c, s, b) ==
  LET open == [s EXCEPT !.seen = @ \cup {b}, !.time = @ + 1]
      Down(x, n) == IF n = NoBlock \/ n \in x.seen THEN x
                    ELSE dfs_visit(c, x, n)
      done == Down(Down(open, c.blk[b].t), c.blk[b].f)
  IN [done EXCEPT !.time = @ + 1, !.finish = (b :> done.time + 1) @@ @]

\* pheta_dfs
dfs(c) ==
  FoldLeft(LAMBDA s, b : IF b \in s.seen THEN s ELSE dfs_visit(c, s, b),
           [seen |-> {}, time |-> 0, finish |-> << >>], c.blocks)

\* pheta_predecessor: an edge is inserted before the first predecessor that
\* finished at its stime.  stime is never set, so no edge is inserted there
\* and each goes to the end of the list.
predecessor(c) ==
  LET Edge(p, from, to) == IF to = NoBlock THEN p
                           ELSE [p EXCEPT ![to] = Append(@, from)]
  IN FoldLeft(LAMBDA p, b : Edge(Edge(p, b, c.blk[b].t), b, c.blk[b].f),
              [b \in 1..Len(c.blk) |-> << >>], c.blocks)

\* pheta_scc_visit: the predecessors of a block in decreasing order of finish,
\* and the block a traversal against the edges reached each one from
ByFinish(preds, finish) ==
  FoldLeft(LAMBDA q, b :
             LET later == SelectSeq(q, LAMBDA x : finish[x] >= finish[b])
                 below == SelectSeq(q, LAMBDA x : finish[x] < finish[b])
             IN later \o <<b>> \o below,
           << >>, preds)

RECURSIVE scc_visit(_, _, _, _)
scc_visit(preds, finish, s, b) ==
  FoldLeft(LAMBDA x, p :
             IF p \in x.seen THEN x
             ELSE scc_visit(preds, finish,
                            [x EXCEPT !.subgraph = (p :> b) @@ @], p),
           [s EXCEPT !.seen = @ \cup {b}], ByFinish(preds[b], finish))

\* pheta_scc
scc(c, preds, finish) ==
  FoldLeft(LAMBDA s, b : IF b \in s.seen THEN s
                         ELSE scc_visit(preds, finish, s, b),
           [seen |-> {}, subgraph |-> << >>], c.blocks)

\* Mutant of FixInstr: flags needed below are not asked of an FCOMMIT.
FixInstrForgets(s, i) ==
  LET n == s.base[i]
      met == s.pred # None /\ ccflags[s.pred] \subseteq n.have
  IN CASE n.op = "FENSURE" -> [s EXCEPT !.flags = @ \cup n.need]
       [] n.op = "FCOMMIT" ->
            [s EXCEPT !.base[i].pred = IF met THEN @ \cup {s.pred} ELSE @,
                      !.flags = @ \ n.have, !.pred = None]
       [] OTHER -> s

\* One instruction of the walk of pheta_fixup_flags_inner, which goes through a
\* block from its end: flags needed below are asked of the FCOMMIT that has
\* them, a predicate needed below must be had completely.
FixInstr(s, i) ==
  LET n == s.base[i]
      met == s.pred # None /\ ccflags[s.pred] \subseteq n.have
      need == n.need \cup (s.flags \cap n.have)
  IN CASE n.op = "SYNC" -> [s EXCEPT !.flags = NZCV]
       [] n.op = "FENSURE" -> [s EXCEPT !.flags = @ \cup n.need]
       [] n.op = "FCOMMIT" /\ s.pred # None /\ ~met -> [s EXCEPT !.fault = "abort"]
       [] n.op = "FCOMMIT" ->
            [s EXCEPT !.base[i] = [n EXCEPT !.need = need,
                                     !.pred = IF met THEN @ \cup {s.pred} ELSE @],
                      !.flags = @ \ need, !.pred = None]
       [] OTHER -> s

\* pheta_fixup_flags_inner: what a block does not have is asked of all its
\* predecessors but itself.  Calls are pending, to notice a recursion that
\* comes back to where it was, which the code never leaves.
RECURSIVE fixup_inner(_, _, _, _, _, _)
fixup_inner(c, preds, b, pred, flags, pending) ==
  LET start == [base |-> c.blk[b].base, flags |-> flags, fault |-> c.fault,
                pred |-> IF pred \in {AL, NV, NoPred} THEN None ELSE pred]
      n == Len(start.base)
      s == FoldLeft(LAMBDA x, i : IF x.fault # "none" THEN x ELSE FixInstr(x, i),
                    start, [i \in 1..n |-> n + 1 - i])
      d == [c EXCEPT !.blk[b].base = s.base, !.fault = s.fault]
      call == <<b, pred, flags>>
  IN IF s.fault # "none" \/ (s.flags = {} /\ s.pred = None) THEN d
     ELSE IF call \in pending THEN [d EXCEPT !.fault = "recursion"]
     ELSE FoldLeft(LAMBDA x, p :
                     IF p = b \/ x.fault # "none" THEN x
                     ELSE fixup_inner(x, preds, p,
                                      IF s.pred = None THEN NoPred ELSE s.pred,
                                      s.flags, pending \cup {call}),
                   d, preds[b])

\* pheta_fixup_flags.  The result of the inner function is 1 on every path, so
\* flags that no block has go unnoticed.
fixup_flags(c, preds) ==
  FoldLeft(LAMBDA d, b : IF d.fault # "none" THEN d
                         ELSE fixup_inner(d, preds, b, d.blk[b].pred, {}, {}),
           c, c.blocks)
=============================================================================

----------------------------- MODULE Dominators -----------------------------
(***************************************************************************)
(* The control-flow analysis of mem2reg (ir-opt/ir_opt_mem2reg_cfg.c):     *)
(* predecessor lists, immediate dominators by iteration to a fixed point,  *)
(* dominance frontiers.  A step is one block of a sweep of compute_doms, or *)
(* the whole of a function that only reads.                                *)
(***************************************************************************)
EXTENDS FlowGraph

CONSTANTS MAX_BLK,         \* blocks collect_blocks keeps (512)
          MAX_PRE,         \* predecessors it keeps of a block (128)
          MAX_DF,          \* entries of BlkInfo.df (32)
          DOM_MAX_ITER     \* sweeps of compute_doms (200)

ASSUME LimitsAssumption == {MAX_BLK, MAX_PRE, MAX_DF, DOM_MAX_ITER} \subseteq Nat \ {0}

VARIABLES g,        \* the function
          pc,       \* "collect", "sweep", "frontier", then what uses the result
          preds,    \* BlkInfo.preds
          idom,     \* BlkInfo.idom
          mark,     \* the marker array of compute_doms
          stamp,    \* its current stamp
          blk,      \* the block the sweep is at
          changed, iter,
          df        \* BlkInfo.df

None == -1

\* The number of blocks that are analysed.
N == IF g.n < MAX_BLK THEN g.n ELSE MAX_BLK

AnalysisInit == /\ pc = "collect"
                /\ preds = << >> /\ idom = << >> /\ mark = << >> /\ df = << >>
                /\ stamp = 0 /\ blk = 0 /\ changed = FALSE /\ iter = 0

(***************************************************************************)
(* collect_blocks                                                          *)
(***************************************************************************)

\* Block k is a predecessor of its s-th successor, if it has one.
AddEdge(lists, k, s) ==
  IF s \in DOMAIN g.succ[k]
  THEN LET j == g.succ[k][s]
       IN  IF j < N /\ Len(lists[j]) < MAX_PRE THEN [lists EXCEPT ![j] = Append(@, k)] ELSE lists
  ELSE lists

\* The lists after a pass over the blocks in their order.
PredLists ==
  LET after[k \in 0 .. N] == IF k = 0 THEN [b \in 0 .. N - 1 |-> << >>]
                             ELSE AddEdge(AddEdge(after[k - 1], k - 1, 1), k - 1, 2)
  IN  after[N]

\* Only the entry has a dominator, itself.
NoDominators == [b \in 0 .. N - 1 |-> IF b = 0 THEN 0 ELSE None]

CollectBlocks ==
  /\ pc = "collect"
  /\ preds' = PredLists
  /\ idom' = NoDominators
  /\ mark' = [b \in 0 .. N - 1 |-> 0]
  /\ df' = [b \in 0 .. N - 1 |-> << >>]
  /\ pc' = "sweep"
  /\ blk' = 1 /\ stamp' = 1 /\ changed' = FALSE /\ iter' = 0
  /\ UNCHANGED g

(***************************************************************************)
(* compute_doms                                                            *)
(***************************************************************************)

Above(tree, x) == IF x = None THEN None ELSE tree[x]

\* The ancestors of b in the tree as it stands, b first.  The root is its own
\* parent; above a block without one there is nothing.
Ancestors(tree, b) ==
  LET up[k \in 0 .. N] == IF k = 0 THEN b ELSE Above(tree, up[k - 1])
  IN  up

OnPath(tree, b) == Range(Ancestors(tree, b)) \ {None}

\* Mutant: the paths cross where the path from a begins.
meetAtA(tree, marks, a, b, st) == [node |-> a, marks |-> marks]

\* meet(a, b): stamp the path up from a, then take the first stamped block on
\* the path up from b.  Returns the block and the array of marks.
meet(tree, marks, a, b, st) ==
  LET path == OnPath(tree, a)
      m    == [x \in DOMAIN marks |-> IF x \in path THEN st ELSE marks[x]]
      up   == Ancestors(tree, b)
      hits == {k \in 0 .. N : up[k] # None /\ m[up[k]] = st}
  IN  [node |-> IF hits = {} THEN 0 ELSE up[Min(hits)], marks |-> m]

\* The intersection over the known predecessors of block b, in their order,
\* from the first of them.
Intersect(b) ==
  LET first == Min({i \in DOMAIN preds[b] : idom[preds[b][i]] # None})
      after[i \in 0 .. Len(preds[b])] ==
        IF i = 0 THEN [node |-> preds[b][first], marks |-> mark, stamp |-> stamp]
        ELSE IF idom[preds[b][i]] = None THEN after[i - 1]
        ELSE LET r == meet(idom, after[i - 1].marks, after[i - 1].node, preds[b][i], after[i - 1].stamp)
             IN  [node |-> r.node, marks |-> r.marks, stamp |-> after[i - 1].stamp + 1]
  IN  after[Len(preds[b])]

VisitBlock ==
  /\ pc = "sweep" /\ blk < N
  /\ IF \A i \in DOMAIN preds[blk] : idom[preds[blk][i]] = None
     THEN UNCHANGED <<idom, mark, stamp, changed>>
     ELSE LET r == Intersect(blk)
          IN  /\ mark' = r.marks
              /\ stamp' = r.stamp
              /\ idom' = [idom EXCEPT ![blk] = r.node]
              /\ changed' = (changed \/ r.node # idom[blk])
  /\ blk' = blk + 1
  /\ UNCHANGED <<g, pc, preds, iter, df>>

\* The marks stay and the stamps start again.
EndSweep ==
  /\ pc = "sweep" /\ blk = N
  /\ IF changed /\ iter + 1 < DOM_MAX_ITER
     THEN /\ iter' = iter + 1 /\ blk' = 1 /\ stamp' = 1 /\ changed' = FALSE
          /\ UNCHANGED pc
     ELSE pc' = "frontier" /\ UNCHANGED <<iter, blk, stamp, changed>>
  /\ UNCHANGED <<g, preds, idom, mark, df>>

(***************************************************************************)
(* compute_df                                                              *)
(***************************************************************************)

\* The runner's path from predecessor p of join b: it ends at the dominator of
\* b, above a block without parent, or at the root.
RunnerPath(p, b) ==
  LET up == Ancestors(idom, p)
      stop(k) == up[k] = None \/ up[k] = idom[b] \/ up[k] = idom[up[k]]
      ends == {k \in 0 .. N : stop(k)}
  IN  [k \in 1 .. (IF ends = {} THEN N + 1 ELSE Min(ends)) |-> up[k - 1]]

\* Mutant: a join is a block whose predecessors are unrelated.
IsJoinOfMany(b) == Len(preds[b]) > 2 /\ idom[b] # None

\* Joins among the blocks the dominator tree reaches.
IsJoin(b) == Len(preds[b]) >= 2 /\ idom[b] # None

\* Block b in the frontier of each block of a path, once for each time.
AddFrontier(lists, path, b) ==
  [x \in DOMAIN lists |->
     IF x \in Range(path) /\ Len(lists[x]) < MAX_DF THEN Append(lists[x], b) ELSE lists[x]]

\* The frontiers after join b, and after all of them.
OfJoin(lists, b) ==
  LET after[i \in 0 .. Len(preds[b])] ==
        IF i = 0 THEN lists ELSE AddFrontier(after[i - 1], RunnerPath(preds[b][i], b), b)
  IN  after[Len(preds[b])]

Frontiers ==
  LET after[k \in 0 .. N] == IF k = 0 THEN [b \in 0 .. N - 1 |-> << >>]
                             ELSE IF IsJoin(k - 1) THEN OfJoin(after[k - 1], k - 1) ELSE after[k - 1]
  IN  after[N]

ComputeDF ==
  /\ pc = "frontier"
  /\ df' = Frontiers
  /\ pc' = "analysed"
  /\ UNCHANGED <<g, preds, idom, mark, stamp, blk, changed, iter>>

Analyse == CollectBlocks \/ VisitBlock \/ EndSweep \/ ComputeDF

(***************************************************************************)
(* Properties                                                              *)
(***************************************************************************)

Analysed == pc = "analysed"

\* Every block and every edge has its place in the arrays.
EdgesInto(b) == {e \in Blocks(g) \X {1, 2} : e[2] \in DOMAIN g.succ[e[1]] /\ g.succ[e[1]][e[2]] = b}
WithinLimits == g.n <= MAX_BLK /\ \A b \in Blocks(g) : Cardinality(EdgesInto(b)) <= MAX_PRE

\* What is recorded is the dominator tree.
TreeIsExact ==
  LET doms == DominatorSets(g)
  IN  /\ idom[0] = 0
      /\ \A b \in 1 .. N - 1 : IF b \in DOMAIN doms THEN IsImmediateDominator(doms, idom[b], b)
                                                   ELSE idom[b] = None

\* ir_opt_mem2reg_cfg.c:53-54: in a function without loops what is recorded of
\* a block is its immediate dominator, in whatever order the blocks are listed,
\* and nothing of an unreachable one.  Marks of an earlier sweep can mislead
\* meet: switches nested three deep exist for which this fails.
ImmediateDominators == Analysed /\ HasNoLoops(g) /\ WithinLimits => TreeIsExact

\* With loops, what is recorded of a reachable block still dominates it,
\* though it may lie above its immediate dominator: a value renamed down the
\* tree is the value on every path.
RecordedDominate ==
  Analysed => LET doms == DominatorSets(g)
              IN  \A b \in DOMAIN doms \ {0} : idom[b] \in doms[b] \ {b}

\* The blocks where a value set in block a must meet others: a phi there is
\* itself a value.
PhisFor(frontier, a) ==
  LET more(S)  == frontier[a] \cup S \cup UNION {frontier[b] : b \in S}
      after[k \in 0 .. N] == IF k = 0 THEN {} ELSE more(after[k - 1])
  IN  after[N]

\* No edge leads back to the entry: ir_gen_function starts every loop with a
\* block of its own.
EntryIsFirst == \A p \in Reachable(g) : 0 \notin Succs(g, p)

\* compute_df: from an exact tree, with loops or without, what it lists of a
\* block is its dominance frontier, or as much of it as has a place.
FrontiersFound ==
  Analysed /\ WithinLimits /\ EntryIsFirst /\ TreeIsExact =>
    LET doms == DominatorSets(g)
    IN  \A a \in DOMAIN doms :
          /\ Range(df[a]) \subseteq DominanceFrontier(g, doms, a)
          /\ Len(df[a]) < MAX_DF => Range(df[a]) = DominanceFrontier(g, doms, a)

\* Where a loop makes the tree too flat a frontier may lack a block, never one
\* that its phis do not lead to: no phi is missing for want of it.
PhisReachFrontiers ==
  Analysed =>
    LET doms  == DominatorSets(g)
        found == [a \in 0 .. N - 1 |-> Range(df[a])]
    IN  \A a \in DOMAIN doms \ {0} : DominanceFrontier(g, doms, a) \subseteq PhisFor(found, a)
=============================================================================

------------------------------ MODULE FlowGraph ------------------------------
(***************************************************************************)
(* Control-flow graphs of one function and what is true of them whatever   *)
(* an optimizer computes.  Blocks are numbered in list order, 0 is the     *)
(* entry; succ[b] holds the targets of the terminator of b: one for        *)
(* IROP_BR, two for IROP_COND_BR (which may be equal), none for a return.  *)
(***************************************************************************)
EXTENDS Integers, SequencesExt, TLC

Blocks(g) == 0 .. g.n - 1

IsGraph(g) ==
  /\ g.n \in Nat \ {0}
  /\ g.succ \in [Blocks(g) -> UNION {[1 .. k -> Blocks(g)] : k \in 0 .. 2}]

Succs(g, b) == Range(g.succ[b])

FirstOf(s, k) == SubSeq(s, 1, IF Len(s) < k THEN Len(s) ELSE k)

\* The blocks one edge further than those of B, and all of these without a.
Further(g, B) == UNION {Succs(g, p) : p \in B}
Grown(g, a, B) == B \cup (Further(g, B) \ {a})

\* The blocks on some path from the entry that avoids block a.
ReachAvoiding(g, a) ==
  LET reach[k \in 0 .. g.n] == IF k = 0 THEN {0} \ {a} ELSE Grown(g, a, reach[k - 1])
  IN  reach[g.n]

Reachable(g) == ReachAvoiding(g, -1)

\* The blocks where a walk of k edges may end; without loops none is as long
\* as there are blocks.
WalkEnds(g) ==
  LET ends[k \in 0 .. g.n] == IF k = 0 THEN Blocks(g) ELSE Further(g, ends[k - 1])
  IN  ends

HasNoLoops(g) == WalkEnds(g)[g.n] = {}

\* Of every reachable block, the blocks on all the paths that lead to it.
DominatorSets(g) ==
  LET avoiding == [a \in Blocks(g) |-> ReachAvoiding(g, a)]
  IN  [b \in Reachable(g) |-> {a \in Blocks(g) : b \notin avoiding[a]}]

\* The strict dominator of b that every other one dominates.
IsImmediateDominator(doms, a, b) == a \in doms[b] \ {b} /\ doms[b] \ {b} \subseteq doms[a]

\* The blocks where the dominance of a ends (Cytron et al.).
DominanceFrontier(g, doms, a) ==
  {b \in DOMAIN doms :
     /\ a \notin doms[b] \ {b}
     /\ \E p \in DOMAIN doms : b \in Succs(g, p) /\ a \in doms[p]}
=============================================================================

---------------------------- MODULE Mem2RegProofs ----------------------------
(***************************************************************************)
(* Wherever the analysis has found the dominator tree, with or without     *)
(* loops, promotion keeps every definition above its uses, and leaves no   *)
(* use of a load that it removes from a reachable block.  Where its        *)
(* frontiers also lead to every block that needs a phi, as they do if no   *)
(* list is full, the function shows the same on every path as before.      *)
(***************************************************************************)
EXTENDS DominatorsProofs

(***************************************************************************)
(* Dominance in any graph.                                                 *)
(***************************************************************************)

\* What is reached without a is reached without b too, if b is not.
LEMMA AvoidingBoth ==
  ASSUME NEW h, IsGraph(h), NEW a, NEW b, b \notin ReachAvoiding(h, a)
  PROVE  ReachAvoiding(h, a) \subseteq ReachAvoiding(h, b)
<1>. DEFINE n == h.n
<1>1. n \in Nat
  BY DEF IsGraph
<1>2. PICK r \in [0 .. n -> SUBSET Blocks(h)] :
             /\ r[0] = {0} \ {a}
             /\ \A k \in 1 .. n : \A x :
                  x \in r[k] <=> x \in r[k - 1] \/ (x # a /\ \E p \in r[k - 1] : x \in Succs(h, p))
             /\ ReachAvoiding(h, a) = r[n]
  BY ReachUnfolds
<1>3. PICK q \in [0 .. n -> SUBSET Blocks(h)] :
             /\ q[0] = {0} \ {b}
             /\ \A k \in 1 .. n : \A x :
                  x \in q[k] <=> x \in q[k - 1] \/ (x # b /\ \E p \in q[k - 1] : x \in Succs(h, p))
             /\ ReachAvoiding(h, b) = q[n]
  BY ReachUnfolds
<1>. HIDE DEF n
<1>4. \A k \in 1 .. n : k \in 0 .. n /\ k - 1 \in 0 .. n
  BY <1>1
<1>5. \A k \in 0 .. n : b \notin r[k] => r[k] \subseteq q[k]
  <2>. DEFINE S == {k \in 0 .. n : b \notin r[k] => r[k] \subseteq q[k]}
  <2>1. 0 \in S
    BY <1>1, <1>2, <1>3
  <2>2. ASSUME NEW k \in 1 .. n, k - 1 \in S
        PROVE  k \in S
    <3>1. ASSUME b \notin r[k], NEW x \in r[k]
          PROVE  x \in q[k]
      <4>1. x # b /\ b \notin r[k - 1]
        BY <1>2, <3>1
      <4>2. r[k - 1] \subseteq q[k - 1]
        BY <2>2, <4>1
      <4>. QED
        BY <1>2, <1>3, <3>1, <4>1, <4>2
    <3>. QED
      BY <1>4, <3>1
  <2>3. 0 .. n \subseteq S
    <3>. HIDE DEF S
    <3>. QED
      BY <1>1, <2>1, <2>2, UpTo
  <2>. QED
    BY <2>3
<1>6. n \in 0 .. n
  BY <1>1
<1>. QED
  BY <1>2, <1>3, <1>5, <1>6

LEMMA ReachTypes ==
  ASSUME NEW h, IsGraph(h), NEW a
  PROVE  /\ ReachAvoiding(h, a) \subseteq Blocks(h) /\ a \notin ReachAvoiding(h, a)
         /\ a # 0 => 0 \in ReachAvoiding(h, a)
         /\ a = 0 => ReachAvoiding(h, a) = {}
<1>. DEFINE n == h.n
<1>1. n \in Nat /\ n \in 0 .. n /\ 0 \in 0 .. n
  BY DEF IsGraph
<1>2. PICK r \in [0 .. n -> SUBSET Blocks(h)] :
             /\ r[0] = {0} \ {a}
             /\ \A k \in 1 .. n : \A x :
                  x \in r[k] <=> x \in r[k - 1] \/ (x # a /\ \E p \in r[k - 1] : x \in Succs(h, p))
             /\ ReachAvoiding(h, a) = r[n]
  BY ReachUnfolds
<1>. HIDE DEF n
<1>3. \A k \in 1 .. n : k \in 0 .. n /\ k - 1 \in 0 .. n
  BY <1>1
<1>. DEFINE S == {k \in 0 .. n : a \notin r[k] /\ (a # 0 => 0 \in r[k]) /\ (a = 0 => r[k] = {})}
<1>4. 0 \in S
  BY <1>1, <1>2
<1>5. ASSUME NEW k \in 1 .. n, k - 1 \in S
      PROVE  k \in S
  <2>1. a \notin r[k] /\ (a # 0 => 0 \in r[k])
    BY <1>2, <1>5
  <2>2. ASSUME a = 0
        PROVE  r[k] = {}
    BY <1>2, <1>5, <2>2
  <2>. QED
    BY <1>3, <2>1, <2>2
<1>6. 0 .. n \subseteq S
  <2>. HIDE DEF S
  <2>. QED
    BY <1>1, <1>4, <1>5, UpTo
<1>7. n \in S
  <2>. HIDE DEF S
  <2>. QED
    BY <1>1, <1>6
<1>. QED
  BY <1>1, <1>2, <1>7

LEMMA DomMembers ==
  ASSUME NEW h, IsGraph(h), NEW b \in Reachable(h)
  PROVE  /\ \A a : a \in Dom(h, b) <=> a \in Blocks(h) /\ b \notin ReachAvoiding(h, a)
         /\ DOMAIN DominatorSets(h) = Reachable(h)
         /\ b \in Dom(h, b) /\ 0 \in Dom(h, b) /\ b \in Blocks(h)
<1>1. \A a : a \in Dom(h, b) <=> a \in Blocks(h) /\ b \notin ReachAvoiding(h, a)
  BY DEF Dom, DominatorSets
<1>2. DOMAIN DominatorSets(h) = Reachable(h)
  BY DEF DominatorSets
<1>3. b \in Blocks(h)
  BY ReachTypes DEF Reachable
<1>4. 0 \in Blocks(h)
  BY DEF IsGraph, Blocks
<1>. QED
  BY <1>1, <1>2, <1>3, <1>4, ReachTypes

\* Dominators are reached, and dominance is transitive.
LEMMA DomUp ==
  ASSUME NEW h, IsGraph(h), NEW b \in Reachable(h), NEW a \in Dom(h, b)
  PROVE  a \in Reachable(h) /\ Dom(h, a) \subseteq Dom(h, b)
<1>1. a \in Blocks(h) /\ b \notin ReachAvoiding(h, a)
  BY DomMembers
<1>2. a \in Reachable(h)
  BY <1>1, AvoidingBoth DEF Reachable
<1>3. ASSUME NEW x \in Dom(h, a)
      PROVE  x \in Dom(h, b)
  <2>1. x \in Blocks(h) /\ a \notin ReachAvoiding(h, x)
    BY <1>2, <1>3, DomMembers
  <2>2. ReachAvoiding(h, x) \subseteq ReachAvoiding(h, a)
    BY <2>1, AvoidingBoth
  <2>. QED
    BY <1>1, <2>1, <2>2, DomMembers
<1>. QED
  BY <1>2, <1>3

\* Of two blocks one is reached without the other.
LEMMA DomAntisymmetric ==
  ASSUME NEW h, IsGraph(h), NEW b \in Reachable(h), NEW a \in Dom(h, b), b \in Dom(h, a)
  PROVE  a = b
<1>. SUFFICES ASSUME a # b
              PROVE  FALSE
  OBVIOUS
<1>. DEFINE n == h.n
<1>1. n \in Nat /\ n \in 0 .. n
  BY DEF IsGraph
<1>2. /\ a \in Reachable(h) /\ a \in Blocks(h) /\ b \in Blocks(h)
      /\ b \notin ReachAvoiding(h, a) /\ a \notin ReachAvoiding(h, b)
  BY DomUp, DomMembers
<1>3. PICK r \in [0 .. n -> SUBSET Blocks(h)] :
             /\ r[0] = {0} \ {-1}
             /\ \A k \in 1 .. n : \A x :
                  x \in r[k] <=> x \in r[k - 1] \/ (x # -1 /\ \E p \in r[k - 1] : x \in Succs(h, p))
             /\ Reachable(h) = r[n]
  BY ReachUnfolds DEF Reachable
<1>. DEFINE Holds(q, c) == /\ q \in [0 .. n -> SUBSET Blocks(h)]
                           /\ q[0] = {0} \ {c}
                           /\ \A k \in 1 .. n : \A x :
                                x \in q[k] <=> x \in q[k - 1] \/ (x # c /\ \E p \in q[k - 1] : x \in Succs(h, p))
                           /\ ReachAvoiding(h, c) = q[n]
<1>4. \A c : \E q : Holds(q, c)
  BY ReachUnfolds
<1>5. PICK q : Holds(q, a)
  BY <1>4
<1>6. PICK s : Holds(s, b)
  BY <1>4
<1>. HIDE DEF n
<1>7. \A k \in 1 .. n : k \in 0 .. n /\ k - 1 \in 0 .. n
  BY <1>1
<1>8. \A k \in 0 .. n : a \notin s[k] /\ b \notin q[k]
  <2>1. ASSUME NEW t, NEW c, Holds(t, c)
        PROVE  \A k \in 0 .. n : \A j \in 0 .. k : t[j] \subseteq t[k]
    <3>. DEFINE S == {k \in 0 .. n : \A j \in 0 .. k : t[j] \subseteq t[k]}
    <3>1. 0 \in S
      BY <1>1
    <3>2. ASSUME NEW k \in 1 .. n, k - 1 \in S
          PROVE  k \in S
      <4>1. t[k - 1] \subseteq t[k]
        BY <2>1
      <4>2. \A j \in 0 .. k : j = k \/ j \in 0 .. k - 1
        BY <1>1
      <4>. QED
        BY <1>7, <3>2, <4>1, <4>2
    <3>3. 0 .. n \subseteq S
      <4>. HIDE DEF S, Holds
      <4>. QED
        BY <1>1, <3>1, <3>2, UpTo
    <3>. QED
      BY <3>3
  <2>2. \A k \in 0 .. n : n \in 0 .. n /\ k \in 0 .. n
    BY <1>1
  <2>3. \A k \in 0 .. n : s[k] \subseteq s[n] /\ q[k] \subseteq q[n]
    BY <1>5, <1>6, <2>1, <2>2
  <2>. QED
    BY <1>2, <1>5, <1>6, <2>3
<1>. DEFINE S == {k \in 0 .. n : a \notin r[k] /\ b \notin r[k] /\ r[k] \subseteq q[k] /\ r[k] \subseteq s[k]}
<1>9. 0 \in S
  <2>1. 0 # a /\ 0 # b
    BY <1>1, <1>5, <1>6, <1>8
  <2>. QED
    BY <1>1, <1>3, <1>5, <1>6, <2>1
<1>10. ASSUME NEW k \in 1 .. n, k - 1 \in S
       PROVE  k \in S
  <2>1. k \in 0 .. n /\ k - 1 \in 0 .. n
    BY <1>7
  <2>2. ASSUME NEW x \in r[k], x \notin r[k - 1]
        PROVE  x # a /\ x # b
    <3>1. PICK p \in r[k - 1] : x \in Succs(h, p)
      BY <1>3, <2>2
    <3>2. p \in q[k - 1] /\ p \in s[k - 1]
      BY <1>10
    <3>3. x # b => x \in s[k]
      BY <1>6, <3>1, <3>2
    <3>4. x # a => x \in q[k]
      BY <1>5, <3>1, <3>2
    <3>. QED
      BY <1>8, <2>1, <3>3, <3>4
  <2>3. a \notin r[k] /\ b \notin r[k]
    BY <1>10, <2>2
  <2>4. ASSUME NEW x \in r[k]
        PROVE  x \in q[k] /\ x \in s[k]
    <3>1. x # a /\ x # b
      BY <2>3
    <3>2. x \in r[k - 1] \/ \E p \in r[k - 1] : x \in Succs(h, p)
      BY <1>3
    <3>3. r[k - 1] \subseteq q[k - 1] /\ r[k - 1] \subseteq s[k - 1]
      BY <1>10
    <3>. QED
      BY <1>5, <1>6, <3>1, <3>2, <3>3
  <2>. QED
    BY <2>1, <2>3, <2>4
<1>11. 0 .. n \subseteq S
  <2>. HIDE DEF S
  <2>. QED
    BY <1>1, <1>9, <1>10, UpTo
<1>12. n \in S
  <2>. HIDE DEF S
  <2>. QED
    BY <1>1, <1>11
<1>. QED
  BY <1>3, <1>12

(***************************************************************************)
(* The children of a block.                                                *)
(***************************************************************************)

\* The first c blocks, in their order, that hang below b.
IsKids(b, c, s) ==
  /\ s \in Seq(0 .. N - 1)
  /\ \A i \in 1 .. Len(s) : s[i] \in 1 .. c /\ idom[s[i]] = b
  /\ \A i, j \in 1 .. Len(s) : i < j => s[i] < s[j]

NextKids(b, c, s) == IF idom[c] = b /\ Len(s) < MAX_CHILDREN THEN Append(s, c) ELSE s

LEMMA KidsAppended ==
  ASSUME N \in Nat \ {0}, NEW b, NEW c \in 1 .. N - 1, NEW s, IsKids(b, c - 1, s)
  PROVE  IsKids(b, c, NextKids(b, c, s))
<1>. DEFINE t == Append(s, c)
<1>1. /\ s \in Seq(0 .. N - 1) /\ Len(s) \in Nat
      /\ \A i \in 1 .. Len(s) : s[i] \in 1 .. c - 1 /\ idom[s[i]] = b
      /\ \A i, j \in 1 .. Len(s) : i < j => s[i] < s[j]
  BY DEF IsKids
<1>2. IsKids(b, c, s)
  <2>1. \A x \in 1 .. c - 1 : x \in 1 .. c
    OBVIOUS
  <2>. QED
    BY <1>1, <2>1 DEF IsKids
<1>3. ASSUME idom[c] = b
      PROVE  IsKids(b, c, t)
  <2>1. /\ t \in Seq(0 .. N - 1) /\ Len(t) = Len(s) + 1 /\ t[Len(s) + 1] = c
        /\ \A i \in 1 .. Len(s) : t[i] = s[i]
    BY <1>1
  <2>. HIDE DEF t
  <2>2. \A i \in 1 .. Len(t) : i = Len(s) + 1 \/ i \in 1 .. Len(s)
    BY <1>1, <2>1
  <2>3. \A x \in 1 .. c - 1 : x \in 1 .. c /\ x < c
    OBVIOUS
  <2>4. ASSUME NEW i \in 1 .. Len(t)
        PROVE  t[i] \in 1 .. c /\ idom[t[i]] = b
    BY <1>1, <1>3, <2>1, <2>2, <2>3
  <2>5. ASSUME NEW i \in 1 .. Len(t), NEW j \in 1 .. Len(t), i < j
        PROVE  t[i] < t[j]
    <3>1. i \in 1 .. Len(s)
      BY <1>1, <2>1, <2>5
    <3>2. t[i] = s[i] /\ s[i] \in 1 .. c - 1
      BY <1>1, <2>1, <3>1
    <3>3. CASE j = Len(s) + 1
      BY <2>1, <2>3, <3>2, <3>3
    <3>4. CASE j \in 1 .. Len(s)
      BY <1>1, <2>1, <2>5, <3>1, <3>2, <3>4
    <3>. QED
      BY <2>2, <3>3, <3>4
  <2>. QED
    BY <2>1, <2>4, <2>5 DEF IsKids
<1>. QED
  BY <1>2, <1>3 DEF NextKids

LEMMA ChildrenMembers ==
  ASSUME N \in Nat \ {0}, NEW b
  PROVE  IsKids(b, N - 1, ChildrenOf(b))
<1>. DEFINE n == N - 1
            V == Seq(0 .. N - 1)
            turn == [c \in 1 .. n |-> [s \in V |-> NextKids(b, c, s)]]
            Def(kids) == kids = [c \in 0 .. N - 1 |->
                                   IF c = 0 THEN << >>
                                   ELSE IF idom[c] = b /\ Len(kids[c - 1]) < MAX_CHILDREN
                                        THEN Append(kids[c - 1], c) ELSE kids[c - 1]]
<1>1. n \in Nat /\ n \in 0 .. n /\ << >> \in V
  OBVIOUS
<1>2. ASSUME NEW c \in 1 .. n, NEW s \in V
      PROVE  NextKids(b, c, s) \in V
  <2>1. c \in 0 .. N - 1
    OBVIOUS
  <2>2. Append(s, c) \in V
    BY <2>1
  <2>. QED
    BY <2>2 DEF NextKids
<1>3. \E kids : IsRun(V, << >>, n, turn, kids)
  <2>1. Turns(V, n, turn)
    BY <1>2 DEF Turns
  <2>. HIDE DEF turn, V
  <2>. QED
    BY <1>1, <2>1, RunExists
<1>4. \E kids : Def(kids)
  <2>1. PICK kids : IsRun(V, << >>, n, turn, kids)
    BY <1>3
  <2>2. ASSUME NEW c \in 0 .. N - 1
        PROVE  kids[c] = IF c = 0 THEN << >>
                         ELSE IF idom[c] = b /\ Len(kids[c - 1]) < MAX_CHILDREN
                              THEN Append(kids[c - 1], c) ELSE kids[c - 1]
    <3>1. CASE c = 0
      BY <2>1, <3>1 DEF IsRun
    <3>2. CASE c # 0
      <4>1. c \in 1 .. n /\ c - 1 \in 0 .. n
        BY <3>2
      <4>2. kids[c - 1] \in V /\ kids[c] = turn[c][kids[c - 1]]
        BY <2>1, <4>1 DEF IsRun
      <4>3. kids[c] = NextKids(b, c, kids[c - 1])
        BY <4>1, <4>2
      <4>. QED
        BY <3>2, <4>3 DEF NextKids
    <3>. QED
      BY <3>1, <3>2
  <2>3. kids = [c \in 0 .. N - 1 |-> kids[c]]
    BY <2>1 DEF IsRun
  <2>4. [c \in 0 .. N - 1 |-> kids[c]] = [c \in 0 .. N - 1 |->
                                   IF c = 0 THEN << >>
                                   ELSE IF idom[c] = b /\ Len(kids[c - 1]) < MAX_CHILDREN
                                        THEN Append(kids[c - 1], c) ELSE kids[c - 1]]
    BY <2>2
  <2>5. Def(kids)
    BY <2>3, <2>4
  <2>. QED
    BY <2>5
<1>5. PICK kids : Def(kids) /\ ChildrenOf(b) = kids[N - 1]
  BY <1>4 DEF ChildrenOf
<1>. DEFINE S == {c \in 0 .. n : IsKids(b, c, kids[c])}
<1>6. 0 \in S
  <2>1. kids[0] = << >>
    BY <1>5, <1>1
  <2>2. IsKids(b, 0, << >>)
    BY DEF IsKids
  <2>. QED
    BY <1>1, <2>1, <2>2
<1>7. ASSUME NEW c \in 1 .. n, c - 1 \in S
      PROVE  c \in S
  <2>1. c \in 0 .. N - 1 /\ c # 0
    OBVIOUS
  <2>2. kids[c] = NextKids(b, c, kids[c - 1])
    BY <1>5, <2>1 DEF NextKids
  <2>3. IsKids(b, c - 1, kids[c - 1])
    BY <1>7
  <2>4. IsKids(b, c, NextKids(b, c, kids[c - 1]))
    BY <2>3, KidsAppended
  <2>. QED
    BY <2>1, <2>2, <2>4
<1>8. n \in S
  <2>. HIDE DEF S, n
  <2>1. 0 .. n \subseteq S
    BY <1>1, <1>6, <1>7, UpTo
  <2>. QED
    BY <1>1, <2>1
<1>. QED
  BY <1>5, <1>8

\* The analysis saw the whole function and found its dominator tree, and the
\* walk of promotion has room for the children of every block.
TreeIsWhole == g.n <= MAX_BLK /\ TreeIsExact /\ ChildrenFit
TreeFound == IsGraph(g) /\ g.n <= MAX_BLK /\ TreeIsExact

LEMMA TreeBlocks ==
  ASSUME TreeFound
  PROVE  /\ N = g.n /\ N \in Nat \ {0} /\ Blocks(g) = 0 .. N - 1
         /\ Reachable(g) \subseteq Blocks(g) /\ None \notin Blocks(g) /\ 0 \in Reachable(g)
<1>1. g.n \in Nat \ {0} /\ MAX_BLK \in Nat
  BY LimitsAssumption DEF TreeFound, IsGraph
<1>2. N = g.n
  BY <1>1 DEF N, TreeFound, TreeIsWhole
<1>3. Reachable(g) \subseteq Blocks(g) /\ 0 \in Reachable(g)
  BY ReachTypes DEF Reachable, TreeFound
<1>. QED
  BY <1>1, <1>2, <1>3 DEF Blocks, None

LEMMA KidsAreBelow ==
  ASSUME TreeFound, NEW b \in Reachable(g), NEW c \in Range(ChildrenOf(b))
  PROVE  /\ c \in Reachable(g) /\ c # b /\ b \in Dom(g, c)
         /\ \A a \in Dom(g, c) : a = c \/ a \in Dom(g, b)
<1>. DEFINE kids == ChildrenOf(b)
<1>1. IsKids(b, N - 1, kids)
  BY TreeBlocks, ChildrenMembers
<1>. HIDE DEF kids
<1>2. PICK i \in 1 .. Len(kids) : c = kids[i]
  <2>1. kids \in Seq(0 .. N - 1)
    BY <1>1 DEF IsKids
  <2>2. c \in Range(kids)
    BY DEF kids
  <2>. QED
    BY <2>1, <2>2 DEF Range
<1>3. c \in 1 .. N - 1 /\ idom[c] = b
  BY <1>1, <1>2 DEF IsKids
<1>4. b # None
  BY TreeBlocks
<1>5. DOMAIN DominatorSets(g) = Reachable(g)
  BY DomMembers, TreeBlocks DEF TreeFound
<1>6. c \in Reachable(g) /\ IsImmediateDominator(DominatorSets(g), b, c)
  BY <1>3, <1>4, <1>5 DEF TreeFound, TreeIsWhole, TreeIsExact
<1>. QED
  BY <1>6 DEF IsImmediateDominator, Dom

LEMMA KidsCover ==
  ASSUME TreeFound, ChildrenFit, NEW b \in Reachable(g), NEW y \in Reachable(g), b \in Dom(g, y), b # y
  PROVE  \E c \in Range(ChildrenOf(b)) : c \in Dom(g, y)
<1>. DEFINE Bad(z) == /\ z \in Reachable(g) /\ b \in Dom(g, z) /\ b # z
                      /\ \A c \in Range(ChildrenOf(b)) : c \notin Dom(g, z)
            Sizes == {Cardinality(Dom(g, z)) : z \in {x \in Reachable(g) : Bad(x)}}
<1>1. IsGraph(g)
  BY DEF TreeFound
<1>2. ASSUME NEW z \in Reachable(g)
      PROVE  IsFiniteSet(Dom(g, z)) /\ Cardinality(Dom(g, z)) \in Nat
  <2>1. Dom(g, z) \subseteq Blocks(g)
    BY <1>1, DomMembers
  <2>2. IsFiniteSet(Blocks(g))
    <3>1. 0 \in Int /\ g.n - 1 \in Int
      BY <1>1 DEF IsGraph
    <3>. QED
      BY <3>1, FS_Interval DEF Blocks
  <2>3. IsFiniteSet(Dom(g, z))
    BY <2>1, <2>2, FS_Subset
  <2>. QED
    BY <2>3, FS_CardinalityType
<1>3. SUFFICES ASSUME Bad(y)
               PROVE  FALSE
  OBVIOUS
<1>4. Sizes \in SUBSET Nat /\ Sizes # {}
  BY <1>2, <1>3
<1>5. PICK k \in Sizes : \A j \in Sizes : k <= j
  <2>. HIDE DEF Sizes
  <2>. QED
    BY <1>4, LeastExists
<1>6. PICK z : Bad(z) /\ k = Cardinality(Dom(g, z))
  BY <1>5
<1>7. z # 0
  <2>1. 0 \in Dom(g, b)
    BY <1>1, DomMembers
  <2>. QED
    BY <1>1, <1>6, <2>1, DomAntisymmetric
<1>8. z \in 1 .. N - 1
  BY <1>6, <1>7, TreeBlocks
<1>. DEFINE p == idom[z]
<1>9. DOMAIN DominatorSets(g) = Reachable(g)
  BY <1>1, DomMembers
<1>10. IsImmediateDominator(DominatorSets(g), p, z)
  BY <1>6, <1>8, <1>9 DEF TreeFound, TreeIsWhole, TreeIsExact
<1>11. p \in Dom(g, z) /\ p # z /\ (\A a \in Dom(g, z) : a = z \/ a \in Dom(g, p))
  BY <1>10 DEF IsImmediateDominator, Dom
<1>12. p \in Reachable(g) /\ Dom(g, p) \subseteq Dom(g, z)
  BY <1>1, <1>6, <1>11, DomUp
<1>13. z \notin Dom(g, p)
  BY <1>1, <1>6, <1>11, DomAntisymmetric
<1>14. b \in Dom(g, p)
  BY <1>6, <1>11
<1>15. CASE b = p
  <2>1. p # None
    BY <1>12, TreeBlocks
  <2>2. z \in Range(ChildrenOf(b))
    BY <1>8, <1>15, <2>1 DEF TreeFound, TreeIsWhole, ChildrenFit
  <2>3. z \in Dom(g, z)
    BY <1>1, <1>6, DomMembers
  <2>. QED
    BY <1>6, <2>2, <2>3
<1>16. CASE b # p
  <2>1. Bad(p)
    BY <1>6, <1>12, <1>14, <1>16
  <2>2. Cardinality(Dom(g, p)) \in Sizes
    BY <2>1
  <2>. HIDE DEF Sizes, p
  <2>3. k <= Cardinality(Dom(g, p))
    BY <1>5, <2>2
  <2>4. z \in Dom(g, z)
    BY <1>1, <1>6, DomMembers
  <2>5. Cardinality(Dom(g, p)) <= Cardinality(Dom(g, z)) /\ Cardinality(Dom(g, p)) # Cardinality(Dom(g, z))
    BY <1>2, <1>6, <1>12, <1>13, <2>4, FS_Subset
  <2>. QED
    BY <1>2, <1>6, <1>12, <2>3, <2>5
<1>. QED
  BY <1>15, <1>16

(***************************************************************************)
(* The instructions of a block, one after the other.                       *)
(***************************************************************************)
Renames(b, start, n, st) ==
  /\ st = [k \in 0 .. n |-> st[k]]
  /\ st[0] = start
  /\ \A k \in 1 .. n : st[k] = RenameInstr(st[k - 1], b, k)

LEMMA RenamesExist ==
  ASSUME NEW b, NEW start, NEW n \in Nat
  PROVE  \E st : Renames(b, start, n, st)
<1>. DEFINE S == {m \in 0 .. n : \E st : Renames(b, start, m, st)}
<1>1. 0 \in S
  <2>1. Renames(b, start, 0, [k \in 0 .. 0 |-> start])
    BY DEF Renames
  <2>. QED
    BY <2>1
<1>2. ASSUME NEW m \in 1 .. n, m - 1 \in S
      PROVE  m \in S
  <2>1. PICK st : Renames(b, start, m - 1, st)
    BY <1>2
  <2>. DEFINE next == RenameInstr(st[m - 1], b, m)
              q == [k \in 0 .. m |-> IF k = m THEN next ELSE st[k]]
  <2>2. q = [k \in 0 .. m |-> q[k]]
    OBVIOUS
  <2>3. q[0] = start
    BY <2>1 DEF Renames
  <2>4. ASSUME NEW k \in 1 .. m
        PROVE  q[k] = RenameInstr(q[k - 1], b, k)
    <3>1. k - 1 \in 0 .. m /\ k - 1 # m /\ k \in 0 .. m
      OBVIOUS
    <3>2. q[k - 1] = st[k - 1]
      BY <3>1
    <3>3. CASE k = m
      <4>1. q[k] = next
        BY <3>1, <3>3
      <4>. QED
        BY <3>2, <3>3, <4>1
    <3>4. CASE k # m
      <4>1. k \in 1 .. m - 1 /\ q[k] = st[k]
        BY <3>1, <3>4
      <4>. QED
        BY <2>1, <3>2, <4>1 DEF Renames
    <3>. QED
      BY <3>3, <3>4
  <2>. HIDE DEF q
  <2>5. Renames(b, start, m, q)
    BY <2>2, <2>3, <2>4 DEF Renames
  <2>. QED
    BY <2>5
<1>3. n \in S
  <2>. HIDE DEF S
  <2>1. 0 .. n \subseteq S
    BY <1>1, <1>2, UpTo
  <2>. QED
    BY <2>1
<1>. QED
  BY <1>3

LEMMA RenameUnfolds ==
  ASSUME NEW b, NEW start, Len(orig[b]) \in Nat
  PROVE  \E st : /\ Renames(b, start, Len(orig[b]), st)
                 /\ RenameInstrs(b, start) = st[Len(orig[b])]
<1>. DEFINE n == Len(orig[b])
            Def(st) == st = [k \in 0 .. Len(orig[b]) |->
                               IF k = 0 THEN start ELSE RenameInstr(st[k - 1], b, k)]
<1>1. \E st : Def(st)
  <2>1. PICK st : Renames(b, start, n, st)
    BY RenamesExist
  <2>2. ASSUME NEW k \in 0 .. n
        PROVE  st[k] = IF k = 0 THEN start ELSE RenameInstr(st[k - 1], b, k)
    BY <2>1 DEF Renames
  <2>3. [k \in 0 .. n |-> st[k]] = [k \in 0 .. n |-> IF k = 0 THEN start ELSE RenameInstr(st[k - 1], b, k)]
    BY <2>2
  <2>4. Def(st)
    BY <2>1, <2>3 DEF Renames
  <2>. QED
    BY <2>4
<1>2. PICK st : Def(st) /\ RenameInstrs(b, start) = st[n]
  BY <1>1 DEF RenameInstrs
<1>3. Renames(b, start, n, st)
  <2>1. \A k \in 0 .. n : st[k] = IF k = 0 THEN start ELSE RenameInstr(st[k - 1], b, k)
    BY <1>2
  <2>2. st = [k \in 0 .. n |-> st[k]]
    BY <1>2
  <2>. HIDE DEF Def
  <2>3. \A k \in 1 .. n : k \in 0 .. n /\ k # 0
    OBVIOUS
  <2>4. 0 \in 0 .. n
    OBVIOUS
  <2>. HIDE DEF n
  <2>5. st[0] = start
    BY <2>1, <2>4
  <2>6. ASSUME NEW k \in 1 .. n
        PROVE  st[k] = RenameInstr(st[k - 1], b, k)
    BY <2>1, <2>3
  <2>. QED
    BY <2>2, <2>5, <2>6, Zenon DEF Renames
<1>. QED
  BY <1>2, <1>3

(***************************************************************************)
(* One load and its users.                                                 *)
(***************************************************************************)

\* The same instructions and phis, whatever their operands.
SameShape(c1, ph1, c2, ph2) ==
  \A b \in Blocks(g) :
    /\ DOMAIN c2[b] = DOMAIN c1[b] /\ DOMAIN ph2[b] = DOMAIN ph1[b]
    /\ \A k \in DOMAIN c1[b] : /\ c2[b][k].op = c1[b][k].op /\ c2[b][k].var = c1[b][k].var
                               /\ c2[b][k].res = c1[b][k].res
    /\ \A v \in DOMAIN ph1[b] : DOMAIN ph2[b][v] = DOMAIN ph1[b][v]

\* Instructions are only taken away, and a phi has a value from each predecessor.
IsRest(c) ==
  \A b \in Blocks(g) : \A k \in DOMAIN c[b] :
    /\ k \in DOMAIN orig[b]
    /\ c[b][k].op = orig[b][k].op /\ c[b][k].var = orig[b][k].var /\ c[b][k].res = orig[b][k].res
PhisFit(ph) == \A b \in Blocks(g) : \A v \in DOMAIN ph[b] : DOMAIN ph[b][v] = DOMAIN preds[b]

\* The function that is promoted is one the IR generator leaves.
OrigIsSSA == IsGraph(g) /\ IsSSA([cfg |-> g, code |-> orig])

\* The loads of the slot that run, and their results.
IsSlotLoad(c, d, j) == d \in Reachable(g) /\ OnSlot(c, d, j, "load")
IsSlotResult(c, x) == \E d \in Reachable(g) : \E j \in DOMAIN c[d] : IsSlotLoad(c, d, j) /\ c[d][j].res = x

Unused(c, ph, x) ==
  \A d \in Blocks(g) :
    /\ \A k \in DOMAIN c[d] : c[d][k].val # x
    /\ \A v \in DOMAIN ph[d] : \A i \in DOMAIN ph[d][v] : ph[d][v][i] # x

\* The use lists have every use of a load of the slot.
AllListed(c, ph) ==
  \A d \in Blocks(g) :
    /\ \A k \in DOMAIN c[d] : IsSlotResult(c, c[d][k].val) => <<c[d][k].val, <<d, "instr", k>>>> \in uses
    /\ \A v \in DOMAIN ph[d] : \A i \in DOMAIN ph[d][v] :
         IsSlotResult(c, ph[d][v][i]) => <<ph[d][v][i], <<d, "phi", v>>>> \in uses

Promoting(c, ph) == IsRest(c) /\ PhisFit(ph) /\ DefsDominate(c, ph) /\ AllListed(c, ph)

InForce(c, ph, x, b, k) == DefinedAt(c, ph, DominatorSets(g), x, b, k)

LEMMA SSAFacts ==
  ASSUME OrigIsSSA, NEW b \in Blocks(g)
  PROVE  /\ Len(orig[b]) \in Nat /\ DOMAIN orig[b] = 1 .. Len(orig[b])
         /\ \A k \in DOMAIN orig[b] :
              /\ orig[b][k].res[1] = IF orig[b][k].op = "load" THEN "load" ELSE "undef"
              /\ \A d \in Blocks(g) : \A j \in DOMAIN orig[d] :
                   orig[b][k].op = "load" /\ orig[d][j].res = orig[b][k].res => d = b /\ j = k
<1>1. orig[b] \in Seq(Range(orig[b]))
  BY DEF OrigIsSSA, IsSSA
<1>2. Len(orig[b]) \in Nat /\ DOMAIN orig[b] = 1 .. Len(orig[b])
  BY <1>1
<1>. QED
  BY <1>2 DEF OrigIsSSA, IsSSA

LEMMA InForceMembers ==
  ASSUME IsGraph(g), NEW c, NEW ph, NEW x, NEW b \in Reachable(g), NEW k
  PROVE  InForce(c, ph, x, b, k) <=>
           \/ ~IsResult(x)
           \/ x[1] = "phi"  /\ x[2] \in Dom(g, b) /\ x[3] \in DOMAIN ph[x[2]]
           \/ x[1] = "load" /\ \E d \in Dom(g, b) : \E j \in DOMAIN c[d] : c[d][j].res = x /\ (d = b => j < k)
BY DEF InForce, DefinedAt, Dom

LEMMA InForceKept ==
  ASSUME IsGraph(g), NEW c1, NEW ph1, NEW c2, NEW ph2, SameShape(c1, ph1, c2, ph2),
         NEW b \in Reachable(g), NEW k, NEW x, InForce(c1, ph1, x, b, k)
  PROVE  InForce(c2, ph2, x, b, k)
<1>1. Dom(g, b) \subseteq Blocks(g)
  BY DomMembers
<1>2. CASE ~IsResult(x)
  BY <1>2, InForceMembers
<1>3. CASE x[1] = "phi" /\ x[2] \in Dom(g, b) /\ x[3] \in DOMAIN ph1[x[2]]
  <2>1. x[3] \in DOMAIN ph2[x[2]]
    BY <1>1, <1>3 DEF SameShape
  <2>. QED
    BY <1>3, <2>1, InForceMembers
<1>4. CASE x[1] = "load" /\ \E d \in Dom(g, b) : \E j \in DOMAIN c1[d] : c1[d][j].res = x /\ (d = b => j < k)
  <2>1. PICK d \in Dom(g, b) : \E j \in DOMAIN c1[d] : c1[d][j].res = x /\ (d = b => j < k)
    BY <1>4
  <2>2. PICK j \in DOMAIN c1[d] : c1[d][j].res = x /\ (d = b => j < k)
    BY <2>1
  <2>3. j \in DOMAIN c2[d] /\ c2[d][j].res = x
    BY <1>1, <2>2 DEF SameShape
  <2>. QED
    BY <1>4, <2>2, <2>3, InForceMembers
<1>. QED
  BY <1>2, <1>3, <1>4, InForceMembers

\* What is in force at a load is in force wherever its result is.
LEMMA InForceThrough ==
  ASSUME OrigIsSSA, NEW c, NEW ph, IsRest(c),
         NEW b \in Reachable(g), NEW k \in DOMAIN c[b], c[b][k].op = "load",
         NEW new, InForce(c, ph, new, b, k),
         NEW b2 \in Reachable(g), NEW k2 \in Nat, InForce(c, ph, c[b][k].res, b2, k2)
  PROVE  InForce(c, ph, new, b2, k2)
<1>1. IsGraph(g) /\ b \in Blocks(g) /\ b2 \in Blocks(g)
  BY DomMembers DEF OrigIsSSA
<1>2. Dom(g, b2) \subseteq Blocks(g) /\ Dom(g, b) \subseteq Blocks(g)
  BY <1>1, DomMembers
<1>. DEFINE x == c[b][k].res
<1>3. k \in DOMAIN orig[b] /\ orig[b][k].op = "load" /\ orig[b][k].res = x /\ x[1] = "load"
  BY <1>1, SSAFacts DEF IsRest
<1>4. PICK d \in Dom(g, b2) : \E j \in DOMAIN c[d] : c[d][j].res = x /\ (d = b2 => j < k2)
  <2>1. IsResult(x) /\ x[1] # "phi" /\ InForce(c, ph, x, b2, k2)
    BY <1>3 DEF IsResult
  <2>. HIDE DEF x
  <2>2. \/ ~IsResult(x)
        \/ x[1] = "phi"  /\ x[2] \in Dom(g, b2) /\ x[3] \in DOMAIN ph[x[2]]
        \/ x[1] = "load" /\ \E d \in Dom(g, b2) : \E j \in DOMAIN c[d] : c[d][j].res = x /\ (d = b2 => j < k2)
    BY <1>1, <2>1, InForceMembers
  <2>. QED
    BY <2>1, <2>2
<1>5. PICK j \in DOMAIN c[d] : c[d][j].res = x /\ (d = b2 => j < k2)
  BY <1>4
<1>6. d = b /\ j = k
  <2>1. j \in DOMAIN orig[d] /\ orig[d][j].res = x
    BY <1>2, <1>5 DEF IsRest
  <2>. QED
    BY <1>1, <1>2, <1>3, <2>1, SSAFacts
<1>7. b \in Dom(g, b2) /\ (b = b2 => k < k2)
  BY <1>5, <1>6
<1>8. Dom(g, b) \subseteq Dom(g, b2)
  BY <1>1, <1>7, DomUp
<1>. HIDE DEF x
<1>9. CASE ~IsResult(new)
  BY <1>1, <1>9, InForceMembers
<1>10. CASE new[1] = "phi" /\ new[2] \in Dom(g, b) /\ new[3] \in DOMAIN ph[new[2]]
  BY <1>1, <1>8, <1>10, InForceMembers
<1>11. CASE new[1] = "load" /\ \E e \in Dom(g, b) : \E i \in DOMAIN c[e] : c[e][i].res = new /\ (e = b => i < k)
  <2>1. PICK e \in Dom(g, b) : \E i \in DOMAIN c[e] : c[e][i].res = new /\ (e = b => i < k)
    BY <1>11
  <2>2. PICK i \in DOMAIN c[e] : c[e][i].res = new /\ (e = b => i < k)
    BY <2>1
  <2>3. ASSUME e = b2
        PROVE  i < k2
    <3>1. b = b2
      BY <1>1, <1>7, <2>3, DomAntisymmetric
    <3>2. i \in Nat /\ k \in Nat
      <4>1. i \in DOMAIN orig[b]
        BY <1>1, <2>2, <2>3, <3>1 DEF IsRest
      <4>. QED
        BY <1>1, <1>3, <4>1, SSAFacts
    <3>. QED
      BY <1>7, <2>2, <2>3, <3>1, <3>2
  <2>4. e \in Dom(g, b2)
    BY <1>8
  <2>. QED
    BY <1>1, <1>11, <2>2, <2>3, <2>4, InForceMembers
<1>. QED
  BY <1>1, <1>9, <1>10, <1>11, InForceMembers

\* The second code and phis are the first with new for the listed uses of olds.
IsRedirect(c1, ph1, olds, new, c2, ph2) ==
  /\ SameShape(c1, ph1, c2, ph2)
  /\ \A d \in Blocks(g) :
       /\ \A k \in DOMAIN c1[d] : c2[d][k].val = Redirected(c1[d][k].val, <<d, "instr", k>>, olds, new)
       /\ \A v \in DOMAIN ph1[d] : \A i \in DOMAIN ph1[d][v] :
            ph2[d][v][i] = Redirected(ph1[d][v][i], <<d, "phi", v>>, olds, new)

LEMMA RedirectMembers ==
  ASSUME NEW c, NEW ph, NEW olds, NEW new
  PROVE  IsRedirect(c, ph, olds, new, redirect_instrs(c, olds, new), redirect_phis(ph, olds, new))
<1>. DEFINE c2 == redirect_instrs(c, olds, new)
            ph2 == redirect_phis(ph, olds, new)
<1>1. ASSUME NEW d \in Blocks(g)
      PROVE  /\ DOMAIN c2[d] = DOMAIN c[d]
             /\ \A k \in DOMAIN c[d] :
                  c2[d][k] = [op |-> c[d][k].op, var |-> c[d][k].var, res |-> c[d][k].res,
                              val |-> Redirected(c[d][k].val, <<d, "instr", k>>, olds, new)]
  BY DEF redirect_instrs
<1>2. ASSUME NEW d \in Blocks(g)
      PROVE  /\ DOMAIN ph2[d] = DOMAIN ph[d]
             /\ \A v \in DOMAIN ph[d] :
                  ph2[d][v] = [i \in DOMAIN ph[d][v] |-> Redirected(ph[d][v][i], <<d, "phi", v>>, olds, new)]
  BY DEF redirect_phis
<1>. HIDE DEF c2, ph2
<1>3. ASSUME NEW d \in Blocks(g), NEW k \in DOMAIN c[d]
      PROVE  /\ c2[d][k].op = c[d][k].op /\ c2[d][k].var = c[d][k].var /\ c2[d][k].res = c[d][k].res
             /\ c2[d][k].val = Redirected(c[d][k].val, <<d, "instr", k>>, olds, new)
  <2>. DEFINE y == Redirected(c[d][k].val, <<d, "instr", k>>, olds, new)
              o == c[d][k].op
              s == c[d][k].var
              r == c[d][k].res
  <2>1. c2[d][k] = [op |-> o, var |-> s, res |-> r, val |-> y]
    BY <1>1
  <2>. HIDE DEF y, o, s, r
  <2>2. c2[d][k].op = o /\ c2[d][k].var = s /\ c2[d][k].res = r /\ c2[d][k].val = y
    BY <2>1
  <2>. QED
    BY <2>2 DEF y, o, s, r
<1>4. ASSUME NEW d \in Blocks(g), NEW v \in DOMAIN ph[d]
      PROVE  /\ DOMAIN ph2[d][v] = DOMAIN ph[d][v]
             /\ \A i \in DOMAIN ph[d][v] : ph2[d][v][i] = Redirected(ph[d][v][i], <<d, "phi", v>>, olds, new)
  <2>1. ph2[d][v] = [i \in DOMAIN ph[d][v] |-> Redirected(ph[d][v][i], <<d, "phi", v>>, olds, new)]
    BY <1>2
  <2>. DEFINE f == ph2[d][v]
  <2>. HIDE DEF f
  <2>2. f = [i \in DOMAIN ph[d][v] |-> Redirected(ph[d][v][i], <<d, "phi", v>>, olds, new)]
    BY <2>1 DEF f
  <2>3. DOMAIN f = DOMAIN ph[d][v]
    BY <2>2
  <2>4. \A i \in DOMAIN ph[d][v] : f[i] = Redirected(ph[d][v][i], <<d, "phi", v>>, olds, new)
    BY <2>2
  <2>. QED
    BY <2>3, <2>4 DEF f
<1>5. SameShape(c, ph, c2, ph2)
  BY <1>1, <1>2, <1>3, <1>4 DEF SameShape
<1>. QED
  BY <1>3, <1>4, <1>5 DEF c2, ph2, IsRedirect

LEMMA ShapeKeepsLoads ==
  ASSUME IsGraph(g), NEW c1, NEW ph1, NEW c2, NEW ph2, SameShape(c1, ph1, c2, ph2)
  PROVE  /\ \A d, j : IsSlotLoad(c2, d, j) <=> IsSlotLoad(c1, d, j)
         /\ \A x : IsSlotResult(c2, x) <=> IsSlotResult(c1, x)
<1>1. Reachable(g) \subseteq Blocks(g)
  BY DomMembers
<1>2. ASSUME NEW d \in Reachable(g)
      PROVE  /\ DOMAIN c1[d] = DOMAIN c2[d]
             /\ \A j \in DOMAIN c1[d] : c1[d][j].op = c2[d][j].op /\ c1[d][j].var = c2[d][j].var
                                        /\ c1[d][j].res = c2[d][j].res
  BY <1>1 DEF SameShape
<1>3. \A d, j : IsSlotLoad(c2, d, j) <=> IsSlotLoad(c1, d, j)
  BY <1>2 DEF IsSlotLoad, OnSlot
<1>4. \A x : IsSlotResult(c2, x) <=> IsSlotResult(c1, x)
  BY <1>2, <1>3 DEF IsSlotResult
<1>. QED
  BY <1>3, <1>4

LEMMA ShapeKeepsForm ==
  ASSUME NEW c1, NEW ph1, NEW c2, NEW ph2, SameShape(c1, ph1, c2, ph2), IsRest(c1), PhisFit(ph1)
  PROVE  IsRest(c2) /\ PhisFit(ph2)
<1>1. IsRest(c2)
  BY DEF SameShape, IsRest
<1>2. PhisFit(ph2)
  BY DEF SameShape, PhisFit
<1>. QED
  BY <1>1, <1>2

\* What a use of DefsDominate is.
LEMMA DefsDominateMembers ==
  ASSUME IsGraph(g), NEW c, NEW ph
  PROVE  DefsDominate(c, ph) <=>
           \A b \in Reachable(g) :
             /\ \A k \in DOMAIN c[b] : InForce(c, ph, c[b][k].val, b, k)
             /\ \A v \in DOMAIN ph[b] : \A i \in DOMAIN preds[b] :
                  preds[b][i] \in Reachable(g) =>
                    InForce(c, ph, ph[b][v][i], preds[b][i], Len(orig[preds[b][i]]) + 1)
<1>1. DOMAIN DominatorSets(g) = Reachable(g)
  BY DEF DominatorSets
<1>. QED
  BY <1>1 DEF DefsDominate, InForce

\* Putting a value that is in force at a load in the place of its result keeps
\* the definitions above the uses and leaves no use of the load.
LEMMA LoadRedirected ==
  ASSUME OrigIsSSA, NEW c, NEW ph, Promoting(c, ph),
         NEW b, NEW k, IsSlotLoad(c, b, k),
         NEW new, InForce(c, ph, new, b, k), ~IsSlotResult(c, new)
  PROVE  /\ SameShape(c, ph, redirect_instrs(c, {c[b][k].res}, new), redirect_phis(ph, {c[b][k].res}, new))
         /\ Promoting(redirect_instrs(c, {c[b][k].res}, new), redirect_phis(ph, {c[b][k].res}, new))
         /\ \A y : IsSlotResult(c, y) /\ (y = c[b][k].res \/ Unused(c, ph, y)) =>
              Unused(redirect_instrs(c, {c[b][k].res}, new), redirect_phis(ph, {c[b][k].res}, new), y)
<1>. DEFINE x == c[b][k].res
            c2 == redirect_instrs(c, {x}, new)
            ph2 == redirect_phis(ph, {x}, new)
<1>1. /\ IsGraph(g) /\ Reachable(g) \subseteq Blocks(g)
      /\ b \in Reachable(g) /\ k \in DOMAIN c[b] /\ c[b][k].op = "load"
  BY DomMembers DEF OrigIsSSA, IsSlotLoad, OnSlot
<1>2. /\ SameShape(c, ph, c2, ph2)
      /\ \A d \in Blocks(g) :
           /\ \A j \in DOMAIN c[d] : c2[d][j].val = Redirected(c[d][j].val, <<d, "instr", j>>, {x}, new)
           /\ \A v \in DOMAIN ph[d] : \A i \in DOMAIN ph[d][v] :
                ph2[d][v][i] = Redirected(ph[d][v][i], <<d, "phi", v>>, {x}, new)
  <2>1. IsRedirect(c, ph, {x}, new, c2, ph2)
    BY RedirectMembers
  <2>. QED
    BY <2>1 DEF IsRedirect
<1>3. IsSlotResult(c, x) /\ x # new
  BY <1>1 DEF IsSlotResult
<1>4. \A z, b2, k2 : b2 \in Reachable(g) /\ k2 \in Nat /\ z = x /\ InForce(c, ph, z, b2, k2) =>
        InForce(c, ph, new, b2, k2)
  BY <1>1, InForceThrough DEF Promoting
<1>. HIDE DEF x, c2, ph2
<1>5. ASSUME NEW d \in Blocks(g), NEW j \in DOMAIN c[d]
      PROVE  c2[d][j].val = IF c[d][j].val = x THEN new ELSE c[d][j].val
  <2>. DEFINE y == c[d][j].val
  <2>1. c2[d][j].val = Redirected(y, <<d, "instr", j>>, {x}, new)
    BY <1>2
  <2>2. y = x => <<y, <<d, "instr", j>>>> \in uses
    BY <1>3 DEF Promoting, AllListed
  <2>. HIDE DEF y
  <2>3. c2[d][j].val = IF y = x THEN new ELSE y
    BY <2>1, <2>2 DEF Redirected
  <2>. QED
    BY <2>3 DEF y
<1>6. ASSUME NEW d \in Blocks(g), NEW v \in DOMAIN ph[d], NEW i \in DOMAIN ph[d][v]
      PROVE  ph2[d][v][i] = IF ph[d][v][i] = x THEN new ELSE ph[d][v][i]
  <2>. DEFINE y == ph[d][v][i]
  <2>1. ph2[d][v][i] = Redirected(y, <<d, "phi", v>>, {x}, new)
    BY <1>2
  <2>2. y = x => <<y, <<d, "phi", v>>>> \in uses
    BY <1>3 DEF Promoting, AllListed
  <2>. HIDE DEF y
  <2>3. ph2[d][v][i] = IF y = x THEN new ELSE y
    BY <2>1, <2>2 DEF Redirected
  <2>. QED
    BY <2>3 DEF y
<1>7. /\ \A d \in Blocks(g) : DOMAIN c2[d] = DOMAIN c[d] /\ DOMAIN ph2[d] = DOMAIN ph[d]
      /\ \A d \in Blocks(g) : \A v \in DOMAIN ph[d] : DOMAIN ph2[d][v] = DOMAIN ph[d][v]
  BY <1>2 DEF SameShape
<1>8. IsRest(c2) /\ PhisFit(ph2)
  BY <1>2, ShapeKeepsForm DEF Promoting
<1>9. \A y : IsSlotResult(c2, y) <=> IsSlotResult(c, y)
  BY <1>1, <1>2, ShapeKeepsLoads
<1>10. AllListed(c2, ph2)
  <2>1. ASSUME NEW d \in Blocks(g), NEW j \in DOMAIN c2[d], IsSlotResult(c2, c2[d][j].val)
        PROVE  <<c2[d][j].val, <<d, "instr", j>>>> \in uses
    BY <1>5, <1>7, <1>9, <2>1 DEF Promoting, AllListed
  <2>2. ASSUME NEW d \in Blocks(g), NEW v \in DOMAIN ph2[d], NEW i \in DOMAIN ph2[d][v],
               IsSlotResult(c2, ph2[d][v][i])
        PROVE  <<ph2[d][v][i], <<d, "phi", v>>>> \in uses
    BY <1>6, <1>7, <1>9, <2>2 DEF Promoting, AllListed
  <2>. QED
    BY <2>1, <2>2 DEF AllListed
<1>11. DefsDominate(c2, ph2)
  <2>1. DefsDominate(c, ph)
    BY DEF Promoting
  <2>2. ASSUME NEW d \in Reachable(g), NEW j \in DOMAIN c2[d]
        PROVE  InForce(c2, ph2, c2[d][j].val, d, j)
    <3>1. d \in Blocks(g) /\ j \in DOMAIN c[d]
      BY <1>1, <1>7
    <3>2. j \in Nat
      <4>1. j \in DOMAIN orig[d]
        BY <3>1 DEF Promoting, IsRest
      <4>. QED
        BY <3>1, <4>1, SSAFacts
    <3>3. InForce(c, ph, c[d][j].val, d, j)
      BY <1>1, <2>1, <3>1, DefsDominateMembers
    <3>4. InForce(c, ph, c2[d][j].val, d, j)
      BY <1>4, <1>5, <3>1, <3>2, <3>3
    <3>. QED
      BY <1>1, <1>2, <3>4, InForceKept
  <2>3. ASSUME NEW d \in Reachable(g), NEW v \in DOMAIN ph2[d], NEW i \in DOMAIN preds[d],
               preds[d][i] \in Reachable(g)
        PROVE  InForce(c2, ph2, ph2[d][v][i], preds[d][i], Len(orig[preds[d][i]]) + 1)
    <3>1. d \in Blocks(g) /\ v \in DOMAIN ph[d] /\ i \in DOMAIN ph[d][v]
      BY <1>1, <1>7 DEF Promoting, PhisFit
    <3>2. Len(orig[preds[d][i]]) + 1 \in Nat
      BY <1>1, <2>3, SSAFacts
    <3>3. InForce(c, ph, ph[d][v][i], preds[d][i], Len(orig[preds[d][i]]) + 1)
      BY <1>1, <2>1, <2>3, <3>1, DefsDominateMembers
    <3>4. InForce(c, ph, ph2[d][v][i], preds[d][i], Len(orig[preds[d][i]]) + 1)
      BY <1>4, <1>6, <2>3, <3>1, <3>2, <3>3
    <3>. QED
      BY <1>1, <1>2, <2>3, <3>4, InForceKept
  <2>. QED
    BY <1>1, <2>2, <2>3, DefsDominateMembers
<1>12. ASSUME NEW y, IsSlotResult(c, y), y = x \/ Unused(c, ph, y)
       PROVE  Unused(c2, ph2, y)
  <2>0. y # new
    BY <1>12
  <2>1. ASSUME NEW d \in Blocks(g), NEW j \in DOMAIN c2[d]
        PROVE  c2[d][j].val # y
    BY <1>5, <1>7, <1>12, <2>0 DEF Unused
  <2>2. ASSUME NEW d \in Blocks(g), NEW v \in DOMAIN ph2[d], NEW i \in DOMAIN ph2[d][v]
        PROVE  ph2[d][v][i] # y
    BY <1>6, <1>7, <1>12, <2>0 DEF Unused
  <2>. QED
    BY <2>1, <2>2 DEF Unused
<1>13. Promoting(c2, ph2)
  BY <1>8, <1>10, <1>11 DEF Promoting
<1>. QED
  BY <1>2, <1>12, <1>13 DEF c2, ph2, x

LEMMA ShapeTransitive ==
  ASSUME NEW c1, NEW ph1, NEW c2, NEW ph2, NEW c3, NEW ph3,
         SameShape(c1, ph1, c2, ph2), SameShape(c2, ph2, c3, ph3)
  PROVE  SameShape(c1, ph1, c3, ph3)
BY DEF SameShape

LEMMA InForceLater ==
  ASSUME OrigIsSSA, NEW c, NEW ph, IsRest(c), NEW b \in Reachable(g), NEW k \in Nat, NEW m \in Nat, k <= m,
         NEW x, InForce(c, ph, x, b, k)
  PROVE  InForce(c, ph, x, b, m)
<1>1. IsGraph(g) /\ b \in Blocks(g)
  BY DomMembers DEF OrigIsSSA
<1>2. CASE x[1] = "load" /\ \E d \in Dom(g, b) : \E j \in DOMAIN c[d] : c[d][j].res = x /\ (d = b => j < k)
  <2>1. PICK d \in Dom(g, b) : \E j \in DOMAIN c[d] : c[d][j].res = x /\ (d = b => j < k)
    BY <1>2
  <2>2. PICK j \in DOMAIN c[d] : c[d][j].res = x /\ (d = b => j < k)
    BY <2>1
  <2>3. d = b => j \in Nat
    <3>1. d = b => j \in DOMAIN orig[b]
      BY <1>1, <2>2 DEF IsRest
    <3>. QED
      BY <1>1, <3>1, SSAFacts
  <2>4. d = b => j < m
    BY <2>2, <2>3
  <2>. QED
    BY <1>1, <1>2, <2>2, <2>4, InForceMembers
<1>. QED
  BY <1>1, <1>2, InForceMembers

\* st is what the walk has in block b after its first k instructions, when it
\* started from c and ph and has done with the blocks of vis.
UpToInstr(b, vis, c, ph, k, st) ==
  /\ Promoting(st.code, st.phis)
  /\ SameShape(c, ph, st.code, st.phis)
  /\ InForce(st.code, st.phis, st.cur, b, k + 1)
  /\ ~IsSlotResult(st.code, st.cur)
  /\ \A d, j : IsSlotLoad(st.code, d, j) /\ (d \in vis \/ (d = b /\ j <= k)) =>
                 Unused(st.code, st.phis, st.code[d][j].res)

LEMMA SlotLoadFacts ==
  ASSUME OrigIsSSA, NEW c, IsRest(c), NEW d, NEW j, IsSlotLoad(c, d, j)
  PROVE  /\ d \in Reachable(g) /\ d \in Blocks(g) /\ j \in DOMAIN c[d] /\ j \in Nat \ {0}
         /\ c[d][j].op = "load" /\ c[d][j].var = slot /\ c[d][j].res[1] = "load"
         /\ IsSlotResult(c, c[d][j].res)
         /\ \A e \in Blocks(g) : \A i \in DOMAIN c[e] : c[e][i].res = c[d][j].res => e = d /\ i = j
<1>1. d \in Reachable(g) /\ d \in Blocks(g) /\ j \in DOMAIN c[d] /\ c[d][j].op = "load" /\ c[d][j].var = slot
  BY DomMembers DEF IsSlotLoad, OnSlot, OrigIsSSA
<1>2. /\ j \in DOMAIN orig[d] /\ orig[d][j].op = "load" /\ orig[d][j].res = c[d][j].res
      /\ DOMAIN orig[d] = 1 .. Len(orig[d]) /\ Len(orig[d]) \in Nat
  BY <1>1, SSAFacts DEF IsRest
<1>3. j \in Nat \ {0} /\ c[d][j].res[1] = "load"
  BY <1>1, <1>2, SSAFacts
<1>4. IsSlotResult(c, c[d][j].res)
  BY <1>1 DEF IsSlotResult
<1>5. ASSUME NEW e \in Blocks(g), NEW i \in DOMAIN c[e], c[e][i].res = c[d][j].res
      PROVE  e = d /\ i = j
  <2>1. i \in DOMAIN orig[e] /\ orig[e][i].res = c[e][i].res
    BY DEF IsRest
  <2>. QED
    BY <1>1, <1>2, <1>5, <2>1, SSAFacts
<1>. QED
  BY <1>1, <1>3, <1>4, <1>5

\* A value that the block stores is no result of a load of the slot: all of
\* those that could be have been replaced.
LEMMA StoredIsNoLoad ==
  ASSUME OrigIsSSA, NEW b \in Reachable(g), NEW vis, \A a \in Dom(g, b) : a = b \/ a \in vis,
         NEW c, NEW ph, NEW k \in Nat \ {0}, NEW st, UpToInstr(b, vis, c, ph, k - 1, st),
         k \in DOMAIN st.code[b]
  PROVE  ~IsSlotResult(st.code, st.code[b][k].val)
<1>. DEFINE x == st.code[b][k].val
<1>1. IsGraph(g) /\ b \in Blocks(g)
  BY DomMembers DEF OrigIsSSA
<1>2. Promoting(st.code, st.phis) /\ IsRest(st.code) /\ DefsDominate(st.code, st.phis)
  BY DEF UpToInstr, Promoting
<1>3. InForce(st.code, st.phis, x, b, k)
  BY <1>1, <1>2, DefsDominateMembers
<1>4. SUFFICES ASSUME IsSlotResult(st.code, x)
               PROVE  FALSE
  OBVIOUS
<1>5. PICK d, j : IsSlotLoad(st.code, d, j) /\ st.code[d][j].res = x
  BY <1>4 DEF IsSlotResult
<1>6. x[1] = "load"
  BY <1>2, <1>5, SlotLoadFacts
<1>. HIDE DEF x
<1>7. \E e \in Dom(g, b) : \E i \in DOMAIN st.code[e] : st.code[e][i].res = x /\ (e = b => i < k)
  <2>1. IsResult(x) /\ x[1] # "phi"
    BY <1>6 DEF IsResult
  <2>2. \/ ~IsResult(x)
        \/ x[1] = "phi"  /\ x[2] \in Dom(g, b) /\ x[3] \in DOMAIN st.phis[x[2]]
        \/ x[1] = "load" /\ \E e \in Dom(g, b) : \E i \in DOMAIN st.code[e] : st.code[e][i].res = x /\ (e = b => i < k)
    BY <1>1, <1>3, InForceMembers
  <2>. QED
    BY <2>1, <2>2
<1>8. PICK e \in Dom(g, b) : \E i \in DOMAIN st.code[e] : st.code[e][i].res = x /\ (e = b => i < k)
  BY <1>7
<1>9. PICK i \in DOMAIN st.code[e] : st.code[e][i].res = x /\ (e = b => i < k)
  BY <1>8
<1>10. e = d /\ i = j /\ j \in Nat
  <2>1. e \in Blocks(g)
    BY <1>1, DomMembers
  <2>2. st.code[e][i].res = st.code[d][j].res
    BY <1>5, <1>9
  <2>. QED
    BY <1>2, <1>5, <2>1, <2>2, SlotLoadFacts
<1>11. d \in vis \/ (d = b /\ j <= k - 1)
  BY <1>9, <1>10
<1>12. Unused(st.code, st.phis, x)
  BY <1>5, <1>11 DEF UpToInstr
<1>. QED
  BY <1>1, <1>12 DEF Unused, x

LEMMA InstrRenamed ==
  ASSUME OrigIsSSA, NEW b \in Reachable(g), NEW vis, \A a \in Dom(g, b) : a = b \/ a \in vis,
         NEW c, NEW ph, NEW k \in Nat \ {0}, NEW st, UpToInstr(b, vis, c, ph, k - 1, st)
  PROVE  UpToInstr(b, vis, c, ph, k, RenameInstr(st, b, k))
<1>. DEFINE next == RenameInstr(st, b, k)
<1>1. /\ Promoting(st.code, st.phis) /\ IsRest(st.code) /\ DefsDominate(st.code, st.phis)
      /\ SameShape(c, ph, st.code, st.phis) /\ ~IsSlotResult(st.code, st.cur)
      /\ \A d, j : IsSlotLoad(st.code, d, j) /\ (d \in vis \/ (d = b /\ j <= k - 1)) =>
                     Unused(st.code, st.phis, st.code[d][j].res)
  BY DEF UpToInstr, Promoting
<1>2. InForce(st.code, st.phis, st.cur, b, k)
  BY DEF UpToInstr
<1>3. IsGraph(g) /\ b \in Blocks(g)
  BY DomMembers DEF OrigIsSSA
<1>4. k \in Nat /\ k + 1 \in Nat /\ k <= k + 1
  OBVIOUS
<1>5. \A j \in Nat : j <= k => j <= k - 1 \/ j = k
  OBVIOUS
<1>6. CASE OnSlot(st.code, b, k, "store")
  <2>. DEFINE x == st.code[b][k].val
  <2>1. k \in DOMAIN st.code[b] /\ st.code[b][k].op = "store"
    BY <1>6 DEF OnSlot
  <2>2. next = [code |-> st.code, phis |-> st.phis, cur |-> x]
    BY <1>6 DEF RenameInstr
  <2>3. ~IsSlotResult(st.code, x)
    BY <2>1, StoredIsNoLoad
  <2>4. InForce(st.code, st.phis, x, b, k)
    BY <1>1, <1>3, <2>1, DefsDominateMembers
  <2>. HIDE DEF x, next
  <2>5. InForce(st.code, st.phis, x, b, k + 1)
    BY <1>1, <1>4, <2>4, InForceLater
  <2>6. next.code = st.code /\ next.phis = st.phis /\ next.cur = x
    BY <2>2
  <2>7. ASSUME NEW d, NEW j, IsSlotLoad(st.code, d, j), d \in vis \/ (d = b /\ j <= k)
        PROVE  Unused(st.code, st.phis, st.code[d][j].res)
    <3>1. j \in Nat /\ st.code[d][j].op = "load"
      BY <1>1, <2>7, SlotLoadFacts
    <3>2. ~(d = b /\ j = k)
      BY <2>1, <3>1
    <3>3. d \in vis \/ (d = b /\ j <= k - 1)
      BY <1>5, <2>7, <3>1, <3>2
    <3>. QED
      BY <1>1, <2>7, <3>3
  <2>8. UpToInstr(b, vis, c, ph, k, next)
    BY <1>1, <2>3, <2>5, <2>6, <2>7 DEF UpToInstr
  <2>. QED
    BY <2>8 DEF next
<1>7. CASE ~OnSlot(st.code, b, k, "store") /\ OnSlot(st.code, b, k, "load")
  <2>. DEFINE x == st.code[b][k].res
              c2 == redirect_instrs(st.code, {x}, st.cur)
              ph2 == redirect_phis(st.phis, {x}, st.cur)
  <2>1. IsSlotLoad(st.code, b, k)
    BY <1>7 DEF IsSlotLoad
  <2>2. next = [code |-> c2, phis |-> ph2, cur |-> st.cur]
    BY <1>7 DEF RenameInstr
  <2>3. /\ SameShape(st.code, st.phis, c2, ph2)
        /\ Promoting(c2, ph2)
        /\ \A y : IsSlotResult(st.code, y) /\ (y = x \/ Unused(st.code, st.phis, y)) => Unused(c2, ph2, y)
    BY <1>1, <1>2, <2>1, LoadRedirected
  <2>. HIDE DEF x, c2, ph2, next
  <2>4. InForce(c2, ph2, st.cur, b, k + 1)
    <3>1. InForce(c2, ph2, st.cur, b, k)
      BY <1>2, <1>3, <2>3, InForceKept
    <3>2. IsRest(c2)
      BY <2>3 DEF Promoting
    <3>. QED
      BY <1>4, <3>1, <3>2, InForceLater
  <2>5. next.code = c2 /\ next.phis = ph2 /\ next.cur = st.cur
    BY <2>2
  <2>6. SameShape(c, ph, c2, ph2)
    BY <1>1, <2>3, ShapeTransitive
  <2>7. ~IsSlotResult(c2, st.cur)
    BY <1>1, <1>3, <2>3, ShapeKeepsLoads
  <2>8. ASSUME NEW d, NEW j, IsSlotLoad(c2, d, j), d \in vis \/ (d = b /\ j <= k)
        PROVE  Unused(c2, ph2, c2[d][j].res)
    <3>1. IsSlotLoad(st.code, d, j)
      BY <1>3, <2>3, <2>8, ShapeKeepsLoads
    <3>2. j \in Nat /\ d \in Blocks(g) /\ j \in DOMAIN st.code[d] /\ IsSlotResult(st.code, st.code[d][j].res)
      BY <1>1, <3>1, SlotLoadFacts
    <3>3. c2[d][j].res = st.code[d][j].res
      BY <2>3, <3>2 DEF SameShape
    <3>4. CASE d = b /\ j = k
      <4>1. st.code[d][j].res = x
        BY <3>4 DEF x
      <4>. QED
        BY <2>3, <3>2, <3>3, <4>1
    <3>5. CASE ~(d = b /\ j = k)
      <4>1. d \in vis \/ (d = b /\ j <= k - 1)
        BY <1>5, <2>8, <3>2, <3>5
      <4>2. Unused(st.code, st.phis, st.code[d][j].res)
        BY <1>1, <3>1, <4>1
      <4>. QED
        BY <2>3, <3>2, <3>3, <4>2
    <3>. QED
      BY <3>4, <3>5
  <2>9. UpToInstr(b, vis, c, ph, k, next)
    BY <2>3, <2>4, <2>5, <2>6, <2>7, <2>8 DEF UpToInstr
  <2>. QED
    BY <2>9 DEF next
<1>8. CASE ~OnSlot(st.code, b, k, "store") /\ ~OnSlot(st.code, b, k, "load")
  <2>1. next = st
    BY <1>8 DEF RenameInstr
  <2>2. InForce(st.code, st.phis, st.cur, b, k + 1)
    BY <1>1, <1>2, <1>4, InForceLater
  <2>3. ASSUME NEW d, NEW j, IsSlotLoad(st.code, d, j), d \in vis \/ (d = b /\ j <= k)
        PROVE  Unused(st.code, st.phis, st.code[d][j].res)
    <3>1. j \in Nat
      BY <1>1, <2>3, SlotLoadFacts
    <3>2. ~(d = b /\ j = k)
      BY <1>8, <2>3 DEF IsSlotLoad
    <3>3. d \in vis \/ (d = b /\ j <= k - 1)
      BY <1>5, <2>3, <3>1, <3>2
    <3>. QED
      BY <1>1, <2>3, <3>3
  <2>4. UpToInstr(b, vis, c, ph, k, st)
    BY <1>1, <2>2, <2>3 DEF UpToInstr
  <2>. QED
    BY <2>1, <2>4
<1>. QED
  BY <1>6, <1>7, <1>8

LEMMA BlockRenamed ==
  ASSUME OrigIsSSA, NEW b \in Reachable(g), NEW vis, \A a \in Dom(g, b) : a = b \/ a \in vis,
         NEW c, NEW ph, NEW start, UpToInstr(b, vis, c, ph, 0, start)
  PROVE  UpToInstr(b, vis, c, ph, Len(orig[b]), RenameInstrs(b, start))
<1>. DEFINE n == Len(orig[b])
<1>1. n \in Nat /\ n \in 0 .. n /\ 0 \in 0 .. n
  <2>1. b \in Blocks(g)
    BY DomMembers DEF OrigIsSSA
  <2>. QED
    BY <2>1, SSAFacts
<1>2. PICK st : Renames(b, start, n, st) /\ RenameInstrs(b, start) = st[n]
  BY <1>1, RenameUnfolds
<1>. HIDE DEF n
<1>. DEFINE S == {k \in 0 .. n : UpToInstr(b, vis, c, ph, k, st[k])}
<1>3. 0 \in S
  BY <1>1, <1>2 DEF Renames
<1>4. ASSUME NEW k \in 1 .. n, k - 1 \in S
      PROVE  k \in S
  <2>1. k \in Nat \ {0} /\ k \in 0 .. n
    BY <1>1
  <2>2. st[k] = RenameInstr(st[k - 1], b, k)
    BY <1>2 DEF Renames
  <2>3. UpToInstr(b, vis, c, ph, k - 1, st[k - 1])
    BY <1>4
  <2>4. UpToInstr(b, vis, c, ph, k, RenameInstr(st[k - 1], b, k))
    BY <2>1, <2>3, InstrRenamed
  <2>. QED
    BY <2>1, <2>2, <2>4
<1>5. n \in S
  <2>. HIDE DEF S
  <2>1. 0 .. n \subseteq S
    BY <1>1, <1>3, <1>4, UpTo
  <2>. QED
    BY <1>1, <2>1
<1>. QED
  BY <1>2, <1>5 DEF n

\* What the block tells the phis of its successors is in force at its end.
LEMMA PhisFilled ==
  ASSUME OrigIsSSA, NEW c, NEW ph, Promoting(c, ph), NEW b \in Reachable(g), NEW cur,
         InForce(c, ph, cur, b, Len(orig[b]) + 1), ~IsSlotResult(c, cur)
  PROVE  /\ SameShape(c, ph, c, FillPhis(ph, b, cur))
         /\ Promoting(c, FillPhis(ph, b, cur))
         /\ \A y : IsSlotResult(c, y) /\ Unused(c, ph, y) => Unused(c, FillPhis(ph, b, cur), y)
<1>. DEFINE ph2 == FillPhis(ph, b, cur)
<1>1. IsGraph(g) /\ Reachable(g) \subseteq Blocks(g)
  BY DomMembers DEF OrigIsSSA
<1>2. ASSUME NEW s \in Blocks(g)
      PROVE  /\ DOMAIN ph2[s] = DOMAIN ph[s]
             /\ \A v \in DOMAIN ph[s] :
                  ph2[s][v] = [i \in DOMAIN ph[s][v] |->
                                 IF s \in Succs(g, b) /\ v = slot /\ preds[s][i] = b THEN cur ELSE ph[s][v][i]]
  BY DEF FillPhis
<1>. HIDE DEF ph2
<1>3. ASSUME NEW s \in Blocks(g), NEW v \in DOMAIN ph[s]
      PROVE  /\ DOMAIN ph2[s][v] = DOMAIN ph[s][v]
             /\ \A i \in DOMAIN ph[s][v] : ph2[s][v][i] = ph[s][v][i] \/ (ph2[s][v][i] = cur /\ preds[s][i] = b)
  <2>. DEFINE f == ph2[s][v]
  <2>1. f = [i \in DOMAIN ph[s][v] |->
               IF s \in Succs(g, b) /\ v = slot /\ preds[s][i] = b THEN cur ELSE ph[s][v][i]]
    BY <1>2
  <2>. HIDE DEF f
  <2>2. DOMAIN f = DOMAIN ph[s][v]
    BY <2>1
  <2>3. ASSUME NEW i \in DOMAIN ph[s][v]
        PROVE  f[i] = ph[s][v][i] \/ (f[i] = cur /\ preds[s][i] = b)
    BY <2>1
  <2>. QED
    BY <2>2, <2>3 DEF f
<1>4. SameShape(c, ph, c, ph2)
  BY <1>2, <1>3 DEF SameShape
<1>5. IsRest(c) /\ PhisFit(ph2)
  BY <1>4, ShapeKeepsForm DEF Promoting
<1>6. AllListed(c, ph2)
  <2>1. ASSUME NEW d \in Blocks(g), NEW v \in DOMAIN ph2[d], NEW i \in DOMAIN ph2[d][v],
               IsSlotResult(c, ph2[d][v][i])
        PROVE  <<ph2[d][v][i], <<d, "phi", v>>>> \in uses
    <3>1. v \in DOMAIN ph[d] /\ i \in DOMAIN ph[d][v] /\ ph2[d][v][i] = ph[d][v][i]
      BY <1>2, <1>3, <2>1
    <3>. QED
      BY <2>1, <3>1 DEF Promoting, AllListed
  <2>2. \A d \in Blocks(g) : \A j \in DOMAIN c[d] :
          IsSlotResult(c, c[d][j].val) => <<c[d][j].val, <<d, "instr", j>>>> \in uses
    BY DEF Promoting, AllListed
  <2>. QED
    BY <2>1, <2>2 DEF AllListed
<1>7. DefsDominate(c, ph2)
  <2>1. DefsDominate(c, ph)
    BY DEF Promoting
  <2>2. ASSUME NEW d \in Reachable(g), NEW j \in DOMAIN c[d]
        PROVE  InForce(c, ph2, c[d][j].val, d, j)
    <3>1. InForce(c, ph, c[d][j].val, d, j)
      BY <1>1, <2>1, DefsDominateMembers
    <3>. QED
      BY <1>1, <1>4, <3>1, InForceKept
  <2>3. ASSUME NEW d \in Reachable(g), NEW v \in DOMAIN ph2[d], NEW i \in DOMAIN preds[d],
               preds[d][i] \in Reachable(g)
        PROVE  InForce(c, ph2, ph2[d][v][i], preds[d][i], Len(orig[preds[d][i]]) + 1)
    <3>1. d \in Blocks(g) /\ v \in DOMAIN ph[d] /\ i \in DOMAIN ph[d][v]
      BY <1>1, <1>2 DEF Promoting, PhisFit
    <3>2. InForce(c, ph, ph[d][v][i], preds[d][i], Len(orig[preds[d][i]]) + 1)
      BY <1>1, <2>1, <2>3, <3>1, DefsDominateMembers
    <3>3. InForce(c, ph, ph2[d][v][i], preds[d][i], Len(orig[preds[d][i]]) + 1)
      BY <1>3, <3>1, <3>2
    <3>. QED
      BY <1>1, <1>4, <2>3, <3>3, InForceKept
  <2>. QED
    BY <1>1, <2>2, <2>3, DefsDominateMembers
<1>8. ASSUME NEW y, IsSlotResult(c, y), Unused(c, ph, y)
      PROVE  Unused(c, ph2, y)
  <2>1. y # cur
    BY <1>8
  <2>2. ASSUME NEW d \in Blocks(g), NEW v \in DOMAIN ph2[d], NEW i \in DOMAIN ph2[d][v]
        PROVE  ph2[d][v][i] # y
    BY <1>2, <1>3, <1>8, <2>1 DEF Unused
  <2>3. \A d \in Blocks(g) : \A j \in DOMAIN c[d] : c[d][j].val # y
    BY <1>8 DEF Unused
  <2>. QED
    BY <2>2, <2>3 DEF Unused
<1>9. Promoting(c, ph2)
  BY <1>5, <1>6, <1>7 DEF Promoting
<1>. QED
  BY <1>4, <1>8, <1>9 DEF ph2

(***************************************************************************)
(* The walk down the dominator tree.                                       *)
(***************************************************************************)

\* No block the walk has still to enter is above d or d itself.
Passed(w, d) == \A i \in 1 .. Len(w) : w[i].blk \notin Dom(g, d)

\* The blocks to enter are unrelated, each has a value that is in force where
\* it begins, and no load of a block behind the walk is used any more.
WalkFits(w, c, ph) ==
  /\ \E S : w \in Seq(S)
  /\ \A i \in 1 .. Len(w) :
       /\ w[i].blk \in Reachable(g)
       /\ InForce(c, ph, w[i].cur, w[i].blk, 1)
       /\ ~IsSlotResult(c, w[i].cur)
  /\ \A i, j \in 1 .. Len(w) : i # j => w[i].blk \notin Dom(g, w[j].blk)
  /\ \A d, j : IsSlotLoad(c, d, j) /\ Passed(w, d) => Unused(c, ph, c[d][j].res)

LEMMA FramesOf ==
  ASSUME NEW S, NEW w \in Seq(S), w # << >>, NEW T, NEW f \in Seq(T)
  PROVE  /\ Len(w) \in Nat \ {0} /\ Len(f) \in Nat
         /\ f \o Tail(w) \in Seq(S \cup T) /\ Len(f \o Tail(w)) = Len(f) + Len(w) - 1
         /\ \A i \in 1 .. Len(f) : i \in 1 .. Len(f \o Tail(w)) /\ (f \o Tail(w))[i] = f[i]
         /\ \A i \in 2 .. Len(w) : /\ i + Len(f) - 1 \in 1 .. Len(f \o Tail(w))
                                   /\ (f \o Tail(w))[i + Len(f) - 1] = w[i]
<1>. DEFINE t == Tail(w)
            q == f \o t
            m == Len(f)
            n == Len(w)
<1>1. w \in Seq(S \cup T) /\ f \in Seq(S \cup T)
  OBVIOUS
<1>2. /\ n \in Nat \ {0} /\ m \in Nat /\ t \in Seq(S \cup T) /\ Len(t) = n - 1
      /\ \A i \in 1 .. n - 1 : t[i] = w[i + 1]
  BY <1>1
<1>. HIDE DEF t
<1>3. q \in Seq(S \cup T) /\ Len(q) = m + n - 1
  <2>. DEFINE U == S \cup T
  <2>1. f \in Seq(U) /\ t \in Seq(U) /\ Len(t) = n - 1 /\ Len(f) = m /\ m \in Nat /\ n \in Nat
    BY <1>1, <1>2
  <2>. HIDE DEF U, m, n
  <2>2. q \in Seq(U) /\ Len(q) = Len(f) + Len(t)
    BY <2>1
  <2>3. Len(q) = m + n - 1
    BY <2>1, <2>2
  <2>. QED
    BY <2>2, <2>3 DEF U
<1>4. /\ \A i \in 1 .. m : q[i] = f[i]
      /\ \A i \in 1 .. n - 1 : q[m + i] = t[i]
  BY <1>1, <1>2
<1>. HIDE DEF q, m, n
<1>5. ASSUME NEW i \in 1 .. m
      PROVE  i \in 1 .. Len(q) /\ q[i] = f[i]
  BY <1>2, <1>3, <1>4
<1>6. ASSUME NEW i \in 2 .. n
      PROVE  i + m - 1 \in 1 .. Len(q) /\ q[i + m - 1] = w[i]
  <2>1. i - 1 \in 1 .. n - 1 /\ m + (i - 1) = i + m - 1 /\ (i - 1) + 1 = i
    BY <1>2
  <2>2. q[m + (i - 1)] = t[i - 1] /\ t[i - 1] = w[(i - 1) + 1]
    BY <1>2, <1>4, <2>1
  <2>. QED
    BY <1>2, <1>3, <2>1, <2>2
<1>. QED
  BY <1>2, <1>3, <1>5, <1>6 DEF q, m, n, t

\* The frames of the children.
KidFrames(b, cur) == [i \in DOMAIN ChildrenOf(b) |-> [blk |-> ChildrenOf(b)[i], cur |-> cur]]

LEMMA KidFramesMembers ==
  ASSUME TreeFound, NEW b \in Reachable(g), NEW cur
  PROVE  /\ KidFrames(b, cur) \in Seq([blk : Blocks(g), cur : {cur}])
         /\ \A i \in 1 .. Len(KidFrames(b, cur)) :
              KidFrames(b, cur)[i].blk \in Range(ChildrenOf(b)) /\ KidFrames(b, cur)[i].cur = cur
         /\ \A i, j \in 1 .. Len(KidFrames(b, cur)) :
              i # j => KidFrames(b, cur)[i].blk # KidFrames(b, cur)[j].blk
         /\ \A c \in Range(ChildrenOf(b)) : \E i \in 1 .. Len(KidFrames(b, cur)) : KidFrames(b, cur)[i].blk = c
<1>. DEFINE kids == ChildrenOf(b)
            f == KidFrames(b, cur)
<1>1. N \in Nat \ {0} /\ Blocks(g) = 0 .. N - 1
  BY TreeBlocks
<1>2. IsKids(b, N - 1, kids)
  BY <1>1, ChildrenMembers
<1>3. f = [i \in DOMAIN kids |-> [blk |-> kids[i], cur |-> cur]]
  BY DEF KidFrames
<1>. HIDE DEF kids, f
<1>4. kids \in Seq(Blocks(g)) /\ DOMAIN kids = 1 .. Len(kids) /\ Len(kids) \in Nat
  BY <1>1, <1>2 DEF IsKids
<1>5. \A i \in 1 .. Len(kids) : kids[i] \in Blocks(g)
  BY <1>4
<1>6. f \in Seq([blk : Blocks(g), cur : {cur}]) /\ Len(f) = Len(kids)
  <2>1. f \in [1 .. Len(kids) -> [blk : Blocks(g), cur : {cur}]]
    BY <1>3, <1>4, <1>5
  <2>. DEFINE F == [blk : Blocks(g), cur : {cur}]
  <2>2. f \in [1 .. Len(kids) -> F]
    BY <2>1
  <2>. HIDE DEF F
  <2>3. f \in Seq(F) /\ Len(f) = Len(kids)
    BY <1>4, <2>2
  <2>. QED
    BY <2>3 DEF F
<1>7. \A i \in 1 .. Len(kids) : f[i].blk = kids[i] /\ f[i].cur = cur
  BY <1>3, <1>4
<1>8. \A i \in 1 .. Len(kids) : kids[i] \in Range(kids)
  BY <1>4 DEF Range
<1>9. ASSUME NEW i \in 1 .. Len(kids), NEW j \in 1 .. Len(kids), i # j
      PROVE  kids[i] # kids[j]
  <2>1. i < j \/ j < i
    BY <1>9
  <2>2. kids[i] \in Int /\ kids[j] \in Int
    BY <1>1, <1>5
  <2>. QED
    BY <1>2, <2>1, <2>2 DEF IsKids
<1>10. \A c \in Range(kids) : \E i \in 1 .. Len(kids) : kids[i] = c
  BY <1>4 DEF Range
<1>. QED
  BY <1>6, <1>7, <1>8, <1>9, <1>10 DEF kids, f

\* What the walk starts block b with.
StartOf(w, c, ph) ==
  [code |-> c, phis |-> ph,
   cur |-> IF slot \in DOMAIN ph[Head(w).blk] THEN Phi(Head(w).blk, slot) ELSE Head(w).cur]

\* All that dominates the next block is behind the walk.
LEMMA AboveIsPassed ==
  ASSUME IsGraph(g), NEW w, NEW c, NEW ph, WalkFits(w, c, ph), NEW i \in 1 .. Len(w),
         NEW a \in Dom(g, w[i].blk), a # w[i].blk
  PROVE  a \in Reachable(g) /\ Passed(w, a)
<1>1. w[i].blk \in Reachable(g)
  BY DEF WalkFits
<1>2. a \in Reachable(g) /\ Dom(g, a) \subseteq Dom(g, w[i].blk)
  BY <1>1, DomUp
<1>3. w[i].blk \notin Dom(g, a)
  BY <1>1, DomAntisymmetric
<1>4. \A j \in 1 .. Len(w) : w[j].blk \notin Dom(g, a)
  BY <1>2, <1>3 DEF WalkFits
<1>. QED
  BY <1>2, <1>4 DEF Passed

LEMMA StartFits ==
  ASSUME TreeFound, OrigIsSSA, NEW w, w # << >>, NEW c, NEW ph, Promoting(c, ph), WalkFits(w, c, ph)
  PROVE  /\ Head(w).blk \in Reachable(g)
         /\ UpToInstr(Head(w).blk, {d \in Reachable(g) : Passed(w, d)}, c, ph, 0, StartOf(w, c, ph))
<1>. DEFINE b == Head(w).blk
            vis == {d \in Reachable(g) : Passed(w, d)}
            cur == IF slot \in DOMAIN ph[b] THEN Phi(b, slot) ELSE Head(w).cur
<1>1. IsGraph(g)
  BY DEF TreeFound
<1>2. 1 \in 1 .. Len(w) /\ Head(w) = w[1]
  <2>1. PICK S : w \in Seq(S)
    BY DEF WalkFits
  <2>. QED
    BY <2>1
<1>3. b \in Reachable(g) /\ InForce(c, ph, Head(w).cur, b, 1) /\ ~IsSlotResult(c, Head(w).cur)
  BY <1>2 DEF WalkFits
<1>4. b \in Dom(g, b) /\ b \in Blocks(g)
  BY <1>1, <1>3, DomMembers
<1>. HIDE DEF b
<1>5. InForce(c, ph, cur, b, 1) /\ ~IsSlotResult(c, cur)
  <2>1. CASE slot \notin DOMAIN ph[b]
    BY <1>3, <2>1
  <2>2. CASE slot \in DOMAIN ph[b]
    <3>1. cur = Phi(b, slot)
      BY <2>2
    <3>. HIDE DEF cur
    <3>2. cur[1] = "phi" /\ cur[2] = b /\ cur[3] = slot
      BY <3>1 DEF Phi
    <3>3. InForce(c, ph, cur, b, 1)
      BY <1>1, <1>3, <1>4, <2>2, <3>2, InForceMembers
    <3>4. ASSUME IsSlotResult(c, cur)
          PROVE  FALSE
      <4>1. PICK d, j : IsSlotLoad(c, d, j) /\ c[d][j].res = cur
        BY <3>4 DEF IsSlotResult
      <4>2. cur[1] = "load"
        BY <4>1, SlotLoadFacts DEF Promoting
      <4>. QED
        BY <3>2, <4>2
    <3>. QED
      BY <3>3, <3>4
  <2>. QED
    BY <2>1, <2>2
<1>6. ASSUME NEW d, NEW j, IsSlotLoad(c, d, j), d \in vis \/ (d = b /\ j <= 0)
      PROVE  Unused(c, ph, c[d][j].res)
  <2>1. j \in Nat \ {0}
    BY <1>6, SlotLoadFacts DEF Promoting
  <2>2. Passed(w, d)
    BY <1>6, <2>1
  <2>. QED
    BY <1>6, <2>2 DEF WalkFits
<1>7. SameShape(c, ph, c, ph)
  BY DEF SameShape
<1>8. StartOf(w, c, ph) = [code |-> c, phis |-> ph, cur |-> cur]
  BY DEF StartOf, b
<1>. DEFINE start == StartOf(w, c, ph)
<1>. HIDE DEF cur, start, vis
<1>9. start.code = c /\ start.phis = ph /\ start.cur = cur
  BY <1>8 DEF start
<1>10. UpToInstr(b, vis, c, ph, 0, start)
  BY <1>5, <1>6, <1>7, <1>9 DEF UpToInstr
<1>. QED
  BY <1>3, <1>10 DEF b, vis, start

LEMMA WalkStep ==
  ASSUME TreeFound, ChildrenFit, OrigIsSSA, NEW w, w # << >>, NEW c, NEW ph, Promoting(c, ph), WalkFits(w, c, ph),
         NEW b, b = Head(w).blk, NEW st, st = RenameInstrs(b, StartOf(w, c, ph))
  PROVE  /\ Promoting(st.code, FillPhis(st.phis, b, st.cur))
         /\ WalkFits(KidFrames(b, st.cur) \o Tail(w), st.code, FillPhis(st.phis, b, st.cur))
<1>. DEFINE vis == {d \in Reachable(g) : Passed(w, d)}
            n == Len(orig[b])
            c2 == st.code
            ph2 == FillPhis(st.phis, b, st.cur)
            f == KidFrames(b, st.cur)
            q == f \o Tail(w)
<1>1. IsGraph(g)
  BY DEF TreeFound
<1>2. PICK S : w \in Seq(S)
  BY DEF WalkFits
<1>3. 1 \in 1 .. Len(w) /\ Head(w) = w[1] /\ b = w[1].blk /\ Len(w) \in Nat \ {0}
  BY <1>2
<1>4. b \in Reachable(g) /\ b \in Blocks(g)
  BY <1>1, StartFits, DomMembers
<1>5. \A a \in Dom(g, b) : a = b \/ a \in vis
  BY <1>1, <1>3, AboveIsPassed
<1>6. UpToInstr(b, vis, c, ph, n, st)
  BY <1>4, <1>5, StartFits, BlockRenamed
<1>7. n \in Nat
  BY <1>4, SSAFacts
<1>8. /\ Promoting(c2, st.phis) /\ SameShape(c, ph, c2, st.phis)
      /\ InForce(c2, st.phis, st.cur, b, n + 1) /\ ~IsSlotResult(c2, st.cur)
      /\ \A d, j : IsSlotLoad(c2, d, j) /\ (d \in vis \/ (d = b /\ j <= n)) => Unused(c2, st.phis, c2[d][j].res)
  BY <1>6 DEF UpToInstr
<1>. HIDE DEF n, vis, c2
<1>9. /\ SameShape(c2, st.phis, c2, ph2) /\ Promoting(c2, ph2)
      /\ \A y : IsSlotResult(c2, y) /\ Unused(c2, st.phis, y) => Unused(c2, ph2, y)
  BY <1>4, <1>8, PhisFilled DEF n
<1>10. SameShape(c, ph, c2, ph2)
  BY <1>8, <1>9, ShapeTransitive
<1>11. IsRest(c2)
  BY <1>8 DEF Promoting
<1>12. /\ f \in Seq([blk : Blocks(g), cur : {st.cur}]) /\ Len(f) \in Nat
       /\ \A i \in 1 .. Len(f) : f[i].blk \in Range(ChildrenOf(b)) /\ f[i].cur = st.cur
       /\ \A i, j \in 1 .. Len(f) : i # j => f[i].blk # f[j].blk
       /\ \A k \in Range(ChildrenOf(b)) : \E i \in 1 .. Len(f) : f[i].blk = k
  <2>. DEFINE x == st.cur
              e == KidFrames(b, x)
  <2>. HIDE DEF x
  <2>1. /\ e \in Seq([blk : Blocks(g), cur : {x}])
        /\ \A i \in 1 .. Len(e) : e[i].blk \in Range(ChildrenOf(b)) /\ e[i].cur = x
        /\ \A i, j \in 1 .. Len(e) : i # j => e[i].blk # e[j].blk
        /\ \A k \in Range(ChildrenOf(b)) : \E i \in 1 .. Len(e) : e[i].blk = k
    BY <1>4, KidFramesMembers
  <2>. DEFINE F == [blk : Blocks(g), cur : {x}]
  <2>. HIDE DEF F, e
  <2>2. e \in Seq(F)
    BY <2>1 DEF F
  <2>3. Len(e) \in Nat
    BY <2>2
  <2>4. f = e
    BY DEF e, x
  <2>. QED
    BY <2>1, <2>3, <2>4 DEF x
<1>. HIDE DEF ph2, f
<1>13. /\ \E T : q \in Seq(T)
       /\ Len(q) = Len(f) + Len(w) - 1
       /\ \A i \in 1 .. Len(f) : i \in 1 .. Len(q) /\ q[i] = f[i]
       /\ \A i \in 2 .. Len(w) : i + Len(f) - 1 \in 1 .. Len(q) /\ q[i + Len(f) - 1] = w[i]
  <2>. DEFINE T == [blk : Blocks(g), cur : {st.cur}]
  <2>1. f \in Seq(T)
    BY <1>12
  <2>. HIDE DEF T
  <2>2. /\ q \in Seq(S \cup T) /\ Len(q) = Len(f) + Len(w) - 1
        /\ \A i \in 1 .. Len(f) : i \in 1 .. Len(q) /\ q[i] = f[i]
        /\ \A i \in 2 .. Len(w) : i + Len(f) - 1 \in 1 .. Len(q) /\ q[i + Len(f) - 1] = w[i]
    BY <1>2, <2>1, FramesOf
  <2>. QED
    BY <2>2
<1>. HIDE DEF q
<1>14. ASSUME NEW i \in 1 .. Len(q)
       PROVE  \/ i \in 1 .. Len(f) /\ q[i] = f[i]
              \/ i - Len(f) + 1 \in 2 .. Len(w) /\ q[i] = w[i - Len(f) + 1]
  <2>1. i \in 1 .. Len(f) \/ i - Len(f) + 1 \in 2 .. Len(w)
    BY <1>3, <1>12, <1>13
  <2>2. (i - Len(f) + 1) + Len(f) - 1 = i
    BY <1>12
  <2>. QED
    BY <1>13, <2>1, <2>2
<1>15. ASSUME NEW k \in Range(ChildrenOf(b))
       PROVE  /\ k \in Reachable(g) /\ k # b /\ b \in Dom(g, k) /\ k \notin Dom(g, b)
              /\ \A a \in Dom(g, k) : a = k \/ a \in Dom(g, b)
              /\ Dom(g, b) \subseteq Dom(g, k)
  <2>1. /\ k \in Reachable(g) /\ k # b /\ b \in Dom(g, k)
        /\ \A a \in Dom(g, k) : a = k \/ a \in Dom(g, b)
    BY <1>4, KidsAreBelow
  <2>2. k \notin Dom(g, b)
    BY <1>1, <2>1, DomAntisymmetric
  <2>. QED
    BY <1>1, <2>1, <2>2, DomUp
<1>. DEFINE Fits(z) == z.blk \in Reachable(g) /\ InForce(c2, ph2, z.cur, z.blk, 1) /\ ~IsSlotResult(c2, z.cur)
<1>16. ASSUME NEW i \in 1 .. Len(w)
       PROVE  Fits(w[i])
  <2>1. w[i].blk \in Reachable(g) /\ InForce(c, ph, w[i].cur, w[i].blk, 1) /\ ~IsSlotResult(c, w[i].cur)
    BY DEF WalkFits
  <2>2. InForce(c2, ph2, w[i].cur, w[i].blk, 1)
    BY <1>1, <1>10, <2>1, InForceKept
  <2>3. ~IsSlotResult(c2, w[i].cur)
    BY <1>1, <1>10, <2>1, ShapeKeepsLoads
  <2>. QED
    BY <2>1, <2>2, <2>3
<1>17. ASSUME NEW i \in 1 .. Len(f)
       PROVE  Fits(f[i])
  <2>. DEFINE k == f[i].blk
              x == st.cur
  <2>1. k \in Range(ChildrenOf(b)) /\ f[i].cur = x
    BY <1>12
  <2>2. k \in Reachable(g) /\ k \notin Dom(g, b) /\ Dom(g, b) \subseteq Dom(g, k)
    BY <1>15, <2>1
  <2>. HIDE DEF k, x
  <2>3. InForce(c2, ph2, x, b, n + 1)
    BY <1>1, <1>4, <1>8, <1>9, InForceKept DEF x
  <2>4. InForce(c2, ph2, x, k, 1)
    <3>1. CASE x[1] = "load" /\ \E d \in Dom(g, b) : \E j \in DOMAIN c2[d] : c2[d][j].res = x /\ (d = b => j < n + 1)
      <4>1. PICK d \in Dom(g, b) : \E j \in DOMAIN c2[d] : c2[d][j].res = x /\ (d = b => j < n + 1)
        BY <3>1
      <4>2. d \in Dom(g, k) /\ d # k
        BY <2>2
      <4>3. \E j \in DOMAIN c2[d] : c2[d][j].res = x /\ (d = k => j < 1)
        BY <4>1, <4>2
      <4>. QED
        BY <1>1, <2>2, <3>1, <4>2, <4>3, InForceMembers
    <3>2. CASE x[1] = "phi" /\ x[2] \in Dom(g, b) /\ x[3] \in DOMAIN ph2[x[2]]
      BY <1>1, <2>2, <3>2, InForceMembers
    <3>3. CASE ~IsResult(x)
      BY <1>1, <2>2, <3>3, InForceMembers
    <3>. QED
      BY <1>1, <1>4, <2>3, <3>1, <3>2, <3>3, InForceMembers
  <2>. QED
    BY <1>8, <2>1, <2>2, <2>4 DEF k, x
<1>18. ASSUME NEW i \in 1 .. Len(q)
       PROVE  Fits(q[i])
  <2>1. \A m \in 2 .. Len(w) : m \in 1 .. Len(w)
    BY <1>3
  <2>. HIDE DEF Fits
  <2>. QED
    BY <2>1, <1>14, <1>16, <1>17
<1>19. ASSUME NEW i \in 1 .. Len(q), NEW j \in 1 .. Len(q), i # j
       PROVE  q[i].blk \notin Dom(g, q[j].blk)
  <2>1. \A m \in 2 .. Len(w) : m \in 1 .. Len(w) /\ m # 1
    BY <1>3
  <2>2. \A m, l \in 1 .. Len(w) : m # l => w[m].blk \notin Dom(g, w[l].blk)
    BY DEF WalkFits
  <2>3. CASE i \in 1 .. Len(f) /\ j \in 1 .. Len(f)
    <3>1. q[i] = f[i] /\ q[j] = f[j] /\ f[i].blk # f[j].blk
      BY <1>12, <1>13, <1>19, <2>3
    <3>. QED
      BY <1>12, <1>15, <2>3, <3>1
  <2>4. CASE i \in 1 .. Len(f) /\ j \notin 1 .. Len(f)
    <3>. DEFINE l == j - Len(f) + 1
    <3>1. l \in 2 .. Len(w) /\ q[j] = w[l] /\ q[i] = f[i]
      BY <1>13, <1>14, <2>4
    <3>. HIDE DEF l
    <3>2. f[i].blk \in Range(ChildrenOf(b)) /\ w[l].blk \in Reachable(g)
      BY <1>12, <1>16, <2>1, <2>4, <3>1
    <3>3. b \notin Dom(g, w[l].blk)
      BY <1>3, <2>1, <2>2, <3>1
    <3>4. ASSUME f[i].blk \in Dom(g, w[l].blk)
          PROVE  FALSE
      <4>1. Dom(g, f[i].blk) \subseteq Dom(g, w[l].blk)
        BY <1>1, <3>2, <3>4, DomUp
      <4>. QED
        BY <1>15, <3>2, <3>3, <4>1
    <3>. QED
      BY <3>1, <3>4
  <2>5. CASE i \notin 1 .. Len(f) /\ j \in 1 .. Len(f)
    <3>. DEFINE l == i - Len(f) + 1
    <3>1. l \in 2 .. Len(w) /\ q[i] = w[l] /\ q[j] = f[j]
      BY <1>13, <1>14, <2>5
    <3>. HIDE DEF l
    <3>2. f[j].blk \in Range(ChildrenOf(b)) /\ w[l].blk \in Reachable(g)
      BY <1>12, <1>16, <2>1, <2>5, <3>1
    <3>3. w[l].blk \notin Dom(g, b) /\ b \notin Dom(g, w[l].blk)
      BY <1>3, <2>1, <2>2, <3>1
    <3>4. w[l].blk # f[j].blk
      BY <1>15, <3>2, <3>3
    <3>. QED
      BY <1>15, <3>1, <3>2, <3>3, <3>4
  <2>6. CASE i \notin 1 .. Len(f) /\ j \notin 1 .. Len(f)
    <3>1. /\ i - Len(f) + 1 \in 2 .. Len(w) /\ q[i] = w[i - Len(f) + 1]
          /\ j - Len(f) + 1 \in 2 .. Len(w) /\ q[j] = w[j - Len(f) + 1]
      BY <1>14, <2>6
    <3>2. i - Len(f) + 1 # j - Len(f) + 1
      BY <1>12, <1>19
    <3>. QED
      BY <2>1, <2>2, <3>1, <3>2
  <2>. QED
    BY <2>3, <2>4, <2>5, <2>6
<1>20. ASSUME NEW d \in Reachable(g), Passed(q, d)
       PROVE  d \in vis \/ d = b
  <2>1. SUFFICES ASSUME d # b, NEW i \in 1 .. Len(w), w[i].blk \in Dom(g, d)
                 PROVE  FALSE
    BY DEF Passed, vis
  <2>2. CASE i = 1
    <3>1. \E k \in Range(ChildrenOf(b)) : k \in Dom(g, d)
      BY <1>3, <1>4, <2>1, <2>2, KidsCover
    <3>2. PICK j \in 1 .. Len(f) : f[j].blk \in Dom(g, d)
      BY <1>12, <3>1
    <3>. QED
      BY <1>13, <1>20, <3>2 DEF Passed
  <2>3. CASE i # 1
    <3>1. i \in 2 .. Len(w)
      BY <1>3, <2>3
    <3>. QED
      BY <1>13, <1>20, <2>1, <3>1 DEF Passed
  <2>. QED
    BY <2>2, <2>3
<1>21. ASSUME NEW d, NEW j, IsSlotLoad(c2, d, j), Passed(q, d)
       PROVE  Unused(c2, ph2, c2[d][j].res)
  <2>1. /\ d \in Reachable(g) /\ d \in Blocks(g) /\ j \in DOMAIN c2[d] /\ j \in Nat
        /\ IsSlotResult(c2, c2[d][j].res)
    BY <1>11, <1>21, SlotLoadFacts
  <2>2. d = b => j <= n
    <3>1. j \in DOMAIN orig[d]
      BY <1>11, <2>1 DEF IsRest
    <3>. QED
      BY <2>1, <3>1, SSAFacts DEF n
  <2>3. Unused(c2, st.phis, c2[d][j].res)
    BY <1>8, <1>20, <1>21, <2>1, <2>2
  <2>. QED
    BY <1>9, <2>1, <2>3
<1>22. WalkFits(q, c2, ph2)
  BY <1>13, <1>18, <1>19, <1>21 DEF WalkFits
<1>. QED
  BY <1>9, <1>22 DEF q, f, ph2, c2

(***************************************************************************)
(* The invariant of promotion.                                             *)
(***************************************************************************)
Rested == IsRest(code) /\ PhisFit(phis) /\ DefsDominate(code, phis)
Walked == Promoting(code, phis) /\ WalkFits(walk, code, phis)

PromotionInvariant ==
  /\ OrigIsSSA
  /\ pc \in {"collect", "sweep", "frontier"} => code = orig /\ phis = [b \in Blocks(g) |-> << >>]
  /\ TreeIsWhole => /\ pc = "analysed" => Rested
                    /\ pc \in {"rename", "remove"} => Walked
                    /\ pc = "remove" => walk = << >>

LEMMA TreeStays ==
  ASSUME g' = g, idom' = idom
  PROVE  TreeIsWhole' <=> TreeIsWhole
BY DEF TreeIsWhole, TreeIsExact, ChildrenFit, ChildrenOf, N

LEMMA OrigStays ==
  ASSUME OrigIsSSA, g' = g, orig' = orig
  PROVE  OrigIsSSA'
BY DEF OrigIsSSA

LEMMA RestedIn ==
  ASSUME g' = g, orig' = orig, preds' = preds, NEW c, NEW ph, code' = c, phis' = ph,
         IsRest(c), PhisFit(ph), DefsDominate(c, ph)
  PROVE  Rested'
<1>1. IsRest(code)'
  BY DEF IsRest
<1>2. PhisFit(phis)'
  BY DEF PhisFit
<1>3. DefsDominate(code, phis)'
  BY DEF DefsDominate
<1>. QED
  BY <1>1, <1>2, <1>3 DEF Rested

LEMMA LoadsStay ==
  ASSUME g' = g, slot' = slot, NEW c, code' = c
  PROVE  /\ \A d, j : IsSlotLoad(code, d, j)' <=> IsSlotLoad(c, d, j)
         /\ \A x : IsSlotResult(code, x)' <=> IsSlotResult(c, x)
<1>1. \A d, j : IsSlotLoad(code, d, j)' <=> IsSlotLoad(c, d, j)
  BY DEF IsSlotLoad, OnSlot
<1>2. \A x : IsSlotResult(code, x)' <=> IsSlotResult(c, x)
  BY <1>1 DEF IsSlotResult
<1>. QED
  BY <1>1, <1>2

LEMMA WalkedIn ==
  ASSUME g' = g, orig' = orig, preds' = preds, slot' = slot, uses' = uses,
         NEW c, NEW ph, NEW w, code' = c, phis' = ph, walk' = w,
         Promoting(c, ph), WalkFits(w, c, ph)
  PROVE  Walked'
<1>1. IsRest(code)' /\ PhisFit(phis)' /\ DefsDominate(code, phis)'
  BY RestedIn DEF Promoting, Rested
<1>2. /\ \A d, j : IsSlotLoad(code, d, j)' <=> IsSlotLoad(c, d, j)
      /\ \A x : IsSlotResult(code, x)' <=> IsSlotResult(c, x)
  BY LoadsStay
<1>3. AllListed(code, phis)'
  BY <1>2 DEF Promoting, AllListed
<1>4. \A d : Passed(walk, d)' <=> Passed(w, d)
  BY DEF Passed
<1>5. \A x : Unused(code, phis, x)' <=> Unused(c, ph, x)
  BY DEF Unused
<1>6. \A x, b, k : InForce(code, phis, x, b, k)' <=> InForce(c, ph, x, b, k)
  BY DEF InForce
<1>7. WalkFits(walk, code, phis)'
  BY <1>2, <1>4, <1>5, <1>6 DEF WalkFits
<1>. QED
  BY <1>1, <1>3, <1>7 DEF Walked, Promoting

LEMMA PromotionStart == Init => PromotionInvariant
<1>. SUFFICES ASSUME Init
              PROVE  PromotionInvariant
  OBVIOUS
<1>1. PICK p \in Programs : g = p.cfg /\ orig = p.code
  BY DEF Init
<1>2. IsGraph(g) /\ IsSSA(p)
  BY <1>1, Mem2RegAssumption, ProgramsAssumption
<1>3. OrigIsSSA
  BY <1>1, <1>2 DEF OrigIsSSA, IsSSA
<1>. QED
  BY <1>3 DEF Init, AnalysisInit, PromotionInvariant

\* As the IR generator leaves it.
LEMMA OrigRests ==
  ASSUME OrigIsSSA, NEW ph, ph = [b \in Blocks(g) |-> << >>]
  PROVE  IsRest(orig) /\ PhisFit(ph) /\ DefsDominate(orig, ph)
<1>1. IsRest(orig)
  BY DEF IsRest
<1>2. \A b \in Blocks(g) : DOMAIN ph[b] = {}
  OBVIOUS
<1>3. PhisFit(ph)
  BY <1>2 DEF PhisFit
<1>4. DefsDominate(orig, ph)
  <2>1. DOMAIN DominatorSets(g) = Reachable(g) /\ Reachable(g) \subseteq Blocks(g)
    BY DomMembers DEF OrigIsSSA, DominatorSets
  <2>2. ASSUME NEW b \in Reachable(g), NEW k \in DOMAIN orig[b]
        PROVE  DefinedAt(orig, ph, DominatorSets(g), orig[b][k].val, b, k)
    BY <2>1 DEF OrigIsSSA, IsSSA
  <2>. QED
    BY <1>2, <2>1, <2>2 DEF DefsDominate
<1>. QED
  BY <1>1, <1>3, <1>4

LEMMA AnalysisPromotes ==
  ASSUME PromotionInvariant, AnalysisStep
  PROVE  PromotionInvariant'
<1>1. g' = g /\ orig' = orig /\ code' = code /\ phis' = phis /\ pc \in {"collect", "sweep", "frontier"}
  BY DEF AnalysisStep, Analyse, CollectBlocks, VisitBlock, EndSweep, ComputeDF, renaming
<1>2. OrigIsSSA /\ code = orig /\ phis = [b \in Blocks(g) |-> << >>]
  BY <1>1 DEF PromotionInvariant
<1>3. OrigIsSSA' /\ code' = orig' /\ phis' = [b \in Blocks(g') |-> << >>]
  BY <1>1, <1>2, OrigStays
<1>4. CASE pc # "frontier"
  <2>1. pc' \in {"sweep", "frontier"}
    BY <1>1, <1>4 DEF AnalysisStep, Analyse, CollectBlocks, VisitBlock, EndSweep, ComputeDF
  <2>. QED
    BY <1>3, <2>1 DEF PromotionInvariant
<1>5. CASE pc = "frontier"
  <2>1. pc' = "analysed" /\ preds' = preds
    BY <1>5 DEF AnalysisStep, Analyse, CollectBlocks, VisitBlock, EndSweep, ComputeDF
  <2>2. IsRest(code) /\ PhisFit(phis) /\ DefsDominate(code, phis)
    BY <1>2, OrigRests
  <2>3. Rested'
    BY <1>1, <2>1, <2>2 DEF Rested, IsRest, PhisFit, DefsDominate
  <2>. QED
    BY <1>3, <2>1, <2>3 DEF PromotionInvariant
<1>. QED
  BY <1>4, <1>5

LEMMA RenameBlockPromotes ==
  ASSUME PromotionInvariant, RenameBlock
  PROVE  PromotionInvariant'
<1>1. /\ g' = g /\ orig' = orig /\ preds' = preds /\ idom' = idom /\ slot' = slot /\ uses' = uses
      /\ pc = "rename" /\ pc' = "rename" /\ walk # << >>
  BY DEF RenameBlock, analysis
<1>2. OrigIsSSA'
  BY <1>1, OrigStays DEF PromotionInvariant
<1>3. ASSUME TreeIsWhole
      PROVE  Walked'
  <2>. DEFINE b == Head(walk).blk
              st == RenameInstrs(b, StartOf(walk, code, phis))
  <2>1. /\ code' = st.code
        /\ phis' = FillPhis(st.phis, b, st.cur)
        /\ walk' = KidFrames(b, st.cur) \o Tail(walk)
    BY DEF RenameBlock, StartOf, KidFrames
  <2>2. Promoting(code, phis) /\ WalkFits(walk, code, phis) /\ OrigIsSSA /\ TreeFound /\ ChildrenFit
    BY <1>1, <1>3 DEF PromotionInvariant, Walked, TreeFound, TreeIsWhole, OrigIsSSA
  <2>. HIDE DEF b, st
  <2>3. /\ Promoting(st.code, FillPhis(st.phis, b, st.cur))
        /\ WalkFits(KidFrames(b, st.cur) \o Tail(walk), st.code, FillPhis(st.phis, b, st.cur))
    BY <1>1, <2>2, WalkStep DEF b, st
  <2>. QED
    BY <1>1, <2>1, <2>3, WalkedIn
<1>4. TreeIsWhole' => Walked'
  BY <1>1, <1>3, TreeStays
<1>. QED
  BY <1>1, <1>2, <1>4 DEF PromotionInvariant

LEMMA RenameEndsPromotes ==
  ASSUME PromotionInvariant, RenameEnds
  PROVE  PromotionInvariant'
<1>1. /\ g' = g /\ orig' = orig /\ preds' = preds /\ idom' = idom /\ slot' = slot /\ uses' = uses
      /\ code' = code /\ phis' = phis /\ walk' = walk
      /\ pc = "rename" /\ pc' = "remove" /\ walk = << >>
  BY DEF RenameEnds, analysis, renaming
<1>2. OrigIsSSA'
  BY <1>1, OrigStays DEF PromotionInvariant
<1>3. ASSUME TreeIsWhole
      PROVE  Walked'
  <2>1. Promoting(code, phis) /\ WalkFits(walk, code, phis)
    BY <1>1, <1>3 DEF PromotionInvariant, Walked
  <2>. QED
    BY <1>1, <2>1, WalkedIn
<1>. QED
  BY <1>1, <1>2, <1>3, TreeStays DEF PromotionInvariant

\* The phis of the next slot, none of which has a value yet.
LEMMA PhisInserted ==
  ASSUME NEW v, NEW b \in Blocks(g)
  PROVE  /\ DOMAIN phis[b] \subseteq DOMAIN InsertPhis(v)[b]
         /\ \A u \in DOMAIN InsertPhis(v)[b] :
              \/ InsertPhis(v)[b][u] = [i \in DOMAIN preds[b] |-> Undef]
              \/ u \in DOMAIN phis[b] /\ InsertPhis(v)[b][u] = phis[b][u]
<1>. DEFINE f == InsertPhis(v)[b]
            e == [i \in DOMAIN preds[b] |-> Undef]
            h == [u \in DOMAIN phis[b] \cup {v} |-> IF u = v THEN e ELSE phis[b][u]]
<1>1. f = h \/ f = phis[b]
  BY DEF InsertPhis
<1>. HIDE DEF e
<1>2. /\ DOMAIN h = {v} \cup DOMAIN phis[b]
      /\ \A u \in DOMAIN h : h[u] = IF u = v THEN e ELSE phis[b][u]
  OBVIOUS
<1>. HIDE DEF f, h
<1>3. /\ DOMAIN phis[b] \subseteq DOMAIN f
      /\ \A u \in DOMAIN f : f[u] = e \/ (u \in DOMAIN phis[b] /\ f[u] = phis[b][u])
  <2>1. CASE f = phis[b]
    BY <2>1
  <2>2. CASE f = h
    BY <1>2, <2>2
  <2>. QED
    BY <1>1, <2>1, <2>2
<1>. QED
  BY <1>3 DEF f, e

LEMMA InForceWithMore ==
  ASSUME IsGraph(g), NEW c, NEW ph1, NEW ph2, \A b \in Blocks(g) : DOMAIN ph1[b] \subseteq DOMAIN ph2[b],
         NEW b \in Reachable(g), NEW k, NEW x, InForce(c, ph1, x, b, k)
  PROVE  InForce(c, ph2, x, b, k)
<1>1. Dom(g, b) \subseteq Blocks(g)
  BY DomMembers
<1>2. x[1] = "phi" /\ x[2] \in Dom(g, b) /\ x[3] \in DOMAIN ph1[x[2]] => x[3] \in DOMAIN ph2[x[2]]
  BY <1>1
<1>3. \/ ~IsResult(x)
      \/ x[1] = "phi"  /\ x[2] \in Dom(g, b) /\ x[3] \in DOMAIN ph1[x[2]]
      \/ x[1] = "load" /\ \E d \in Dom(g, b) : \E j \in DOMAIN c[d] : c[d][j].res = x /\ (d = b => j < k)
  BY DEF InForce, DefinedAt, Dom
<1>4. \/ ~IsResult(x)
      \/ x[1] = "phi"  /\ x[2] \in Dom(g, b) /\ x[3] \in DOMAIN ph2[x[2]]
      \/ x[1] = "load" /\ \E d \in Dom(g, b) : \E j \in DOMAIN c[d] : c[d][j].res = x /\ (d = b => j < k)
  BY <1>2, <1>3
<1>. QED
  BY <1>4, InForceMembers

LEMMA UsesListed ==
  ASSUME NEW c, NEW ph, NEW d \in Blocks(g)
  PROVE  /\ \A k \in DOMAIN c[d] : IsResult(c[d][k].val) =>
              <<c[d][k].val, <<d, "instr", k>>>> \in UseLists(c, ph)
         /\ \A v \in DOMAIN ph[d] : \A i \in DOMAIN ph[d][v] : IsResult(ph[d][v][i]) =>
              <<ph[d][v][i], <<d, "phi", v>>>> \in UseLists(c, ph)
<1>. DEFINE instrs == UNION {{<<c[b][k].val, <<b, "instr", k>>>> : k \in DOMAIN c[b]} : b \in Blocks(g)}
            ofPhis(b) == UNION {{<<x, <<b, "phi", v>>>> : x \in Range(ph[b][v])} : v \in DOMAIN ph[b]}
            inPhis == UNION {ofPhis(b) : b \in Blocks(g)}
<1>1. UseLists(c, ph) = {u \in instrs \cup inPhis : IsResult(u[1])}
  BY DEF UseLists
<1>2. \A k \in DOMAIN c[d] : <<c[d][k].val, <<d, "instr", k>>>> \in instrs
  OBVIOUS
<1>3. \A v \in DOMAIN ph[d] : \A i \in DOMAIN ph[d][v] : <<ph[d][v][i], <<d, "phi", v>>>> \in inPhis
  <2>1. \A v \in DOMAIN ph[d] : \A i \in DOMAIN ph[d][v] : <<ph[d][v][i], <<d, "phi", v>>>> \in ofPhis(d)
    BY DEF Range
  <2>. HIDE DEF ofPhis
  <2>. QED
    BY <2>1
<1>. HIDE DEF instrs, inPhis
<1>4. \A x, y : <<x, y>>[1] = x
  OBVIOUS
<1>. QED
  BY <1>1, <1>2, <1>3, <1>4

LEMMA PromoteOnePromotes ==
  ASSUME PromotionInvariant, PromoteOne
  PROVE  PromotionInvariant'
<1>1. /\ g' = g /\ orig' = orig /\ preds' = preds /\ idom' = idom /\ code' = code
      /\ phis' = InsertPhis(slot') /\ uses' = UseLists(code, phis')
      /\ walk' = <<[blk |-> 0, cur |-> Undef]>>
      /\ pc = "analysed" /\ pc' = "rename"
  BY DEF PromoteOne, analysis
<1>2. OrigIsSSA /\ OrigIsSSA'
  BY <1>1, OrigStays DEF PromotionInvariant
<1>3. ASSUME TreeIsWhole
      PROVE  Walked'
  <2>1. TreeFound /\ IsGraph(g)
    BY <1>2, <1>3 DEF TreeFound, TreeIsWhole, OrigIsSSA
  <2>2. IsRest(code) /\ PhisFit(phis) /\ DefsDominate(code, phis)
    BY <1>1, <1>3 DEF PromotionInvariant, Rested
  <2>3. Reachable(g) \subseteq Blocks(g) /\ 0 \in Reachable(g)
    BY <2>1, TreeBlocks
  <2>4. PICK ph : ph = phis'
    OBVIOUS
  <2>5. ASSUME NEW b \in Blocks(g)
        PROVE  /\ DOMAIN phis[b] \subseteq DOMAIN ph[b]
               /\ \A v \in DOMAIN ph[b] :
                    \/ ph[b][v] = [i \in DOMAIN preds[b] |-> Undef]
                    \/ v \in DOMAIN phis[b] /\ ph[b][v] = phis[b][v]
    <3>1. PICK v : v = slot'
      OBVIOUS
    <3>2. ph = InsertPhis(v)
      BY <1>1, <2>4, <3>1
    <3>. QED
      BY <3>2, PhisInserted
  <2>6. PhisFit(ph)
    BY <2>2, <2>5 DEF PhisFit
  <2>7. DefsDominate(code, ph)
    <3>1. ASSUME NEW b \in Reachable(g), NEW k \in DOMAIN code[b]
          PROVE  InForce(code, ph, code[b][k].val, b, k)
      <4>. DEFINE x == code[b][k].val
      <4>1. InForce(code, phis, x, b, k)
        BY <2>1, <2>2, DefsDominateMembers
      <4>2. \A d \in Blocks(g) : DOMAIN phis[d] \subseteq DOMAIN ph[d]
        BY <2>5
      <4>. HIDE DEF x
      <4>3. InForce(code, ph, x, b, k)
        BY <2>1, <4>1, <4>2, InForceWithMore
      <4>. QED
        BY <4>3 DEF x
    <3>2. ASSUME NEW b \in Reachable(g), NEW v \in DOMAIN ph[b], NEW i \in DOMAIN preds[b],
                 preds[b][i] \in Reachable(g)
          PROVE  InForce(code, ph, ph[b][v][i], preds[b][i], Len(orig[preds[b][i]]) + 1)
      <4>1. CASE ph[b][v] = [j \in DOMAIN preds[b] |-> Undef]
        <5>1. ph[b][v][i] = Undef
          BY <4>1
        <5>2. ~IsResult(ph[b][v][i])
          BY <5>1 DEF IsResult, Undef
        <5>. QED
          BY <5>2 DEF InForce, DefinedAt
      <4>2. CASE v \in DOMAIN phis[b] /\ ph[b][v] = phis[b][v]
        <5>1. InForce(code, phis, phis[b][v][i], preds[b][i], Len(orig[preds[b][i]]) + 1)
          BY <2>1, <2>2, <3>2, <4>2, DefsDominateMembers
        <5>. QED
          BY <2>1, <2>5, <3>2, <4>2, <5>1, InForceWithMore
      <4>. QED
        BY <2>3, <2>5, <4>1, <4>2
    <3>. QED
      BY <2>1, <3>1, <3>2, DefsDominateMembers
  <2>8. IsRest(code)' /\ PhisFit(phis)' /\ DefsDominate(code, phis)'
    BY <1>1, <2>2, <2>4, <2>6, <2>7 DEF IsRest, PhisFit, DefsDominate
  <2>9. ASSUME NEW x, IsSlotResult(code, x)'
        PROVE  x[1] = "load"
    <3>0. PICK d \in Reachable(g) : \E j \in DOMAIN code[d] : code[d][j].op = "load" /\ code[d][j].res = x
      BY <1>1, <2>9 DEF IsSlotResult, IsSlotLoad, OnSlot
    <3>1. PICK j \in DOMAIN code[d] : code[d][j].op = "load" /\ code[d][j].res = x
      BY <3>0
    <3>2. d \in Blocks(g) /\ j \in DOMAIN orig[d] /\ orig[d][j].op = "load" /\ orig[d][j].res = x
      BY <2>2, <2>3, <3>1 DEF IsRest
    <3>. QED
      BY <1>2, <3>2, SSAFacts
  <2>10. AllListed(code, phis)'
    <3>1. ASSUME NEW d \in Blocks(g)
          PROVE  /\ \A k \in DOMAIN code[d] : IsResult(code[d][k].val) =>
                      <<code[d][k].val, <<d, "instr", k>>>> \in UseLists(code, ph)
                 /\ \A v \in DOMAIN ph[d] : \A i \in DOMAIN ph[d][v] : IsResult(ph[d][v][i]) =>
                      <<ph[d][v][i], <<d, "phi", v>>>> \in UseLists(code, ph)
      BY UsesListed
    <3>2. uses' = UseLists(code, ph)
      BY <1>1, <2>4
    <3>3. \A x : IsSlotResult(code, x)' => IsResult(x)
      BY <2>9 DEF IsResult
    <3>. QED
      BY <1>1, <2>4, <3>1, <3>2, <3>3 DEF AllListed
  <2>11. WalkFits(walk, code, phis)'
    <3>. DEFINE w == <<[blk |-> 0, cur |-> Undef]>>
    <3>1. /\ walk' = w /\ Len(w) = 1 /\ w[1].blk = 0 /\ w[1].cur = Undef
          /\ w \in Seq([blk : {0}, cur : {Undef}])
      BY <1>1
    <3>. HIDE DEF w
    <3>2. \A i \in 1 .. Len(w) : i = 1
      BY <3>1
    <3>3. ~IsResult(Undef) /\ Undef[1] # "load"
      BY DEF IsResult, Undef
    <3>4. InForce(code, phis, Undef, 0, 1)'
      BY <3>3 DEF InForce, DefinedAt
    <3>5. ~IsSlotResult(code, Undef)'
      BY <2>9, <3>3
    <3>6. \A d \in Reachable(g) : 0 \in Dom(g, d)
      BY <2>1, DomMembers
    <3>7. \A d, j : ~(IsSlotLoad(code, d, j)' /\ Passed(walk, d)')
      BY <1>1, <3>1, <3>2, <3>6 DEF IsSlotLoad, Passed
    <3>. QED
      BY <1>1, <2>3, <3>1, <3>2, <3>4, <3>5, <3>7 DEF WalkFits
  <2>. QED
    BY <2>8, <2>10, <2>11 DEF Walked, Promoting
<1>. QED
  BY <1>1, <1>2, <1>3, TreeStays DEF PromotionInvariant

LEMMA RemoveDeadPromotes ==
  ASSUME PromotionInvariant, RemoveDead
  PROVE  PromotionInvariant'
<1>. DEFINE results == {i.res : i \in UNION {Loads(b) : b \in Blocks(g)}}
            left == redirect_instrs(code, results, Undef)
            c2 == [b \in Blocks(g) |->
                     [k \in {j \in DOMAIN code[b] : ~(code[b][j].op \in {"load", "store"} /\ code[b][j].var = slot)} |->
                        left[b][k]]]
            ph2 == redirect_phis(phis, results, Undef)
<1>1. /\ g' = g /\ orig' = orig /\ preds' = preds /\ idom' = idom
      /\ code' = c2 /\ phis' = ph2
      /\ pc = "remove" /\ pc' = "analysed"
  BY DEF RemoveDead, analysis
<1>2. OrigIsSSA /\ OrigIsSSA'
  BY <1>1, OrigStays DEF PromotionInvariant
<1>3. ASSUME TreeIsWhole
      PROVE  IsRest(c2) /\ PhisFit(ph2) /\ DefsDominate(c2, ph2)
  <2>1. Promoting(code, phis) /\ WalkFits(walk, code, phis) /\ walk = << >>
    BY <1>1, <1>3 DEF PromotionInvariant, Walked
  <2>2. IsRest(code) /\ PhisFit(phis) /\ DefsDominate(code, phis)
    BY <2>1 DEF Promoting
  <2>3. IsGraph(g) /\ Reachable(g) \subseteq Blocks(g)
    BY <1>2, DomMembers DEF OrigIsSSA
  <2>4. IsRedirect(code, phis, results, Undef, left, ph2)
    <3>. HIDE DEF results
    <3>. QED
      BY RedirectMembers
  <2>5. ASSUME NEW b \in Blocks(g)
        PROVE  /\ DOMAIN c2[b] = {j \in DOMAIN code[b] : ~(code[b][j].op \in {"load", "store"} /\ code[b][j].var = slot)}
               /\ \A k \in DOMAIN c2[b] : c2[b][k] = left[b][k]
    <3>. HIDE DEF left
    <3>. QED
      OBVIOUS
  <2>. HIDE DEF results, left, c2, ph2
  <2>6. ASSUME NEW b \in Blocks(g), NEW k \in DOMAIN c2[b]
        PROVE  /\ k \in DOMAIN code[b] /\ k \in DOMAIN orig[b]
               /\ c2[b][k].op = orig[b][k].op /\ c2[b][k].var = orig[b][k].var /\ c2[b][k].res = orig[b][k].res
               /\ c2[b][k].res = code[b][k].res
               /\ c2[b][k].val \in {code[b][k].val, Undef}
    <3>1. k \in DOMAIN code[b] /\ c2[b][k] = left[b][k]
      BY <2>5
    <3>2. /\ left[b][k].op = code[b][k].op /\ left[b][k].var = code[b][k].var /\ left[b][k].res = code[b][k].res
          /\ left[b][k].val \in {code[b][k].val, Undef}
      BY <2>4, <3>1 DEF IsRedirect, SameShape, Redirected
    <3>. QED
      BY <2>2, <3>1, <3>2 DEF IsRest
  <2>7. ASSUME NEW b \in Blocks(g)
        PROVE  /\ DOMAIN ph2[b] = DOMAIN phis[b]
               /\ \A v \in DOMAIN phis[b] :
                    /\ DOMAIN ph2[b][v] = DOMAIN phis[b][v]
                    /\ \A i \in DOMAIN phis[b][v] : ph2[b][v][i] \in {phis[b][v][i], Undef}
    BY <2>4 DEF IsRedirect, SameShape, Redirected
  <2>8. IsRest(c2)
    BY <2>6 DEF IsRest
  <2>9. PhisFit(ph2)
    BY <2>2, <2>7 DEF PhisFit
  <2>10. ASSUME NEW d, NEW j, IsSlotLoad(code, d, j)
         PROVE  Unused(code, phis, code[d][j].res)
    <3>1. \A e : Passed(walk, e)
      BY <2>1 DEF Passed
    <3>. QED
      BY <2>1, <2>10, <3>1 DEF WalkFits
  <2>11. ASSUME NEW x, NEW b \in Reachable(g), NEW k, InForce(code, phis, x, b, k), ~Unused(code, phis, x)
         PROVE  InForce(c2, ph2, x, b, k)
    <3>1. Dom(g, b) \subseteq Reachable(g)
      BY <2>3, DomUp
    <3>2. CASE x[1] = "phi" /\ x[2] \in Dom(g, b) /\ x[3] \in DOMAIN phis[x[2]]
      <4>1. x[3] \in DOMAIN ph2[x[2]]
        BY <2>3, <2>7, <3>1, <3>2
      <4>. QED
        BY <2>3, <3>2, <4>1, InForceMembers
    <3>3. CASE x[1] = "load" /\ \E d \in Dom(g, b) : \E j \in DOMAIN code[d] : code[d][j].res = x /\ (d = b => j < k)
      <4>1. PICK d \in Dom(g, b) : \E j \in DOMAIN code[d] : code[d][j].res = x /\ (d = b => j < k)
        BY <3>3
      <4>2. PICK j \in DOMAIN code[d] : code[d][j].res = x /\ (d = b => j < k)
        BY <4>1
      <4>3. d \in Reachable(g) /\ d \in Blocks(g)
        BY <2>3, <3>1
      <4>4. code[d][j].op = "load"
        <5>1. j \in DOMAIN orig[d] /\ orig[d][j].op = code[d][j].op /\ orig[d][j].res[1] = "load"
          BY <2>2, <3>3, <4>2, <4>3 DEF IsRest
        <5>. QED
          BY <1>2, <4>3, <5>1, SSAFacts
      <4>5. code[d][j].var # slot
        BY <2>10, <2>11, <4>2, <4>3, <4>4 DEF IsSlotLoad, OnSlot
      <4>6. j \in DOMAIN c2[d]
        BY <2>5, <4>3, <4>5
      <4>7. c2[d][j].res = x
        BY <2>6, <4>2, <4>3, <4>6
      <4>. QED
        BY <2>3, <3>3, <4>2, <4>6, <4>7, InForceMembers
    <3>4. CASE ~IsResult(x)
      BY <3>4 DEF InForce, DefinedAt
    <3>5. \/ ~IsResult(x)
          \/ x[1] = "phi"  /\ x[2] \in Dom(g, b) /\ x[3] \in DOMAIN phis[x[2]]
          \/ x[1] = "load" /\ \E d \in Dom(g, b) : \E j \in DOMAIN code[d] : code[d][j].res = x /\ (d = b => j < k)
      BY <2>11 DEF InForce, DefinedAt, Dom
    <3>. QED
      BY <3>2, <3>3, <3>4, <3>5
  <2>12. \A b, k : InForce(c2, ph2, Undef, b, k)
    BY DEF InForce, DefinedAt, IsResult, Undef
  <2>13. ASSUME NEW b \in Reachable(g), NEW k \in DOMAIN c2[b]
         PROVE  InForce(c2, ph2, c2[b][k].val, b, k)
    <3>. DEFINE x == code[b][k].val
    <3>1. b \in Blocks(g) /\ k \in DOMAIN code[b] /\ c2[b][k].val \in {x, Undef}
      BY <2>3, <2>6
    <3>2. InForce(code, phis, x, b, k) /\ ~Unused(code, phis, x)
      BY <2>2, <2>3, <3>1, DefsDominateMembers DEF Unused
    <3>. HIDE DEF x
    <3>3. InForce(c2, ph2, x, b, k)
      BY <2>11, <3>2
    <3>. QED
      BY <2>12, <3>1, <3>3
  <2>14. ASSUME NEW b \in Reachable(g), NEW v \in DOMAIN ph2[b], NEW i \in DOMAIN preds[b],
                preds[b][i] \in Reachable(g)
         PROVE  InForce(c2, ph2, ph2[b][v][i], preds[b][i], Len(orig[preds[b][i]]) + 1)
    <3>. DEFINE x == phis[b][v][i]
                m == Len(orig[preds[b][i]]) + 1
    <3>1. /\ b \in Blocks(g) /\ v \in DOMAIN phis[b] /\ i \in DOMAIN phis[b][v]
          /\ ph2[b][v][i] \in {x, Undef}
      BY <2>2, <2>3, <2>7 DEF PhisFit
    <3>2. InForce(code, phis, x, preds[b][i], m)
      BY <2>2, <2>3, <2>14, <3>1, DefsDominateMembers
    <3>3. ~Unused(code, phis, x)
      BY <3>1 DEF Unused
    <3>. HIDE DEF x, m
    <3>4. InForce(c2, ph2, x, preds[b][i], m)
      BY <2>11, <2>14, <3>2, <3>3
    <3>. QED
      BY <2>12, <3>1, <3>4 DEF m
  <2>15. DefsDominate(c2, ph2)
    BY <2>3, <2>13, <2>14, DefsDominateMembers
  <2>. QED
    BY <2>8, <2>9, <2>15
<1>. HIDE DEF c2, ph2
<1>4. TreeIsWhole => Rested'
  BY <1>1, <1>3, RestedIn
<1>. QED
  BY <1>1, <1>2, <1>4, TreeStays DEF PromotionInvariant

LEMMA PromotionSteps == PromotionInvariant /\ [Next]_vars => PromotionInvariant'
<1>. SUFFICES ASSUME PromotionInvariant, [Next]_vars
              PROVE  PromotionInvariant'
  OBVIOUS
<1>1. CASE AnalysisStep
  BY <1>1, AnalysisPromotes
<1>2. CASE PromoteOne
  BY <1>2, PromoteOnePromotes
<1>3. CASE RenameBlock
  BY <1>3, RenameBlockPromotes
<1>4. CASE RenameEnds
  BY <1>4, RenameEndsPromotes
<1>5. CASE RemoveDead
  BY <1>5, RemoveDeadPromotes
<1>6. ASSUME UNCHANGED <<analysis, renaming, orig>>, pc' = pc \/ pc' = "run"
      PROVE  PromotionInvariant'
  <2>1. /\ g' = g /\ orig' = orig /\ preds' = preds /\ idom' = idom /\ slot' = slot /\ uses' = uses
        /\ code' = code /\ phis' = phis /\ walk' = walk
    BY <1>6 DEF analysis, renaming
  <2>2. OrigIsSSA'
    BY <2>1, OrigStays DEF PromotionInvariant
  <2>3. Rested => Rested'
    BY <2>1, RestedIn DEF Rested
  <2>4. Walked => Walked'
    BY <2>1, WalkedIn DEF Walked
  <2>. QED
    BY <1>6, <2>1, <2>2, <2>3, <2>4, TreeStays DEF PromotionInvariant
<1>7. CASE PromotionEnds
  BY <1>6, <1>7 DEF PromotionEnds
<1>8. CASE RunBlock
  BY <1>6, <1>8 DEF RunBlock
<1>9. CASE UNCHANGED vars
  BY <1>6, <1>9 DEF vars
<1>. QED
  BY <1>1, <1>2, <1>3, <1>4, <1>5, <1>7, <1>8, <1>9 DEF Next, Finished

\* Where the analysis found the dominator tree of the whole function, every
\* use of a value is below its definition.
THEOREM Promotion == Spec => []PromotionInvariant
BY PromotionStart, PromotionSteps, PTL DEF Spec

\* ir_opt_mem2reg_rename.c: whatever slots are promoted, and in functions with
\* loops too, a result is used only where its definition is in force, if the
\* analysis has found the dominator tree and the walk has room for it.
THEOREM DefinitionsStayAbove == Spec => [](TreeIsWhole => DefinitionsDominateUses)
<1>1. PromotionInvariant => (TreeIsWhole => DefinitionsDominateUses)
  BY DEF PromotionInvariant, Rested, DefinitionsDominateUses
<1>. QED
  BY <1>1, Promotion, PTL

LEMMA LoadsAreUnused ==
  ASSUME PromotionInvariant, TreeIsWhole
  PROVE  OnlyUnreachableLoadsAreUndefined
<1>. SUFFICES ASSUME pc = "remove", NEW b \in Reachable(g), NEW i \in Loads(b)
              PROVE  /\ \A d \in Blocks(g) : \A k \in DOMAIN code[d] : code[d][k].val # i.res
                     /\ \A d \in Blocks(g) : \A v \in DOMAIN phis[d] : i.res \notin Range(phis[d][v])
  BY DEF OnlyUnreachableLoadsAreUndefined
<1>1. WalkFits(walk, code, phis) /\ walk = << >>
  BY DEF PromotionInvariant, Walked
<1>2. i \in Range(code[b]) /\ i.op = "load" /\ i.var = slot
  BY DEF Loads
<1>3. PICK k \in DOMAIN code[b] : code[b][k] = i
  BY <1>2 DEF Range
<1>4. IsSlotLoad(code, b, k)
  BY <1>2, <1>3 DEF IsSlotLoad, OnSlot
<1>5. Passed(walk, b)
  BY <1>1 DEF Passed
<1>6. Unused(code, phis, i.res)
  BY <1>1, <1>3, <1>4, <1>5 DEF WalkFits
<1>. QED
  BY <1>6 DEF Unused, Range

\* remove_dead: what it makes undefined no reachable block has loaded, under
\* the same conditions.
THEOREM LoadsAreReplaced == Spec => [](TreeIsWhole => OnlyUnreachableLoadsAreUndefined)
<1>1. PromotionInvariant => (TreeIsWhole => OnlyUnreachableLoadsAreUndefined)
  BY LoadsAreUnused
<1>. QED
  BY <1>1, Promotion, PTL

(***************************************************************************)
(* Sets that grow a step at a time, within a finite set.                   *)
(***************************************************************************)
LEMMA GrowthStops ==
  ASSUME NEW U, IsFiniteSet(U), NEW n \in Nat, Cardinality(U) <= n,
         NEW r, \A k \in 0 .. n + 1 : r[k] \subseteq U,
         \A k \in 1 .. n + 1 : r[k - 1] \subseteq r[k],
         \A k \in 1 .. n : r[k] = r[k - 1] => r[k + 1] = r[k]
  PROVE  r[n + 1] = r[n]
<1>. DEFINE S == {k \in 0 .. n : r[k + 1] = r[k] \/ Cardinality(r[k]) >= k}
<1>1. \A k \in 0 .. n + 1 : IsFiniteSet(r[k]) /\ Cardinality(r[k]) \in Nat
  BY FS_Subset, FS_CardinalityType
<1>2. 0 \in S
  BY <1>1
<1>3. ASSUME NEW k \in 1 .. n, k - 1 \in S
      PROVE  k \in S
  <2>1. k \in 1 .. n + 1 /\ k - 1 \in 0 .. n + 1 /\ k \in 0 .. n + 1 /\ k \in 0 .. n /\ (k - 1) + 1 = k
    OBVIOUS
  <2>2. CASE r[k] = r[k - 1]
    BY <2>1, <2>2
  <2>3. CASE r[k] # r[k - 1]
    <3>1. r[k - 1] \subseteq r[k]
      BY <2>1
    <3>2. Cardinality(r[k - 1]) < Cardinality(r[k])
      <4>1. IsFiniteSet(r[k])
        BY <1>1, <2>1
      <4>2. Cardinality(r[k - 1]) <= Cardinality(r[k]) /\ (Cardinality(r[k - 1]) = Cardinality(r[k]) => r[k - 1] = r[k])
        BY <3>1, <4>1, FS_Subset
      <4>3. Cardinality(r[k - 1]) \in Nat /\ Cardinality(r[k]) \in Nat
        BY <1>1, <2>1
      <4>. QED
        BY <2>3, <4>2, <4>3
    <3>3. Cardinality(r[k - 1]) >= k - 1
      BY <1>3, <2>1, <2>3
    <3>4. Cardinality(r[k - 1]) \in Nat /\ Cardinality(r[k]) \in Nat
      BY <1>1, <2>1
    <3>5. Cardinality(r[k]) >= k
      BY <3>2, <3>3, <3>4
    <3>. QED
      BY <2>1, <3>5
  <2>. QED
    BY <2>2, <2>3
<1>4. n \in S
  <2>. HIDE DEF S
  <2>1. 0 .. n \subseteq S
    BY <1>2, <1>3, UpTo
  <2>. QED
    BY <2>1
<1>5. CASE Cardinality(r[n]) >= n
  <2>1. r[n] \subseteq U /\ r[n + 1] \subseteq U /\ r[n] \subseteq r[n + 1]
    <3>1. n \in 0 .. n + 1 /\ n + 1 \in 0 .. n + 1 /\ n + 1 \in 1 .. n + 1 /\ (n + 1) - 1 = n
      OBVIOUS
    <3>. QED
      BY <3>1
  <2>2. Cardinality(r[n]) <= Cardinality(U) /\ (Cardinality(r[n]) = Cardinality(U) => r[n] = U)
    BY <2>1, FS_Subset
  <2>3. Cardinality(r[n]) \in Nat /\ Cardinality(U) \in Nat
    BY <1>1, FS_CardinalityType
  <2>4. r[n] = U
    BY <1>5, <2>2, <2>3
  <2>. QED
    BY <2>1, <2>4
<1>. QED
  BY <1>4, <1>5

LEMMA GrowthCloses ==
  ASSUME NEW U, IsFiniteSet(U), NEW n \in Nat, Cardinality(U) <= n,
         NEW step \in [SUBSET U -> SUBSET U], \A S \in SUBSET U : S \subseteq step[S],
         NEW r \in [0 .. n -> SUBSET U], \A k \in 1 .. n : r[k] = step[r[k - 1]]
  PROVE  step[r[n]] = r[n]
<1>. DEFINE t == [k \in 0 .. n + 1 |-> IF k = n + 1 THEN step[r[n]] ELSE r[k]]
<1>1. \A k \in 0 .. n : k \in 0 .. n + 1 /\ t[k] = r[k] /\ t[k] \subseteq U
  OBVIOUS
<1>2. n \in 0 .. n /\ n + 1 \in 0 .. n + 1 /\ t[n + 1] = step[r[n]] /\ t[n + 1] \subseteq U
  <2>1. n \in 0 .. n /\ n + 1 \in 0 .. n + 1
    OBVIOUS
  <2>2. r[n] \in SUBSET U
    BY <2>1
  <2>. QED
    BY <2>1, <2>2
<1>. HIDE DEF t
<1>3. \A k \in 0 .. n + 1 : t[k] \subseteq U
  <2>1. \A k \in 0 .. n + 1 : k \in 0 .. n \/ k = n + 1
    OBVIOUS
  <2>. QED
    BY <1>1, <1>2, <2>1
<1>4. ASSUME NEW k \in 1 .. n + 1
      PROVE  t[k] = step[t[k - 1]]
  <2>1. k - 1 \in 0 .. n /\ t[k - 1] = r[k - 1]
    BY <1>1
  <2>2. CASE k = n + 1
    BY <1>2, <2>1, <2>2
  <2>3. CASE k # n + 1
    <3>1. k \in 1 .. n /\ k \in 0 .. n
      BY <2>3
    <3>. QED
      BY <1>1, <2>1, <3>1
  <2>. QED
    BY <2>2, <2>3
<1>5. \A k \in 1 .. n + 1 : t[k - 1] \subseteq t[k]
  <2>1. \A k \in 1 .. n + 1 : k - 1 \in 0 .. n + 1
    OBVIOUS
  <2>. QED
    BY <1>3, <1>4, <2>1
<1>6. \A k \in 1 .. n : t[k] = t[k - 1] => t[k + 1] = t[k]
  <2>1. \A k \in 1 .. n : k \in 1 .. n + 1 /\ k + 1 \in 1 .. n + 1 /\ (k + 1) - 1 = k
    OBVIOUS
  <2>. QED
    BY <1>4, <2>1
<1>7. t[n + 1] = t[n]
  BY <1>3, <1>5, <1>6, GrowthStops
<1>. QED
  BY <1>1, <1>2, <1>7

LEMMA BlocksAreFinite ==
  ASSUME NEW h, IsGraph(h)
  PROVE  h.n \in Nat /\ IsFiniteSet(Blocks(h)) /\ Cardinality(Blocks(h)) <= h.n
<1>. DEFINE n == h.n
<1>1. n \in Nat \ {0}
  BY DEF IsGraph
<1>. HIDE DEF n
<1>2. 0 \in Int /\ n - 1 \in Int /\ ~(0 > n - 1) /\ (n - 1) - 0 + 1 = n
  BY <1>1
<1>3. IsFiniteSet(0 .. n - 1) /\ Cardinality(0 .. n - 1) = n
  BY <1>2, FS_Interval
<1>. QED
  BY <1>1, <1>3 DEF Blocks, n

Step(V, step) == step \in [V -> V]
IsIteration(V, v, n, step, r) == r \in [0 .. n -> V] /\ r[0] = v /\ \A k \in 1 .. n : r[k] = step[r[k - 1]]
Iterates(V, v, n, step, f) ==
  f = [k \in 0 .. n |-> f[k]] /\ f[0] = v /\ \A k \in 1 .. n : f[k - 1] \in V => f[k] = step[f[k - 1]]

LEMMA IterateExists ==
  ASSUME NEW V, NEW v \in V, NEW n \in Nat, NEW step, Step(V, step)
  PROVE  \E r : IsIteration(V, v, n, step, r)
<1>. DEFINE turn == [k \in 1 .. n |-> step]
<1>1. Turns(V, n, turn)
  BY DEF Turns, Step
<1>2. \A k \in 1 .. n : turn[k] = step
  OBVIOUS
<1>. HIDE DEF turn
<1>3. PICK r : IsRun(V, v, n, turn, r)
  BY <1>1, RunExists
<1>. QED
  BY <1>2, <1>3 DEF IsRun, IsIteration

LEMMA IterateTypes ==
  ASSUME NEW V, NEW v \in V, NEW n \in Nat, NEW step, Step(V, step), NEW f, Iterates(V, v, n, step, f)
  PROVE  IsIteration(V, v, n, step, f)
<1>. DEFINE S == {k \in 0 .. n : f[k] \in V}
<1>1. 0 \in S
  BY DEF Iterates
<1>2. ASSUME NEW k \in 1 .. n, k - 1 \in S
      PROVE  k \in S
  <2>1. f[k - 1] \in V /\ k \in 0 .. n
    BY <1>2
  <2>2. f[k] = step[f[k - 1]]
    BY <2>1 DEF Iterates
  <2>. QED
    BY <2>1, <2>2 DEF Step
<1>3. 0 .. n \subseteq S
  <2>. HIDE DEF S
  <2>. QED
    BY <1>1, <1>2, UpTo
<1>4. \A k \in 0 .. n : f[k] \in V
  BY <1>3
<1>5. \A k \in 1 .. n : k - 1 \in 0 .. n
  OBVIOUS
<1>. QED
  BY <1>4, <1>5 DEF IsIteration, Iterates

\* What is reached without a is closed under the edges to others.
LEMMA AvoidingCloses ==
  ASSUME NEW h, IsGraph(h), NEW a, NEW p \in ReachAvoiding(h, a), NEW b \in Succs(h, p), b # a
  PROVE  b \in ReachAvoiding(h, a)
<1>. DEFINE n == h.n
            U == Blocks(h)
            more(S) == {x \in U : x \in S \/ (x # a /\ \E q \in S : x \in Succs(h, q))}
            step == [S \in SUBSET U |-> more(S)]
<1>1. n \in Nat /\ IsFiniteSet(U) /\ Cardinality(U) <= n
  BY BlocksAreFinite
<1>2. PICK r \in [0 .. n -> SUBSET U] :
             /\ r[0] = {0} \ {a}
             /\ \A k \in 1 .. n : \A x :
                  x \in r[k] <=> x \in r[k - 1] \/ (x # a /\ \E q \in r[k - 1] : x \in Succs(h, q))
             /\ ReachAvoiding(h, a) = r[n]
  BY ReachUnfolds
<1>3. \A S \in SUBSET U : more(S) \in SUBSET U /\ S \subseteq more(S)
  OBVIOUS
<1>4. ASSUME NEW k \in 1 .. n
      PROVE  r[k] = step[r[k - 1]]
  <2>1. k - 1 \in 0 .. n /\ k \in 0 .. n
    BY <1>1
  <2>2. r[k - 1] \in SUBSET U /\ r[k] \in SUBSET U
    BY <2>1
  <2>3. r[k] = more(r[k - 1])
    BY <1>2, <2>2
  <2>. QED
    BY <2>2, <2>3
<1>5. step \in [SUBSET U -> SUBSET U] /\ \A S \in SUBSET U : S \subseteq step[S] /\ step[S] = more(S)
  <2>. HIDE DEF more
  <2>. QED
    BY <1>3
<1>6. step[r[n]] = r[n]
  <2>1. r \in [0 .. n -> SUBSET U]
    BY <1>2
  <2>2. \A S \in SUBSET U : S \subseteq step[S]
    BY <1>5
  <2>3. step \in [SUBSET U -> SUBSET U]
    BY <1>5
  <2>. HIDE DEF step, U, n, more
  <2>. QED
    BY <1>1, <1>4, <2>1, <2>2, <2>3, GrowthCloses
<1>7. p \in U /\ p \in r[n] /\ r[n] \in SUBSET U
  BY <1>1, <1>2
<1>8. b \in U
  BY <1>7, SuccTypes
<1>9. b \in more(r[n])
  BY <1>7, <1>8
<1>. QED
  BY <1>2, <1>5, <1>6, <1>7, <1>9

LEMMA EdgeReaches ==
  ASSUME NEW h, IsGraph(h), NEW p \in Reachable(h), NEW b \in Succs(h, p)
  PROVE  b \in Reachable(h)
<1>1. b \in Blocks(h)
  BY DomMembers, SuccTypes
<1>2. b # -1
  BY <1>1 DEF Blocks, IsGraph
<1>. QED
  BY <1>2, AvoidingCloses DEF Reachable

\* What strictly dominates a block dominates its predecessors.
LEMMA DomPreds ==
  ASSUME NEW h, IsGraph(h), NEW p \in Reachable(h), NEW b \in Succs(h, p), NEW a \in Dom(h, b), a # b
  PROVE  a \in Dom(h, p)
<1>1. b \in Reachable(h)
  BY EdgeReaches
<1>2. a \in Blocks(h) /\ b \notin ReachAvoiding(h, a)
  BY <1>1, DomMembers
<1>3. p \notin ReachAvoiding(h, a)
  BY <1>2, AvoidingCloses
<1>. QED
  BY <1>2, <1>3, DomMembers

(***************************************************************************)
(* What stands for the values of the original program.                     *)
(*                                                                         *)
(* rep gives for each value what has taken its place, ent for each slot    *)
(* and block the value that the slot would have where the block begins.    *)
(***************************************************************************)
End(b) == Len(orig[b]) + 1

\* The original program stores into v in block b with instruction j.
StoresAt(b, v, j) == j \in DOMAIN orig[b] /\ orig[b][j].op = "store" /\ orig[b][j].var = v

\* x stands for what slot v has before the k-th instruction of block b.
IsContent(rep, ent, b, v, k, x) ==
  \/ x = ent[v][b] /\ \A j : StoresAt(b, v, j) => ~(j < k)
  \/ \E j : /\ StoresAt(b, v, j) /\ j < k /\ x = rep[orig[b][j].val]
            /\ \A i : StoresAt(b, v, i) /\ i < k => i <= j

Stands(c, rep) ==
  /\ \A x \in DOMAIN rep : ~IsResult(x) => rep[x] = x
  /\ \A b \in Blocks(g) : \A k \in DOMAIN orig[b] : {orig[b][k].val, orig[b][k].res} \subseteq DOMAIN rep
  /\ \A b \in Reachable(g) : \A k \in DOMAIN c[b] : c[b][k].val = rep[orig[b][k].val]

\* What mentions the slots of D is gone, and nothing else.
Gone(c, D) ==
  /\ D \subseteq Slots
  /\ \A b \in Blocks(g) : \A k \in DOMAIN orig[b] :
       /\ k \notin DOMAIN c[b] <=> orig[b][k].op \in {"load", "store"} /\ orig[b][k].var \in D
       /\ orig[b][k].op = "call" => orig[b][k].var \notin D

\* The loads of L are replaced by what the slot had, the others stand for themselves.
LoadsStand(c, ph, L, rep, ent) ==
  \A b \in Reachable(g) : \A k \in DOMAIN orig[b] : orig[b][k].op = "load" =>
    IF <<b, k>> \in L
    THEN /\ IsContent(rep, ent, b, orig[b][k].var, k, rep[orig[b][k].res])
         /\ InForce(c, ph, rep[orig[b][k].res], b, k)
    ELSE rep[orig[b][k].res] = orig[b][k].res

\* Where slot v is known on entry to block b, it is the phi of the slot or none
\* of the block.
EntersStand(c, ph, Q, ent) ==
  \A v \in Slots : \A b \in Q[v] :
    /\ b \in Reachable(g)
    /\ InForce(c, ph, ent[v][b], b, 1)
    /\ v \in DOMAIN ph[b] => ent[v][b] = Phi(b, v)
    /\ v \notin DOMAIN ph[b] => \A u : ent[v][b] # Phi(b, u)

\* A phi takes from a predecessor what the slot has at its end.
PhisStand(ph, Q, rep, ent) ==
  \A v \in Slots : \A p \in Q[v] : \A b \in Succs(g, p) :
    v \in DOMAIN ph[b] =>
      \A i \in DOMAIN preds[b] : preds[b][i] = p => IsContent(rep, ent, p, v, End(p), ph[b][v][i])

\* Without a phi every predecessor ends with the same.
JoinsStand(ph, D, rep, ent) ==
  \A v \in D : \A p \in Reachable(g) : \A b \in Succs(g, p) :
    v \notin DOMAIN ph[b] => IsContent(rep, ent, p, v, End(p), ent[v][b])

\* Nothing stands for the loads of the slot that have been replaced.
LoadsGone(c, L, Q, rep, ent) ==
  \A d \in Reachable(g) : \A j : <<d, j>> \in L /\ OnSlot(c, d, j, "load") =>
    /\ \A x \in DOMAIN rep : rep[x] # c[d][j].res
    /\ \A v \in Slots : \A b \in Q[v] : ent[v][b] # c[d][j].res

\* The slot that is being renamed is known on entry to the blocks of E.
EntriesDown(ph, E, rep, ent) ==
  \A b \in E : slot \notin DOMAIN ph[b] =>
    IF b = 0 THEN ent[slot][b] = Undef
    ELSE idom[b] \in E /\ IsContent(rep, ent, idom[b], slot, End(idom[b]), ent[slot][b])

\* Where the slots are known: those of D everywhere, the one being renamed in B.
Known(D, B) == [v \in Slots |-> IF v \in D THEN Reachable(g) ELSE IF v = slot THEN B ELSE {}]

\* The program c stands for the original one, with the slots of D promoted and
\* another one renamed: on entry to the blocks of E, up to the phis of the
\* successors of those of P, in the loads of L.
Represents(c, ph, D, P, E, L, rep, ent) ==
  /\ Stands(c, rep) /\ Gone(c, D)
  /\ LoadsStand(c, ph, L, rep, ent)
  /\ EntersStand(c, ph, Known(D, E), ent)
  /\ PhisStand(ph, Known(D, P), rep, ent)
  /\ JoinsStand(ph, D, rep, ent)
  /\ LoadsGone(c, L, Known(D, E), rep, ent)
  /\ EntriesDown(ph, E, rep, ent)

(***************************************************************************)
(* The content of a slot.                                                  *)
(***************************************************************************)
LEMMA StoreNumbers ==
  ASSUME OrigIsSSA, NEW b \in Blocks(g), NEW v, NEW j, StoresAt(b, v, j)
  PROVE  j \in 1 .. Len(orig[b]) /\ Len(orig[b]) \in Nat /\ j \in Nat
BY SSAFacts DEF StoresAt

LEMMA ContentUnique ==
  ASSUME OrigIsSSA, NEW b \in Blocks(g), NEW rep, NEW ent, NEW v, NEW k, NEW x, NEW y,
         IsContent(rep, ent, b, v, k, x), IsContent(rep, ent, b, v, k, y)
  PROVE  x = y
<1>1. CASE \A j : StoresAt(b, v, j) => ~(j < k)
  BY <1>1 DEF IsContent
<1>2. CASE ~ \A j : StoresAt(b, v, j) => ~(j < k)
  <2>1. PICK i : /\ StoresAt(b, v, i) /\ i < k /\ x = rep[orig[b][i].val]
                 /\ \A h : StoresAt(b, v, h) /\ h < k => h <= i
    BY <1>2 DEF IsContent
  <2>2. PICK j : /\ StoresAt(b, v, j) /\ j < k /\ y = rep[orig[b][j].val]
                 /\ \A h : StoresAt(b, v, h) /\ h < k => h <= j
    BY <1>2 DEF IsContent
  <2>3. i <= j /\ j <= i /\ i \in Nat /\ j \in Nat
    BY <2>1, <2>2, StoreNumbers
  <2>4. i = j
    BY <2>3
  <2>. QED
    BY <2>1, <2>2, <2>4
<1>. QED
  BY <1>1, <1>2

\* The next instruction changes the content if it is a store into the slot.
LEMMA ContentNext ==
  ASSUME OrigIsSSA, NEW b \in Blocks(g), NEW rep, NEW ent, NEW v, NEW k \in Nat, NEW x,
         IF StoresAt(b, v, k) THEN x = rep[orig[b][k].val] ELSE IsContent(rep, ent, b, v, k, x)
  PROVE  IsContent(rep, ent, b, v, k + 1, x)
<1>1. \A j : StoresAt(b, v, j) => j \in Nat
  BY StoreNumbers
<1>2. \A j \in Nat : j < k + 1 <=> j < k \/ j = k
  OBVIOUS
<1>3. CASE StoresAt(b, v, k)
  <2>1. \A i : StoresAt(b, v, i) /\ i < k + 1 => i <= k
    BY <1>1
  <2>2. x = rep[orig[b][k].val] /\ k < k + 1
    BY <1>3
  <2>. QED
    BY <1>3, <2>1, <2>2 DEF IsContent
<1>4. CASE ~ StoresAt(b, v, k)
  <2>1. \A j : StoresAt(b, v, j) => (j < k + 1 <=> j < k)
    BY <1>1, <1>2, <1>4
  <2>2. IsContent(rep, ent, b, v, k, x)
    BY <1>4
  <2>. QED
    BY <2>1, <2>2 DEF IsContent
<1>. QED
  BY <1>3, <1>4

LEMMA ContentFirst ==
  ASSUME OrigIsSSA, NEW b \in Blocks(g), NEW rep, NEW ent, NEW v
  PROVE  IsContent(rep, ent, b, v, 1, ent[v][b])
<1>1. \A j : StoresAt(b, v, j) => ~(j < 1)
  BY StoreNumbers
<1>. QED
  BY <1>1 DEF IsContent

\* With no store in the block the slot ends with what it began with.
LEMMA ContentThrough ==
  ASSUME OrigIsSSA, NEW b \in Blocks(g), NEW rep, NEW ent, NEW v, \A j : ~StoresAt(b, v, j), NEW k
  PROVE  IsContent(rep, ent, b, v, k, ent[v][b])
BY DEF IsContent

(***************************************************************************)
(* One load takes the value new.                                           *)
(***************************************************************************)
Put(y, old, new) == IF y = old THEN new ELSE y
PutRep(rep, old, new) == [x \in DOMAIN rep |-> Put(rep[x], old, new)]
PutEnt(ent, old, new) == [v \in Slots |-> [b \in Reachable(g) |-> Put(ent[v][b], old, new)]]

LEMMA ContentPut ==
  ASSUME OrigIsSSA, NEW c, NEW rep, Stands(c, rep), NEW ent, NEW b \in Reachable(g), NEW v \in Slots, NEW k, NEW x,
         IsContent(rep, ent, b, v, k, x), NEW old, NEW new
  PROVE  IsContent(PutRep(rep, old, new), PutEnt(ent, old, new), b, v, k, Put(x, old, new))
<1>0. b \in Blocks(g)
  BY DomMembers DEF OrigIsSSA
<1>1. PutEnt(ent, old, new)[v][b] = Put(ent[v][b], old, new)
  BY DEF PutEnt
<1>2. \A j : StoresAt(b, v, j) => PutRep(rep, old, new)[orig[b][j].val] = Put(rep[orig[b][j].val], old, new)
  BY <1>0 DEF PutRep, Stands, StoresAt
<1>3. CASE x = ent[v][b] /\ \A j : StoresAt(b, v, j) => ~(j < k)
  BY <1>1, <1>3 DEF IsContent
<1>4. ASSUME NEW j, StoresAt(b, v, j), j < k, x = rep[orig[b][j].val],
             \A i : StoresAt(b, v, i) /\ i < k => i <= j
      PROVE  IsContent(PutRep(rep, old, new), PutEnt(ent, old, new), b, v, k, Put(x, old, new))
  BY <1>2, <1>4 DEF IsContent
<1>. QED
  BY <1>3, <1>4 DEF IsContent

\* No value is in force before itself, nor a phi of a block that is further down.
LEMMA ForceFacts ==
  ASSUME OrigIsSSA, NEW c, NEW ph, IsRest(c), NEW d \in Reachable(g), NEW j \in Nat \ {0}, NEW b \in Reachable(g), NEW k \in Nat
  PROVE  /\ \A x, i : /\ i \in DOMAIN c[b] /\ c[b][i].op = "load" /\ c[b][i].res = x /\ InForce(c, ph, x, d, j)
                      => b \in Dom(g, d) /\ (b = d => i < j)
         /\ \A u : InForce(c, ph, Phi(d, u), b, k) => d \in Dom(g, b)
<1>1. ASSUME NEW x, NEW i, i \in DOMAIN c[b], c[b][i].op = "load", c[b][i].res = x, InForce(c, ph, x, d, j)
      PROVE  b \in Dom(g, d) /\ (b = d => i < j)
  <2>1. b \in Blocks(g) /\ d \in Blocks(g)
    BY DomMembers DEF OrigIsSSA
  <2>2. /\ i \in DOMAIN orig[b] /\ orig[b][i].op = "load" /\ orig[b][i].res = x
        /\ x[1] = "load"
    BY <1>1, <2>1, SSAFacts DEF IsRest
  <2>8. \/ ~IsResult(x)
        \/ x[1] = "phi"  /\ x[2] \in Dom(g, d) /\ x[3] \in DOMAIN ph[x[2]]
        \/ x[1] = "load" /\ \E e \in Dom(g, d) : \E h \in DOMAIN c[e] : c[e][h].res = x /\ (e = d => h < j)
    BY <1>1, InForceMembers DEF OrigIsSSA
  <2>9. IsResult(x) /\ x[1] # "phi"
    BY <2>2 DEF IsResult
  <2>3. PICK e \in Dom(g, d) : \E h \in DOMAIN c[e] : c[e][h].res = x /\ (e = d => h < j)
    BY <2>8, <2>9
  <2>4. PICK h \in DOMAIN c[e] : c[e][h].res = x /\ (e = d => h < j)
    BY <2>3
  <2>5. e \in Blocks(g)
    BY DomMembers DEF OrigIsSSA
  <2>6. h \in DOMAIN orig[e] /\ orig[e][h].res = x
    BY <2>4, <2>5 DEF IsRest
  <2>7. e = b /\ h = i
    BY <2>1, <2>2, <2>5, <2>6, SSAFacts
  <2>. QED
    BY <2>3, <2>4, <2>7
<1>2. ASSUME NEW u, InForce(c, ph, Phi(d, u), b, k)
      PROVE  d \in Dom(g, b)
  <2>1. Phi(d, u)[1] = "phi" /\ Phi(d, u)[2] = d
    BY DEF Phi
  <2>2. ASSUME NEW x, x[1] = "phi", x[2] = d, InForce(c, ph, x, b, k)
        PROVE  d \in Dom(g, b)
    BY <2>2 DEF InForce, DefinedAt, Dom, IsResult
  <2>. QED
    BY <1>2, <2>1, <2>2
<1>. QED
  BY <1>1, <1>2

\* Replacing a load of the slot by its content keeps the program one that
\* stands for the original.
LEMMA LoadStands ==
  ASSUME OrigIsSSA, NEW c, NEW ph, Promoting(c, ph), NEW b, NEW k, IsSlotLoad(c, b, k),
         NEW x, x = c[b][k].res, NEW new, InForce(c, ph, new, b, k), ~IsSlotResult(c, new),
         NEW c2, c2 = redirect_instrs(c, {x}, new), NEW ph2, ph2 = redirect_phis(ph, {x}, new),
         NEW D, slot \in Slots \ D, NEW P, NEW E, NEW L, NEW rep, NEW ent, P \subseteq Reachable(g),
         Represents(c, ph, D, P, E, L, rep, ent),
         <<b, k>> \notin L, IsContent(rep, ent, b, slot, k, new)
  PROVE  Represents(c2, ph2, D, P, E, L \cup {<<b, k>>}, PutRep(rep, x, new), PutEnt(ent, x, new))
<1>. DEFINE rep2 == PutRep(rep, x, new)
            ent2 == PutEnt(ent, x, new)
            M == L \cup {<<b, k>>}
<1>1. /\ SameShape(c, ph, c2, ph2)
      /\ \A d \in Blocks(g) :
           /\ \A j \in DOMAIN c[d] : c2[d][j].val = Put(c[d][j].val, x, new)
           /\ \A v \in DOMAIN ph[d] : \A i \in DOMAIN ph[d][v] : ph2[d][v][i] = Put(ph[d][v][i], x, new)
  <2>1. IsRedirect(c, ph, {x}, new, c2, ph2)
    BY RedirectMembers
  <2>2. IsSlotResult(c, x)
    BY SlotLoadFacts DEF Promoting
  <2>3. ASSUME NEW d \in Blocks(g), NEW j \in DOMAIN c[d]
        PROVE  c2[d][j].val = Put(c[d][j].val, x, new)
    <3>1. c[d][j].val = x => <<c[d][j].val, <<d, "instr", j>>>> \in uses
      BY <2>2 DEF Promoting, AllListed
    <3>2. c2[d][j].val = Redirected(c[d][j].val, <<d, "instr", j>>, {x}, new)
      BY <2>1 DEF IsRedirect
    <3>. QED
      BY <3>1, <3>2 DEF Redirected, Put
  <2>4. ASSUME NEW d \in Blocks(g), NEW v \in DOMAIN ph[d], NEW i \in DOMAIN ph[d][v]
        PROVE  ph2[d][v][i] = Put(ph[d][v][i], x, new)
    <3>1. ph[d][v][i] = x => <<ph[d][v][i], <<d, "phi", v>>>> \in uses
      BY <2>2 DEF Promoting, AllListed
    <3>2. ph2[d][v][i] = Redirected(ph[d][v][i], <<d, "phi", v>>, {x}, new)
      BY <2>1 DEF IsRedirect
    <3>. QED
      BY <3>1, <3>2 DEF Redirected, Put
  <2>. QED
    BY <2>1, <2>3, <2>4 DEF IsRedirect
<1>2. IsGraph(g) /\ IsRest(c) /\ PhisFit(ph) /\ Stands(c, rep) /\ Gone(c, D)
  BY DEF OrigIsSSA, Promoting, Represents
<1>3. \A d \in Reachable(g) : d \in Blocks(g) /\ DOMAIN c2[d] = DOMAIN c[d] /\ DOMAIN ph2[d] = DOMAIN ph[d]
  BY <1>1, <1>2, DomMembers DEF SameShape
<1>4. /\ b \in Reachable(g) /\ k \in DOMAIN c[b] /\ k \in DOMAIN orig[b] /\ k \in Nat \ {0}
      /\ c[b][k].op = "load" /\ c[b][k].var = slot /\ x[1] = "load"
      /\ orig[b][k].op = "load" /\ orig[b][k].var = slot /\ orig[b][k].res = x
  BY <1>2, SlotLoadFacts DEF IsRest
<1>5. IsSlotResult(c, x) /\ new # x /\ IsResult(x)
  BY <1>2, <1>4, SlotLoadFacts DEF IsResult
<1>6. \A y \in DOMAIN rep : rep2[y] = Put(rep[y], x, new)
  BY DEF PutRep
<1>7. \A v \in Slots : \A d \in Reachable(g) : ent2[v][d] = Put(ent[v][d], x, new)
  BY DEF PutEnt
<1>8. \A d \in Reachable(g), v \in Slots : \A j, y : IsContent(rep, ent, d, v, j, y) => IsContent(rep2, ent2, d, v, j, Put(y, x, new))
  BY <1>2, ContentPut
<1>9. DOMAIN rep2 = DOMAIN rep
  BY DEF PutRep
<1>10. ASSUME NEW y, NEW d \in Reachable(g), NEW j \in Nat, InForce(c, ph, y, d, j)
       PROVE  InForce(c2, ph2, Put(y, x, new), d, j)
  <2>1. y = x => InForce(c, ph, new, d, j)
    BY <1>2, <1>4, <1>10, InForceThrough
  <2>2. InForce(c, ph, Put(y, x, new), d, j)
    BY <1>10, <2>1 DEF Put
  <2>. QED
    BY <1>1, <1>2, <2>2, InForceKept
<1>. HIDE DEF rep2, ent2
<1>11. Stands(c2, rep2)
  <2>1. ASSUME NEW y \in DOMAIN rep, ~IsResult(y)
        PROVE  rep2[y] = y
    BY <1>2, <1>5, <1>6, <2>1 DEF Stands, Put
  <2>2. ASSUME NEW d \in Reachable(g), NEW j \in DOMAIN c[d]
        PROVE  c2[d][j].val = rep2[orig[d][j].val]
    <3>1. c[d][j].val = rep[orig[d][j].val] /\ orig[d][j].val \in DOMAIN rep
      BY <1>2, <1>3 DEF Stands, IsRest
    <3>. QED
      BY <1>1, <1>3, <1>6, <3>1
  <2>. QED
    BY <1>2, <1>3, <1>9, <2>1, <2>2 DEF Stands
<1>12. Gone(c2, D)
  BY <1>1, <1>2 DEF Gone, SameShape
<1>13. LoadsStand(c2, ph2, M, rep2, ent2)
  <2>1. SUFFICES ASSUME NEW d \in Reachable(g), NEW j \in DOMAIN orig[d], orig[d][j].op = "load"
                 PROVE  IF <<d, j>> \in M
                        THEN /\ IsContent(rep2, ent2, d, orig[d][j].var, j, rep2[orig[d][j].res])
                             /\ InForce(c2, ph2, rep2[orig[d][j].res], d, j)
                        ELSE rep2[orig[d][j].res] = orig[d][j].res
    BY DEF LoadsStand
  <2>. DEFINE y == orig[d][j].res
  <2>2. d \in Blocks(g) /\ j \in Nat /\ orig[d][j].var \in Slots /\ y \in DOMAIN rep /\ rep2[y] = Put(rep[y], x, new)
    BY <1>2, <1>3, <1>6, <2>1, SSAFacts DEF Stands, OrigIsSSA, IsSSA
  <2>3. IF <<d, j>> \in L
        THEN IsContent(rep, ent, d, orig[d][j].var, j, rep[y]) /\ InForce(c, ph, rep[y], d, j)
        ELSE rep[y] = y
    BY <2>1 DEF Represents, LoadsStand
  <2>. HIDE DEF y
  <2>4. CASE <<d, j>> \in L
    <3>1. IsContent(rep2, ent2, d, orig[d][j].var, j, rep2[y])
      BY <1>8, <2>2, <2>3, <2>4
    <3>2. InForce(c2, ph2, rep2[y], d, j)
      BY <1>10, <2>2, <2>3, <2>4
    <3>. QED
      BY <2>4, <3>1, <3>2 DEF y
  <2>5. CASE <<d, j>> = <<b, k>>
    <3>1. d = b /\ j = k /\ y = x
      BY <1>4, <2>5 DEF y
    <3>2. rep2[y] = new
      BY <2>2, <2>3, <2>5, <3>1 DEF Put
    <3>3. IsContent(rep2, ent2, b, slot, k, new)
      BY <1>4, <1>5, <1>8 DEF Put
    <3>4. InForce(c2, ph2, new, b, k)
      BY <1>4, <1>5, <1>10 DEF Put
    <3>. QED
      BY <1>4, <3>1, <3>2, <3>3, <3>4 DEF y
  <2>6. CASE <<d, j>> \notin M
    <3>1. ~ (d = b /\ j = k) /\ rep[y] = y
      BY <2>3, <2>6
    <3>2. y # x
      BY <1>3, <1>4, <2>1, <2>2, <3>1, SSAFacts DEF y
    <3>. QED
      BY <2>2, <2>6, <3>1, <3>2 DEF Put, y
  <2>. QED
    BY <2>4, <2>5, <2>6
<1>14. EntersStand(c2, ph2, Known(D, E), ent2)
  <2>1. SUFFICES ASSUME NEW v \in Slots, NEW d \in Known(D, E)[v]
                 PROVE  /\ d \in Reachable(g)
                        /\ InForce(c2, ph2, ent2[v][d], d, 1)
                        /\ v \in DOMAIN ph2[d] => ent2[v][d] = Phi(d, v)
                        /\ v \notin DOMAIN ph2[d] => \A u : ent2[v][d] # Phi(d, u)
    BY DEF EntersStand
  <2>2. /\ d \in Reachable(g)
        /\ InForce(c, ph, ent[v][d], d, 1)
        /\ v \in DOMAIN ph[d] => ent[v][d] = Phi(d, v)
        /\ v \notin DOMAIN ph[d] => \A u : ent[v][d] # Phi(d, u)
    BY DEF Represents, EntersStand
  <2>3. DOMAIN ph2[d] = DOMAIN ph[d] /\ ent2[v][d] = Put(ent[v][d], x, new)
    BY <1>3, <1>7, <2>2
  <2>4. \A u : x # Phi(d, u)
    BY <1>4 DEF Phi
  <2>5. ASSUME ent[v][d] = x, NEW u
        PROVE  new # Phi(d, u)
    <3>1. b \in Dom(g, d) /\ b # d
      <4>1. 1 \in Nat \ {0} /\ ~(k < 1) /\ k \in Nat
        BY <1>4
      <4>2. \A y, i : /\ i \in DOMAIN c[b] /\ c[b][i].op = "load" /\ c[b][i].res = y /\ InForce(c, ph, y, d, 1)
                      => b \in Dom(g, d) /\ (b = d => i < 1)
        BY <1>2, <1>4, <2>2, <4>1, ForceFacts
      <4>3. c[b][k].res = x /\ InForce(c, ph, x, d, 1)
        BY <2>2, <2>5
      <4>. QED
        BY <1>4, <4>1, <4>2, <4>3
    <3>2. new = Phi(d, u) => d \in Dom(g, b)
      BY <1>2, <1>4, <2>2, ForceFacts
    <3>. QED
      BY <1>2, <2>2, <3>1, <3>2, DomAntisymmetric
  <2>. QED
    BY <1>10, <2>2, <2>3, <2>4, <2>5 DEF Put
<1>15. PhisStand(ph2, Known(D, P), rep2, ent2)
  <2>1. SUFFICES ASSUME NEW v \in Slots, NEW p \in Known(D, P)[v], NEW d \in Succs(g, p), v \in DOMAIN ph2[d],
                        NEW i \in DOMAIN preds[d], preds[d][i] = p
                 PROVE  IsContent(rep2, ent2, p, v, End(p), ph2[d][v][i])
    BY DEF PhisStand
  <2>2. p \in Reachable(g)
    BY DEF Known
  <2>3. d \in Reachable(g)
    BY <1>2, <2>2, EdgeReaches
  <2>4. v \in DOMAIN ph[d] /\ i \in DOMAIN ph[d][v] /\ ph2[d][v][i] = Put(ph[d][v][i], x, new)
    <3>1. d \in Blocks(g) /\ v \in DOMAIN ph[d]
      BY <1>3, <2>1, <2>3
    <3>2. DOMAIN ph[d][v] = DOMAIN preds[d]
      BY <1>2, <3>1 DEF PhisFit
    <3>. QED
      BY <1>1, <3>1, <3>2
  <2>5. IsContent(rep, ent, p, v, End(p), ph[d][v][i])
    BY <2>1, <2>4 DEF Represents, PhisStand
  <2>. QED
    BY <1>8, <2>2, <2>4, <2>5
<1>16. JoinsStand(ph2, D, rep2, ent2)
  <2>1. SUFFICES ASSUME NEW v \in D, NEW p \in Reachable(g), NEW d \in Succs(g, p), v \notin DOMAIN ph2[d]
                 PROVE  IsContent(rep2, ent2, p, v, End(p), ent2[v][d])
    BY DEF JoinsStand
  <2>2. d \in Reachable(g) /\ v \in Slots
    BY <1>2, EdgeReaches DEF Gone
  <2>3. v \notin DOMAIN ph[d] /\ ent2[v][d] = Put(ent[v][d], x, new)
    BY <1>3, <1>7, <2>1, <2>2
  <2>4. IsContent(rep, ent, p, v, End(p), ent[v][d])
    BY <2>3 DEF Represents, JoinsStand
  <2>. QED
    BY <1>8, <2>2, <2>3, <2>4
<1>17. LoadsGone(c2, M, Known(D, E), rep2, ent2)
  <2>1. SUFFICES ASSUME NEW d \in Reachable(g), NEW j, <<d, j>> \in M, OnSlot(c2, d, j, "load")
                 PROVE  /\ \A y \in DOMAIN rep2 : rep2[y] # c2[d][j].res
                        /\ \A v \in Slots : \A e \in Known(D, E)[v] : ent2[v][e] # c2[d][j].res
    BY DEF LoadsGone
  <2>2. OnSlot(c, d, j, "load") /\ c2[d][j].res = c[d][j].res
    BY <1>1, <1>3, <2>1 DEF OnSlot, SameShape
  <2>3. IsSlotResult(c, c[d][j].res)
    BY <2>2 DEF IsSlotResult, IsSlotLoad, OnSlot
  <2>4. new # c[d][j].res
    BY <2>3
  <2>5. c[d][j].res = x \/ (/\ \A y \in DOMAIN rep : rep[y] # c[d][j].res
                            /\ \A v \in Slots : \A e \in Known(D, E)[v] : ent[v][e] # c[d][j].res)
    <3>1. CASE <<d, j>> \in L
      BY <2>2, <3>1 DEF Represents, LoadsGone
    <3>2. CASE <<d, j>> = <<b, k>>
      BY <3>2
    <3>. QED
      BY <2>1, <3>1, <3>2
  <2>6. \A v \in Slots : \A e \in Known(D, E)[v] : e \in Reachable(g)
    BY DEF Represents, EntersStand
  <2>7. ASSUME NEW y \in DOMAIN rep
        PROVE  rep2[y] # c[d][j].res
    BY <1>6, <2>4, <2>5 DEF Put
  <2>8. ASSUME NEW v \in Slots, NEW e \in Known(D, E)[v]
        PROVE  ent2[v][e] # c[d][j].res
    <3>1. ent2[v][e] = Put(ent[v][e], x, new)
      BY <1>7, <2>6
    <3>. QED
      BY <2>4, <2>5, <3>1 DEF Put
  <2>. QED
    BY <1>9, <2>2, <2>7, <2>8
<1>18. EntriesDown(ph2, E, rep2, ent2)
  <2>1. SUFFICES ASSUME NEW d \in E, slot \notin DOMAIN ph2[d]
                 PROVE  IF d = 0 THEN ent2[slot][d] = Undef
                        ELSE idom[d] \in E /\ IsContent(rep2, ent2, idom[d], slot, End(idom[d]), ent2[slot][d])
    BY DEF EntriesDown
  <2>2. slot \in Slots /\ \A e \in E : e \in Known(D, E)[slot]
    BY DEF Known
  <2>3. \A e \in E : e \in Reachable(g)
    BY <2>2 DEF Represents, EntersStand
  <2>4. ent2[slot][d] = Put(ent[slot][d], x, new) /\ slot \notin DOMAIN ph[d]
    BY <1>3, <1>7, <2>1, <2>2, <2>3
  <2>5. IF d = 0 THEN ent[slot][d] = Undef
        ELSE idom[d] \in E /\ IsContent(rep, ent, idom[d], slot, End(idom[d]), ent[slot][d])
    BY <2>4 DEF Represents, EntriesDown
  <2>6. Undef # x
    BY <1>4 DEF Undef
  <2>7. CASE d = 0
    BY <2>4, <2>5, <2>6, <2>7 DEF Put
  <2>8. CASE d # 0
    BY <1>8, <2>2, <2>3, <2>4, <2>5, <2>8
  <2>. QED
    BY <2>7, <2>8
<1>. QED
  BY <1>11, <1>12, <1>13, <1>14, <1>15, <1>16, <1>17, <1>18 DEF Represents, rep2, ent2

(***************************************************************************)
(* One block of the rename walk.                                           *)
(***************************************************************************)

\* The loads of the slots where these are known.
LoadsIn(D, B) ==
  {l \in Blocks(g) \X Nat : /\ l[2] \in DOMAIN orig[l[1]] /\ orig[l[1]][l[2]].op = "load"
                            /\ orig[l[1]][l[2]].var \in Slots
                            /\ l[1] \in Known(D, B)[orig[l[1]][l[2]].var]}
LoadsUpTo(D, B, b, k) == LoadsIn(D, B) \cup {<<b, j>> : j \in {i \in 1 .. k : OnSlot(orig, b, i, "load")}}

LEMMA LoadsInMembers ==
  ASSUME OrigIsSSA, NEW D, D \subseteq Slots, NEW B, B \subseteq Reachable(g), NEW d, NEW j
  PROVE  <<d, j>> \in LoadsIn(D, B) <=>
           /\ d \in Reachable(g) /\ j \in DOMAIN orig[d] /\ orig[d][j].op = "load"
           /\ orig[d][j].var \in D \/ (orig[d][j].var = slot /\ slot \in Slots /\ d \in B)
<1>1. \A e \in Reachable(g) : e \in Blocks(g)
  BY DomMembers DEF OrigIsSSA
<1>2. d \in Reachable(g) /\ j \in DOMAIN orig[d] => j \in Nat
  BY <1>1, SSAFacts
<1>3. <<d, j>> \in LoadsIn(D, B) <=>
        /\ d \in Blocks(g) /\ j \in Nat /\ j \in DOMAIN orig[d] /\ orig[d][j].op = "load"
        /\ orig[d][j].var \in Slots /\ d \in Known(D, B)[orig[d][j].var]
  BY DEF LoadsIn
<1>4. \A v \in Slots : d \in Known(D, B)[v] <=> d \in Reachable(g) /\ (v \in D \/ (v = slot /\ d \in B))
  BY DEF Known
<1>. QED
  BY <1>1, <1>2, <1>3, <1>4

LEMMA LoadsUpToNext ==
  ASSUME NEW D, NEW B, NEW b, NEW k \in Nat \ {0}
  PROVE  /\ OnSlot(orig, b, k, "load") => LoadsUpTo(D, B, b, k) = LoadsUpTo(D, B, b, k - 1) \cup {<<b, k>>}
         /\ ~OnSlot(orig, b, k, "load") => LoadsUpTo(D, B, b, k) = LoadsUpTo(D, B, b, k - 1)
<1>1. 1 .. k = (1 .. k - 1) \cup {k}
  OBVIOUS
<1>2. {i \in 1 .. k : OnSlot(orig, b, i, "load")}
        = {i \in 1 .. k - 1 : OnSlot(orig, b, i, "load")} \cup {i \in {k} : OnSlot(orig, b, i, "load")}
  BY <1>1
<1>. QED
  BY <1>2 DEF LoadsUpTo

\* What the slot had in the blocks of P it has still.
Keeps(c, P, rep, ent, rep2, ent2) ==
  \A d \in P : \A j, y :
    ~IsSlotResult(c, y) /\ IsContent(rep, ent, d, slot, j, y) => IsContent(rep2, ent2, d, slot, j, y)

StandsUpTo(D, P, E, b, c, rep, ent, k, st) ==
  \E rep2, ent2 : /\ Represents(st.code, st.phis, D, P, E, LoadsUpTo(D, P, b, k), rep2, ent2)
                  /\ IsContent(rep2, ent2, b, slot, k + 1, st.cur)
                  /\ Keeps(c, P, rep, ent, rep2, ent2)

LEMMA InstrStands ==
  ASSUME OrigIsSSA, NEW b \in Reachable(g), NEW vis, \A a \in Dom(g, b) : a = b \/ a \in vis,
         NEW c, NEW ph, NEW k \in Nat \ {0}, NEW st, UpToInstr(b, vis, c, ph, k - 1, st),
         NEW D, slot \in Slots \ D, NEW P, P \subseteq Reachable(g) \ {b}, NEW E, NEW rep, NEW ent,
         StandsUpTo(D, P, E, b, c, rep, ent, k - 1, st)
  PROVE  StandsUpTo(D, P, E, b, c, rep, ent, k, RenameInstr(st, b, k))
<1>1. PICK rep1, ent1 : /\ Represents(st.code, st.phis, D, P, E, LoadsUpTo(D, P, b, k - 1), rep1, ent1)
                        /\ IsContent(rep1, ent1, b, slot, k, st.cur)
                        /\ Keeps(c, P, rep, ent, rep1, ent1)
  <2>1. (k - 1) + 1 = k
    OBVIOUS
  <2>. QED
    BY <2>1 DEF StandsUpTo
<1>2. /\ Promoting(st.code, st.phis) /\ SameShape(c, ph, st.code, st.phis) /\ IsRest(st.code)
      /\ InForce(st.code, st.phis, st.cur, b, k) /\ ~IsSlotResult(st.code, st.cur)
  BY DEF UpToInstr, Promoting
<1>3. IsGraph(g) /\ b \in Blocks(g) /\ Stands(st.code, rep1) /\ Gone(st.code, D)
  BY <1>1, DomMembers DEF OrigIsSSA, Represents
<1>4. \A op : OnSlot(st.code, b, k, op) <=> OnSlot(orig, b, k, op)
  <2>1. ASSUME k \in DOMAIN orig[b], orig[b][k].var = slot
        PROVE  k \in DOMAIN st.code[b]
    BY <1>3, <2>1 DEF Gone
  <2>2. k \in DOMAIN st.code[b] => /\ k \in DOMAIN orig[b] /\ st.code[b][k].op = orig[b][k].op
                                   /\ st.code[b][k].var = orig[b][k].var
    BY <1>2, <1>3 DEF IsRest
  <2>. QED
    BY <2>1, <2>2 DEF OnSlot
<1>5. StoresAt(b, slot, k) <=> OnSlot(st.code, b, k, "store")
  BY <1>4 DEF StoresAt, OnSlot
<1>6. CASE OnSlot(st.code, b, k, "store")
  <2>. DEFINE x == st.code[b][k].val
              st2 == [code |-> st.code, phis |-> st.phis, cur |-> x]
  <2>1. RenameInstr(st, b, k) = st2
    BY <1>6 DEF RenameInstr
  <2>2. x = rep1[orig[b][k].val]
    BY <1>3, <1>6 DEF Stands, OnSlot
  <2>3. IsContent(rep1, ent1, b, slot, k + 1, x)
    BY <1>3, <1>5, <1>6, <2>2, ContentNext
  <2>4. ~OnSlot(orig, b, k, "load")
    BY <1>4, <1>6 DEF OnSlot
  <2>5. LoadsUpTo(D, P, b, k) = LoadsUpTo(D, P, b, k - 1)
    BY <2>4, LoadsUpToNext
  <2>6. st2.code = st.code /\ st2.phis = st.phis /\ st2.cur = x
    OBVIOUS
  <2>. HIDE DEF st2, x
  <2>7. StandsUpTo(D, P, E, b, c, rep, ent, k, st2)
    BY <1>1, <2>3, <2>5, <2>6 DEF StandsUpTo
  <2>. QED
    BY <2>1, <2>7
<1>7. CASE OnSlot(st.code, b, k, "load")
  <2>. DEFINE x == st.code[b][k].res
              new == st.cur
              c2 == redirect_instrs(st.code, {x}, new)
              ph2 == redirect_phis(st.phis, {x}, new)
              st2 == [code |-> c2, phis |-> ph2, cur |-> new]
              L == LoadsUpTo(D, P, b, k - 1)
              rep2 == PutRep(rep1, x, new)
              ent2 == PutEnt(ent1, x, new)
  <2>1. RenameInstr(st, b, k) = st2
    BY <1>7 DEF RenameInstr, OnSlot
  <2>2. IsSlotLoad(st.code, b, k)
    BY <1>7 DEF IsSlotLoad
  <2>3. <<b, k>> \notin L
    <3>1. D \subseteq Slots
      BY <1>3 DEF Gone
    <3>2. <<b, k>> \in LoadsIn(D, P) => orig[b][k].var \in D \/ b \in P
      BY <3>1, LoadsInMembers
    <3>3. orig[b][k].var = slot
      BY <1>4, <1>7 DEF OnSlot
    <3>4. <<b, k>> \notin LoadsIn(D, P)
      BY <3>2, <3>3
    <3>5. \A j \in 1 .. k - 1 : <<b, k>> # <<b, j>>
      OBVIOUS
    <3>. QED
      BY <3>4, <3>5 DEF LoadsUpTo
  <2>4. LoadsUpTo(D, P, b, k) = L \cup {<<b, k>>}
    BY <1>4, <1>7, LoadsUpToNext
  <2>. HIDE DEF L
  <2>5. Represents(c2, ph2, D, P, E, L \cup {<<b, k>>}, rep2, ent2)
    BY <1>1, <1>2, <2>2, <2>3, LoadStands DEF L
  <2>6. st2.code = c2 /\ st2.phis = ph2 /\ st2.cur = new
    OBVIOUS
  <2>7. IsSlotResult(st.code, x)
    BY <1>2, <2>2, SlotLoadFacts
  <2>. HIDE DEF c2, ph2, st2, rep2, ent2, new, x
  <2>8. ASSUME NEW d \in Reachable(g), NEW v \in Slots, NEW j, NEW y, ~IsSlotResult(st.code, y),
               IsContent(rep1, ent1, d, v, j, y)
        PROVE  IsContent(rep2, ent2, d, v, j, y)
    <3>1. IsContent(rep2, ent2, d, v, j, Put(y, x, new))
      BY <1>3, <2>8, ContentPut DEF rep2, ent2
    <3>2. Put(y, x, new) = y
      BY <2>7, <2>8 DEF Put
    <3>. QED
      BY <3>1, <3>2
  <2>9. IsContent(rep2, ent2, b, slot, k + 1, new)
    <3>1. ~StoresAt(b, slot, k)
      BY <1>5, <1>7 DEF OnSlot
    <3>2. IsContent(rep2, ent2, b, slot, k, new)
      BY <1>1, <1>2, <2>8 DEF new
    <3>. QED
      BY <1>3, <3>1, <3>2, ContentNext
  <2>10. Keeps(c, P, rep, ent, rep2, ent2)
    <3>1. \A y : IsSlotResult(st.code, y) <=> IsSlotResult(c, y)
      BY <1>2, <1>3, ShapeKeepsLoads
    <3>. QED
      BY <1>1, <2>8, <3>1 DEF Keeps
  <2>11. StandsUpTo(D, P, E, b, c, rep, ent, k, st2)
    BY <2>4, <2>5, <2>6, <2>9, <2>10 DEF StandsUpTo
  <2>. QED
    BY <2>1, <2>11
<1>8. CASE ~OnSlot(st.code, b, k, "store") /\ ~OnSlot(st.code, b, k, "load")
  <2>1. RenameInstr(st, b, k) = st
    BY <1>8 DEF RenameInstr
  <2>2. LoadsUpTo(D, P, b, k) = LoadsUpTo(D, P, b, k - 1)
    BY <1>4, <1>8, LoadsUpToNext
  <2>3. IsContent(rep1, ent1, b, slot, k + 1, st.cur)
    BY <1>1, <1>3, <1>5, <1>8, ContentNext
  <2>. QED
    BY <1>1, <2>1, <2>2, <2>3 DEF StandsUpTo
<1>. QED
  BY <1>6, <1>7, <1>8

LEMMA BlockStands ==
  ASSUME OrigIsSSA, NEW b \in Reachable(g), NEW vis, \A a \in Dom(g, b) : a = b \/ a \in vis,
         NEW c, NEW ph, NEW start, UpToInstr(b, vis, c, ph, 0, start),
         NEW D, slot \in Slots \ D, NEW P, P \subseteq Reachable(g) \ {b}, NEW E, NEW rep, NEW ent,
         StandsUpTo(D, P, E, b, c, rep, ent, 0, start)
  PROVE  StandsUpTo(D, P, E, b, c, rep, ent, Len(orig[b]), RenameInstrs(b, start))
<1>. DEFINE n == Len(orig[b])
<1>1. n \in Nat /\ n \in 0 .. n /\ 0 \in 0 .. n
  <2>1. b \in Blocks(g)
    BY DomMembers DEF OrigIsSSA
  <2>. QED
    BY <2>1, SSAFacts
<1>2. PICK st : Renames(b, start, n, st) /\ RenameInstrs(b, start) = st[n]
  BY <1>1, RenameUnfolds
<1>. HIDE DEF n
<1>. DEFINE S == {k \in 0 .. n : /\ UpToInstr(b, vis, c, ph, k, st[k])
                                 /\ StandsUpTo(D, P, E, b, c, rep, ent, k, st[k])}
<1>3. 0 \in S
  BY <1>1, <1>2 DEF Renames
<1>4. ASSUME NEW k \in 1 .. n, k - 1 \in S
      PROVE  k \in S
  <2>1. k \in Nat \ {0} /\ k \in 0 .. n
    BY <1>1
  <2>2. st[k] = RenameInstr(st[k - 1], b, k)
    BY <1>2 DEF Renames
  <2>3. UpToInstr(b, vis, c, ph, k - 1, st[k - 1]) /\ StandsUpTo(D, P, E, b, c, rep, ent, k - 1, st[k - 1])
    BY <1>4
  <2>4. UpToInstr(b, vis, c, ph, k, RenameInstr(st[k - 1], b, k))
    BY <2>1, <2>3, InstrRenamed
  <2>5. StandsUpTo(D, P, E, b, c, rep, ent, k, RenameInstr(st[k - 1], b, k))
    BY <2>1, <2>3, InstrStands
  <2>. QED
    BY <2>1, <2>2, <2>4, <2>5
<1>5. n \in S
  <2>. HIDE DEF S
  <2>1. 0 .. n \subseteq S
    BY <1>1, <1>3, <1>4, UpTo
  <2>. QED
    BY <1>1, <2>1
<1>. QED
  BY <1>2, <1>5 DEF n

\* The slot that is renamed is known on entry to block b to be x.
Entered(ent, b, x) ==
  [v \in Slots |-> [d \in Reachable(g) |-> IF v = slot /\ d = b THEN x ELSE ent[v][d]]]

LEMMA StartStands ==
  ASSUME OrigIsSSA, NEW c, NEW ph, Promoting(c, ph), NEW D, slot \in Slots \ D,
         NEW b \in Reachable(g), NEW P, P \subseteq Reachable(g) \ {b}, NEW rep, NEW ent,
         Represents(c, ph, D, P, P, LoadsIn(D, P), rep, ent),
         NEW x, InForce(c, ph, x, b, 1), ~IsSlotResult(c, x),
         slot \in DOMAIN ph[b] => x = Phi(b, slot),
         slot \notin DOMAIN ph[b] =>
           /\ \A u : x # Phi(b, u)
           /\ IF b = 0 THEN x = Undef
              ELSE idom[b] \in P /\ IsContent(rep, ent, idom[b], slot, End(idom[b]), x)
  PROVE  StandsUpTo(D, P, P \cup {b}, b, c, rep, ent, 0, [code |-> c, phis |-> ph, cur |-> x])
<1>. DEFINE ent2 == Entered(ent, b, x)
            E == P \cup {b}
            st == [code |-> c, phis |-> ph, cur |-> x]
            L == LoadsIn(D, P)
<1>1. st.code = c /\ st.phis = ph /\ st.cur = x
  OBVIOUS
<1>2. \A v \in Slots : \A d \in Reachable(g) : ent2[v][d] = IF v = slot /\ d = b THEN x ELSE ent[v][d]
  BY DEF Entered
<1>. HIDE DEF ent2, st
<1>3. \A v \in Slots : \A d \in Reachable(g) : ~(v = slot /\ d = b) =>
        \A k, y : IsContent(rep, ent, d, v, k, y) => IsContent(rep, ent2, d, v, k, y)
  BY <1>2 DEF IsContent
<1>4. D \subseteq Slots
  BY DEF Represents, Gone
<1>5. \A v \in Slots : \A d : /\ d \in Known(D, P)[v] => d \in Reachable(g) /\ ~(v = slot /\ d = b)
                              /\ d \in Known(D, E)[v] <=> d \in Known(D, P)[v] \/ (v = slot /\ d = b)
  BY DEF Known
<1>6. \A d, j : <<d, j>> \in L => /\ d \in Reachable(g) /\ j \in DOMAIN orig[d] /\ orig[d][j].op = "load"
                                  /\ orig[d][j].var \in Slots
                                  /\ ~(orig[d][j].var = slot /\ d = b)
  BY <1>4, LoadsInMembers
<1>7. Stands(c, rep) /\ Gone(c, D)
  BY DEF Represents
<1>8. LoadsStand(c, ph, L, rep, ent2)
  BY <1>3, <1>6 DEF Represents, LoadsStand
<1>9. EntersStand(c, ph, Known(D, E), ent2)
  <2>1. SUFFICES ASSUME NEW v \in Slots, NEW d \in Known(D, E)[v]
                 PROVE  /\ d \in Reachable(g)
                        /\ InForce(c, ph, ent2[v][d], d, 1)
                        /\ v \in DOMAIN ph[d] => ent2[v][d] = Phi(d, v)
                        /\ v \notin DOMAIN ph[d] => \A u : ent2[v][d] # Phi(d, u)
    BY DEF EntersStand
  <2>2. CASE v = slot /\ d = b
    BY <1>2, <2>2
  <2>3. CASE d \in Known(D, P)[v]
    <3>1. ent2[v][d] = ent[v][d] /\ d \in Reachable(g)
      BY <1>2, <1>5, <2>3
    <3>. QED
      BY <2>3, <3>1 DEF Represents, EntersStand
  <2>. QED
    BY <1>5, <2>2, <2>3
<1>10. PhisStand(ph, Known(D, P), rep, ent2)
  BY <1>3, <1>5 DEF Represents, PhisStand
<1>11. JoinsStand(ph, D, rep, ent2)
  <2>1. SUFFICES ASSUME NEW v \in D, NEW p \in Reachable(g), NEW d \in Succs(g, p), v \notin DOMAIN ph[d]
                 PROVE  IsContent(rep, ent2, p, v, End(p), ent2[v][d])
    BY DEF JoinsStand
  <2>2. d \in Reachable(g) /\ v \in Slots /\ v # slot
    BY <1>4, EdgeReaches DEF OrigIsSSA
  <2>. QED
    BY <1>2, <1>3, <2>1, <2>2 DEF Represents, JoinsStand
<1>12. LoadsGone(c, L, Known(D, E), rep, ent2)
  <2>1. SUFFICES ASSUME NEW d \in Reachable(g), NEW j, <<d, j>> \in L, OnSlot(c, d, j, "load")
                 PROVE  /\ \A y \in DOMAIN rep : rep[y] # c[d][j].res
                        /\ \A v \in Slots : \A e \in Known(D, E)[v] : ent2[v][e] # c[d][j].res
    BY DEF LoadsGone
  <2>2. /\ \A y \in DOMAIN rep : rep[y] # c[d][j].res
        /\ \A v \in Slots : \A e \in Known(D, P)[v] : ent[v][e] # c[d][j].res
    BY <2>1 DEF Represents, LoadsGone
  <2>3. x # c[d][j].res
    BY <2>1 DEF IsSlotResult, IsSlotLoad, OnSlot
  <2>. QED
    BY <1>2, <1>5, <2>2, <2>3
<1>13. EntriesDown(ph, E, rep, ent2)
  <2>1. SUFFICES ASSUME NEW e \in E, slot \notin DOMAIN ph[e]
                 PROVE  IF e = 0 THEN ent2[slot][e] = Undef
                        ELSE idom[e] \in E /\ IsContent(rep, ent2, idom[e], slot, End(idom[e]), ent2[slot][e])
    BY DEF EntriesDown
  <2>2. CASE e = b
    BY <1>2, <1>3, <2>1, <2>2
  <2>3. CASE e # b
    <3>1. e \in P /\ ent2[slot][e] = ent[slot][e]
      BY <1>2, <2>3
    <3>2. IF e = 0 THEN ent[slot][e] = Undef
          ELSE idom[e] \in P /\ IsContent(rep, ent, idom[e], slot, End(idom[e]), ent[slot][e])
      BY <2>1, <3>1 DEF Represents, EntriesDown
    <3>. QED
      BY <1>3, <3>1, <3>2
  <2>. QED
    BY <2>2, <2>3
<1>14. Represents(c, ph, D, P, E, L, rep, ent2)
  BY <1>7, <1>8, <1>9, <1>10, <1>11, <1>12, <1>13 DEF Represents
<1>15. IsContent(rep, ent2, b, slot, 1, x)
  <2>1. b \in Blocks(g) /\ ent2[slot][b] = x
    BY <1>2, DomMembers DEF OrigIsSSA
  <2>. QED
    BY <2>1, ContentFirst
<1>16. Keeps(c, P, rep, ent, rep, ent2)
  BY <1>3 DEF Keeps
<1>17. LoadsUpTo(D, P, b, 0) = L
  BY DEF LoadsUpTo
<1>18. StandsUpTo(D, P, E, b, c, rep, ent, 0, st)
  BY <1>1, <1>14, <1>15, <1>16, <1>17 DEF StandsUpTo
<1>. QED
  BY <1>18 DEF st

LEMMA FillStands ==
  ASSUME OrigIsSSA, NEW c, NEW ph, PhisFit(ph), NEW D, slot \in Slots \ D,
         NEW b \in Reachable(g), NEW P, P \subseteq Reachable(g) \ {b}, NEW E, NEW L, NEW rep, NEW ent,
         Represents(c, ph, D, P, E, L, rep, ent), NEW x, IsContent(rep, ent, b, slot, End(b), x)
  PROVE  Represents(c, FillPhis(ph, b, x), D, P \cup {b}, E, L, rep, ent)
<1>. DEFINE ph2 == FillPhis(ph, b, x)
            Q == P \cup {b}
<1>1. \A s \in Blocks(g) :
        /\ DOMAIN ph2[s] = DOMAIN ph[s]
        /\ \A v \in DOMAIN ph[s] :
             /\ DOMAIN ph2[s][v] = DOMAIN ph[s][v]
             /\ \A i \in DOMAIN ph[s][v] :
                  ph2[s][v][i] = IF s \in Succs(g, b) /\ v = slot /\ preds[s][i] = b THEN x ELSE ph[s][v][i]
  BY DEF FillPhis
<1>. HIDE DEF ph2
<1>2. IsGraph(g) /\ \A d \in Reachable(g) : d \in Blocks(g)
  BY DomMembers DEF OrigIsSSA
<1>3. D \subseteq Slots
  BY DEF Represents, Gone
<1>4. SameShape(c, ph, c, ph2)
  BY <1>1 DEF SameShape
<1>5. \A y : \A d \in Reachable(g) : \A k : InForce(c, ph, y, d, k) => InForce(c, ph2, y, d, k)
  BY <1>2, <1>4, InForceKept
<1>6. Stands(c, rep) /\ Gone(c, D)
  BY DEF Represents
<1>7. LoadsStand(c, ph2, L, rep, ent)
  BY <1>5 DEF Represents, LoadsStand
<1>8. EntersStand(c, ph2, Known(D, E), ent)
  <2>1. EntersStand(c, ph, Known(D, E), ent)
    BY DEF Represents
  <2>2. \A v \in Slots : \A d \in Known(D, E)[v] : d \in Reachable(g) /\ DOMAIN ph2[d] = DOMAIN ph[d]
    BY <1>1, <1>2, <2>1 DEF EntersStand
  <2>. QED
    BY <1>5, <2>1, <2>2 DEF EntersStand
<1>9. PhisStand(ph2, Known(D, Q), rep, ent)
  <2>1. SUFFICES ASSUME NEW v \in Slots, NEW p \in Known(D, Q)[v], NEW s \in Succs(g, p), v \in DOMAIN ph2[s],
                        NEW i \in DOMAIN preds[s], preds[s][i] = p
                 PROVE  IsContent(rep, ent, p, v, End(p), ph2[s][v][i])
    BY DEF PhisStand
  <2>2. p \in Reachable(g) /\ (p \in Known(D, P)[v] \/ (v = slot /\ p = b)) /\ (v = slot /\ p = b => p \notin Known(D, P)[v])
    BY DEF Known
  <2>3. s \in Blocks(g)
    BY <1>2, <2>2, EdgeReaches
  <2>4. v \in DOMAIN ph[s] /\ DOMAIN ph[s][v] = DOMAIN preds[s]
    BY <1>1, <2>1, <2>3 DEF PhisFit
  <2>5. ph2[s][v][i] = IF v = slot /\ p = b THEN x ELSE ph[s][v][i]
    BY <1>1, <2>1, <2>3, <2>4
  <2>6. p \in Known(D, P)[v] => IsContent(rep, ent, p, v, End(p), ph[s][v][i])
    BY <2>1, <2>4 DEF Represents, PhisStand
  <2>. QED
    BY <2>2, <2>5, <2>6
<1>10. JoinsStand(ph2, D, rep, ent)
  <2>1. ASSUME NEW v \in D, NEW p \in Reachable(g), NEW d \in Succs(g, p), v \notin DOMAIN ph2[d]
        PROVE  v \notin DOMAIN ph[d]
    BY <1>1, <1>2, <2>1, EdgeReaches
  <2>. QED
    BY <2>1 DEF Represents, JoinsStand
<1>11. LoadsGone(c, L, Known(D, E), rep, ent)
  BY DEF Represents
<1>12. EntriesDown(ph2, E, rep, ent)
  <2>1. \A d \in E : d \in Reachable(g)
    <3>1. \A d \in E : d \in Known(D, E)[slot]
      BY DEF Known
    <3>. QED
      BY <3>1 DEF Represents, EntersStand
  <2>. QED
    BY <1>1, <1>2, <2>1 DEF Represents, EntriesDown
<1>. QED
  BY <1>6, <1>7, <1>8, <1>9, <1>10, <1>11, <1>12 DEF Represents, ph2

(***************************************************************************)
(* The rename walk.                                                        *)
(***************************************************************************)
PassedBlocks(w) == {d \in Reachable(g) : Passed(w, d)}

\* A block that is still to be entered is given what the slot has at the end of
\* its immediate dominator.
FrameStands(z, P, c, ph, rep, ent) ==
  IF z.blk = 0 THEN z.cur = Undef
  ELSE /\ idom[z.blk] \in P
       /\ IsContent(rep, ent, idom[z.blk], slot, End(idom[z.blk]), z.cur)
       /\ InForce(c, ph, z.cur, idom[z.blk], End(idom[z.blk]))

WalkStands(w, c, ph, D, rep, ent) ==
  /\ slot \in Slots \ D
  /\ Represents(c, ph, D, PassedBlocks(w), PassedBlocks(w), LoadsIn(D, PassedBlocks(w)), rep, ent)
  /\ \A i \in 1 .. Len(w) : FrameStands(w[i], PassedBlocks(w), c, ph, rep, ent)

\* A block to enter after b: a child of b, or one that was waiting.
IsNextFrame(z, w, b, x) ==
  \/ z.blk \in Range(ChildrenOf(b)) /\ z.cur = x
  \/ \E i \in 1 .. Len(w) : z = w[i] /\ i # 1

\* The blocks that are passed after a step are those before and the one entered.
LEMMA PassedNext ==
  ASSUME TreeFound, ChildrenFit, NEW w, w # << >>, NEW c, NEW ph, WalkFits(w, c, ph), NEW b, b = Head(w).blk, NEW x
  PROVE  /\ PassedBlocks(KidFrames(b, x) \o Tail(w)) = PassedBlocks(w) \cup {b}
         /\ b \in Reachable(g) /\ b \notin PassedBlocks(w)
         /\ \A i \in 1 .. Len(KidFrames(b, x) \o Tail(w)) :
              IsNextFrame((KidFrames(b, x) \o Tail(w))[i], w, b, x)
<1>. DEFINE f == KidFrames(b, x)
            q == f \o Tail(w)
<1>1. IsGraph(g)
  BY DEF TreeFound
<1>2. PICK S : w \in Seq(S)
  BY DEF WalkFits
<1>3. 1 \in 1 .. Len(w) /\ Head(w) = w[1] /\ b = w[1].blk /\ Len(w) \in Nat \ {0}
  BY <1>2
<1>4. b \in Reachable(g) /\ b \in Dom(g, b) /\ \A i \in 1 .. Len(w) : w[i].blk \in Reachable(g)
  BY <1>1, <1>3, DomMembers DEF WalkFits
<1>5. b \notin PassedBlocks(w)
  BY <1>3, <1>4 DEF PassedBlocks, Passed
<1>6. /\ f \in Seq([blk : Blocks(g), cur : {x}]) /\ Len(f) \in Nat
      /\ \A i \in 1 .. Len(f) : f[i].blk \in Range(ChildrenOf(b)) /\ f[i].cur = x
      /\ \A k \in Range(ChildrenOf(b)) : \E i \in 1 .. Len(f) : f[i].blk = k
  <2>. HIDE DEF f
  <2>0. b \in Reachable(g)
    BY <1>4
  <2>1. /\ f \in Seq([blk : Blocks(g), cur : {x}])
        /\ \A i \in 1 .. Len(f) : f[i].blk \in Range(ChildrenOf(b)) /\ f[i].cur = x
        /\ \A i, j \in 1 .. Len(f) : i # j => f[i].blk # f[j].blk
        /\ \A k \in Range(ChildrenOf(b)) : \E i \in 1 .. Len(f) : f[i].blk = k
    BY <2>0, KidFramesMembers DEF f
  <2>. DEFINE F == [blk : Blocks(g), cur : {x}]
  <2>2. f \in Seq(F)
    BY <2>1
  <2>. HIDE DEF F
  <2>3. Len(f) \in Nat
    BY <2>2
  <2>. QED
    BY <2>1, <2>3
<1>. HIDE DEF f
<1>7. /\ Len(q) = Len(f) + Len(w) - 1
      /\ \A i \in 1 .. Len(f) : i \in 1 .. Len(q) /\ q[i] = f[i]
      /\ \A i \in 2 .. Len(w) : i + Len(f) - 1 \in 1 .. Len(q) /\ q[i + Len(f) - 1] = w[i]
  <2>. DEFINE T == [blk : Blocks(g), cur : {x}]
  <2>1. f \in Seq(T)
    BY <1>6
  <2>. HIDE DEF T
  <2>2. /\ q \in Seq(S \cup T) /\ Len(q) = Len(f) + Len(w) - 1
        /\ \A i \in 1 .. Len(f) : i \in 1 .. Len(q) /\ q[i] = f[i]
        /\ \A i \in 2 .. Len(w) : i + Len(f) - 1 \in 1 .. Len(q) /\ q[i + Len(f) - 1] = w[i]
    BY <1>2, <2>1, FramesOf
  <2>. QED
    BY <2>2
<1>. HIDE DEF q
<1>8. ASSUME NEW i \in 1 .. Len(q)
      PROVE  \/ i \in 1 .. Len(f) /\ q[i] = f[i]
             \/ \E m \in 2 .. Len(w) : q[i] = w[m]
  <2>1. i \in 1 .. Len(f) \/ i - Len(f) + 1 \in 2 .. Len(w)
    BY <1>3, <1>6, <1>7
  <2>2. (i - Len(f) + 1) + Len(f) - 1 = i
    BY <1>6
  <2>. QED
    BY <1>7, <2>1, <2>2
<1>9. \A m \in 2 .. Len(w) : m \in 1 .. Len(w) /\ m # 1
  BY <1>3
<1>10. ASSUME NEW k \in Range(ChildrenOf(b))
       PROVE  k \in Reachable(g) /\ k # b /\ b \in Dom(g, k) /\ k \notin Dom(g, b)
  <2>1. k \in Reachable(g) /\ k # b /\ b \in Dom(g, k)
    BY <1>4, KidsAreBelow
  <2>. QED
    BY <1>1, <2>1, DomAntisymmetric
<1>11. ASSUME NEW d \in Reachable(g), Passed(q, d)
       PROVE  Passed(w, d) \/ d = b
  <2>1. SUFFICES ASSUME d # b, NEW i \in 1 .. Len(w), w[i].blk \in Dom(g, d)
                 PROVE  FALSE
    BY DEF Passed
  <2>2. CASE i = 1
    <3>1. \E k \in Range(ChildrenOf(b)) : k \in Dom(g, d)
      BY <1>3, <1>4, <2>1, <2>2, KidsCover
    <3>2. PICK j \in 1 .. Len(f) : f[j].blk \in Dom(g, d)
      BY <1>6, <3>1
    <3>. QED
      BY <1>7, <1>11, <3>2 DEF Passed
  <2>3. CASE i # 1
    <3>1. i \in 2 .. Len(w)
      BY <1>3, <2>3
    <3>. QED
      BY <1>7, <1>11, <2>1, <3>1 DEF Passed
  <2>. QED
    BY <2>2, <2>3
<1>12. ASSUME NEW d \in Reachable(g), Passed(w, d) \/ d = b
       PROVE  Passed(q, d)
  <2>1. SUFFICES ASSUME NEW i \in 1 .. Len(q), q[i].blk \in Dom(g, d)
                 PROVE  FALSE
    BY DEF Passed
  <2>2. CASE i \in 1 .. Len(f) /\ q[i] = f[i]
    <3>1. f[i].blk \in Range(ChildrenOf(b)) /\ f[i].blk \in Dom(g, d)
      BY <1>6, <2>1, <2>2
    <3>2. b \in Dom(g, d) /\ d # b
      BY <1>1, <1>10, <2>1, <3>1, DomUp
    <3>. QED
      BY <1>3, <1>12, <3>2 DEF Passed
  <2>3. ASSUME NEW m \in 2 .. Len(w), q[i] = w[m]
        PROVE  FALSE
    <3>1. m \in 1 .. Len(w) /\ w[m].blk \in Dom(g, d)
      BY <1>9, <2>1, <2>3
    <3>2. d # b
      BY <1>3, <1>9, <2>3, <3>1 DEF WalkFits
    <3>. QED
      BY <1>12, <3>1, <3>2 DEF Passed
  <2>. QED
    BY <1>8, <2>2, <2>3
<1>13. PassedBlocks(q) = PassedBlocks(w) \cup {b}
  BY <1>4, <1>11, <1>12 DEF PassedBlocks
<1>14. ASSUME NEW i \in 1 .. Len(q)
       PROVE  IsNextFrame(q[i], w, b, x)
  BY <1>6, <1>8, <1>9 DEF IsNextFrame
<1>. QED
  BY <1>4, <1>5, <1>13, <1>14 DEF q, f

LEMMA TreeParents ==
  ASSUME TreeFound
  PROVE  /\ \A b \in Reachable(g) \ {0} : /\ idom[b] \in Reachable(g) /\ idom[b] \in Dom(g, b) /\ idom[b] # b
                                          /\ \A a \in Dom(g, b) : a = b \/ a \in Dom(g, idom[b])
         /\ \A b : \A k \in Range(ChildrenOf(b)) : k # 0 /\ idom[k] = b
<1>1. IsGraph(g) /\ N \in Nat \ {0} /\ Blocks(g) = 0 .. N - 1 /\ Reachable(g) \subseteq Blocks(g)
  BY TreeBlocks DEF TreeFound
<1>2. ASSUME NEW b \in Reachable(g) \ {0}
      PROVE  /\ idom[b] \in Reachable(g) /\ idom[b] \in Dom(g, b) /\ idom[b] # b
             /\ \A a \in Dom(g, b) : a = b \/ a \in Dom(g, idom[b])
  <2>1. b \in 1 .. N - 1 /\ b \in DOMAIN DominatorSets(g)
    BY <1>1, <1>2, DomMembers
  <2>2. IsImmediateDominator(DominatorSets(g), idom[b], b)
    BY <2>1 DEF TreeFound, TreeIsWhole, TreeIsExact
  <2>3. idom[b] \in Dom(g, b) /\ idom[b] # b /\ \A a \in Dom(g, b) : a = b \/ a \in Dom(g, idom[b])
    BY <2>2 DEF IsImmediateDominator, Dom
  <2>. QED
    BY <1>1, <2>3, DomUp
<1>3. ASSUME NEW b, NEW k \in Range(ChildrenOf(b))
      PROVE  k # 0 /\ idom[k] = b
  <2>1. IsKids(b, N - 1, ChildrenOf(b))
    BY <1>1, ChildrenMembers
  <2>2. PICK i \in DOMAIN ChildrenOf(b) : ChildrenOf(b)[i] = k
    BY <1>3 DEF Range
  <2>3. i \in 1 .. Len(ChildrenOf(b))
    BY <2>1 DEF IsKids
  <2>. QED
    BY <2>1, <2>2, <2>3 DEF IsKids
<1>. QED
  BY <1>2, <1>3

LEMMA WalkStandsStep ==
  ASSUME TreeFound, ChildrenFit, OrigIsSSA, NEW w, w # << >>, NEW c, NEW ph, Promoting(c, ph), WalkFits(w, c, ph),
         NEW D, NEW rep, NEW ent, WalkStands(w, c, ph, D, rep, ent),
         NEW b, b = Head(w).blk, NEW st, st = RenameInstrs(b, StartOf(w, c, ph))
  PROVE  /\ SameShape(c, ph, st.code, FillPhis(st.phis, b, st.cur))
         /\ \E rep2, ent2 :
              WalkStands(KidFrames(b, st.cur) \o Tail(w), st.code, FillPhis(st.phis, b, st.cur), D, rep2, ent2)
<1>. DEFINE P == PassedBlocks(w)
            n == Len(orig[b])
            z == w[1].cur
            x == IF slot \in DOMAIN ph[b] THEN Phi(b, slot) ELSE z
            start == StartOf(w, c, ph)
            q == KidFrames(b, st.cur) \o Tail(w)
            ph2 == FillPhis(st.phis, b, st.cur)
<1>1. IsGraph(g)
  BY DEF TreeFound
<1>2. Head(w) = w[1] /\ b = w[1].blk /\ 1 \in 1 .. Len(w)
  <2>1. PICK S : w \in Seq(S)
    BY DEF WalkFits
  <2>. QED
    BY <2>1
<1>3. /\ PassedBlocks(q) = P \cup {b} /\ b \in Reachable(g) /\ b \notin P
      /\ \A i \in 1 .. Len(q) : IsNextFrame(q[i], w, b, st.cur)
  <2>. DEFINE v == st.cur
  <2>. HIDE DEF v
  <2>1. /\ PassedBlocks(KidFrames(b, v) \o Tail(w)) = PassedBlocks(w) \cup {b}
        /\ b \in Reachable(g) /\ b \notin PassedBlocks(w)
        /\ \A i \in 1 .. Len(KidFrames(b, v) \o Tail(w)) :
             IsNextFrame((KidFrames(b, v) \o Tail(w))[i], w, b, v)
    BY PassedNext
  <2>. QED
    BY <2>1 DEF v
<1>. HIDE DEF q
<1>4. P \subseteq Reachable(g) /\ P \subseteq Reachable(g) \ {b} /\ b \in Blocks(g)
  BY <1>1, <1>3, DomMembers DEF PassedBlocks
<1>5. n \in Nat /\ \A d \in Reachable(g) : End(d) \in Nat
  <2>1. \A d \in Reachable(g) : d \in Blocks(g)
    BY <1>1, DomMembers
  <2>. QED
    BY <1>3, <2>1, SSAFacts DEF End
<1>6. \A a \in Dom(g, b) : a = b \/ a \in P
  BY <1>1, <1>2, AboveIsPassed DEF PassedBlocks
<1>7. UpToInstr(b, P, c, ph, 0, start)
  BY <1>2, StartFits DEF PassedBlocks
<1>8. start = [code |-> c, phis |-> ph, cur |-> x]
  BY <1>2 DEF StartOf
<1>9. InForce(c, ph, x, b, 1) /\ ~IsSlotResult(c, x)
  <2>1. start.code = c /\ start.phis = ph /\ start.cur = x
    BY <1>8
  <2>2. InForce(start.code, start.phis, start.cur, b, 0 + 1) /\ ~IsSlotResult(start.code, start.cur)
    BY <1>7 DEF UpToInstr
  <2>. QED
    BY <2>1, <2>2
<1>10. /\ slot \in Slots \ D /\ Represents(c, ph, D, P, P, LoadsIn(D, P), rep, ent)
       /\ \A i \in 1 .. Len(w) : FrameStands(w[i], P, c, ph, rep, ent)
  BY DEF WalkStands
<1>11. b # 0 => idom[b] \in Reachable(g) /\ idom[b] \in Dom(g, b) /\ idom[b] # b
  BY <1>3, TreeParents
<1>12. FrameStands(w[1], P, c, ph, rep, ent)
  BY <1>2, <1>10
<1>13. IsRest(c)
  BY DEF Promoting
<1>14. ASSUME slot \notin DOMAIN ph[b]
       PROVE  /\ \A u : x # Phi(b, u)
              /\ IF b = 0 THEN x = Undef
                 ELSE idom[b] \in P /\ IsContent(rep, ent, idom[b], slot, End(idom[b]), x)
  <2>1. x = z
    BY <1>14
  <2>2. CASE b = 0
    <3>1. x = Undef
      BY <1>2, <1>12, <2>1, <2>2 DEF FrameStands
    <3>. QED
      BY <2>2, <3>1 DEF Undef, Phi
  <2>3. CASE b # 0
    <3>. HIDE DEF z, x
    <3>1. idom[b] \in P /\ IsContent(rep, ent, idom[b], slot, End(idom[b]), x) /\ InForce(c, ph, x, idom[b], End(idom[b]))
      BY <1>2, <1>12, <2>1, <2>3 DEF FrameStands, z
    <3>2. ASSUME NEW u, x = Phi(b, u)
          PROVE  FALSE
      <4>1. \A y : InForce(c, ph, Phi(b, y), idom[b], End(idom[b])) => b \in Dom(g, idom[b])
        BY <1>3, <1>5, <1>11, <1>13, <2>3, ForceFacts, 1 \in Nat \ {0}
      <4>2. b \in Dom(g, idom[b])
        BY <3>1, <3>2, <4>1
      <4>. QED
        BY <1>1, <1>3, <1>11, <2>3, <4>2, DomAntisymmetric
    <3>. QED
      BY <2>3, <3>1, <3>2
  <2>. QED
    BY <2>2, <2>3
<1>15. slot \in DOMAIN ph[b] => x = Phi(b, slot)
  OBVIOUS
<1>. HIDE DEF P, x, start, z
<1>16. StandsUpTo(D, P, P \cup {b}, b, c, rep, ent, 0, start)
  BY <1>3, <1>4, <1>8, <1>9, <1>10, <1>14, <1>15, StartStands
<1>17. StandsUpTo(D, P, P \cup {b}, b, c, rep, ent, n, st) /\ UpToInstr(b, P, c, ph, n, st)
  BY <1>3, <1>4, <1>6, <1>7, <1>10, <1>16, BlockStands, BlockRenamed DEF start
<1>18. PICK rep2, ent2 : /\ Represents(st.code, st.phis, D, P, P \cup {b}, LoadsUpTo(D, P, b, n), rep2, ent2)
                         /\ IsContent(rep2, ent2, b, slot, n + 1, st.cur)
                         /\ Keeps(c, P, rep, ent, rep2, ent2)
  BY <1>17 DEF StandsUpTo
<1>19. /\ Promoting(st.code, st.phis) /\ SameShape(c, ph, st.code, st.phis)
       /\ InForce(st.code, st.phis, st.cur, b, n + 1) /\ ~IsSlotResult(st.code, st.cur) /\ PhisFit(st.phis)
  BY <1>17 DEF UpToInstr, Promoting
<1>20. LoadsUpTo(D, P, b, n) = LoadsIn(D, P \cup {b})
  <2>1. D \subseteq Slots
    BY <1>10 DEF Represents, Gone
  <2>2. P \cup {b} \subseteq Reachable(g)
    BY <1>3, <1>4
  <2>3. ASSUME NEW d, NEW j
        PROVE  <<d, j>> \in LoadsUpTo(D, P, b, n) <=> <<d, j>> \in LoadsIn(D, P \cup {b})
    <3>1. <<d, j>> \in LoadsUpTo(D, P, b, n)
            <=> <<d, j>> \in LoadsIn(D, P) \/ (d = b /\ j \in 1 .. n /\ OnSlot(orig, b, j, "load"))
      BY DEF LoadsUpTo
    <3>2. OnSlot(orig, b, j, "load") => j \in 1 .. n
      BY <1>4, SSAFacts DEF OnSlot
    <3>3. <<d, j>> \in LoadsIn(D, P) <=>
            /\ d \in Reachable(g) /\ j \in DOMAIN orig[d] /\ orig[d][j].op = "load"
            /\ orig[d][j].var \in D \/ (orig[d][j].var = slot /\ slot \in Slots /\ d \in P)
      BY <1>4, <2>1, LoadsInMembers
    <3>4. <<d, j>> \in LoadsIn(D, P \cup {b}) <=>
            /\ d \in Reachable(g) /\ j \in DOMAIN orig[d] /\ orig[d][j].op = "load"
            /\ orig[d][j].var \in D \/ (orig[d][j].var = slot /\ slot \in Slots /\ d \in P \cup {b})
      BY <2>1, <2>2, LoadsInMembers
    <3>. QED
      BY <1>3, <1>10, <3>1, <3>2, <3>3, <3>4 DEF OnSlot
  <2>4. \A l \in LoadsUpTo(D, P, b, n) : l = <<l[1], l[2]>>
    BY DEF LoadsUpTo, LoadsIn
  <2>5. \A l \in LoadsIn(D, P \cup {b}) : l = <<l[1], l[2]>>
    BY DEF LoadsIn
  <2>6. ASSUME NEW l
        PROVE  l \in LoadsUpTo(D, P, b, n) <=> l \in LoadsIn(D, P \cup {b})
    <3>1. <<l[1], l[2]>> \in LoadsUpTo(D, P, b, n) <=> <<l[1], l[2]>> \in LoadsIn(D, P \cup {b})
      BY <2>3
    <3>2. CASE l = <<l[1], l[2]>>
      BY <3>1, <3>2
    <3>3. CASE l # <<l[1], l[2]>>
      BY <2>4, <2>5, <3>3
    <3>. QED
      BY <3>2, <3>3
  <2>. QED
    BY <2>6
<1>21. Represents(st.code, ph2, D, P \cup {b}, P \cup {b}, LoadsIn(D, P \cup {b}), rep2, ent2)
  <2>. DEFINE y == st.cur
  <2>1. IsContent(rep2, ent2, b, slot, End(b), y)
    BY <1>18 DEF End
  <2>. HIDE DEF y
  <2>2. Represents(st.code, FillPhis(st.phis, b, y), D, P \cup {b}, P \cup {b}, LoadsIn(D, P \cup {b}), rep2, ent2)
    BY <1>3, <1>4, <1>10, <1>18, <1>19, <1>20, <2>1, FillStands
  <2>. QED
    BY <2>2 DEF y
<1>22. SameShape(st.code, st.phis, st.code, ph2)
  BY <1>3, <1>19, PhisFilled
<1>23. SameShape(c, ph, st.code, ph2)
  BY <1>19, <1>22, ShapeTransitive
<1>. HIDE DEF n, ph2
<1>24. ASSUME NEW i \in 1 .. Len(w), i # 1
       PROVE  FrameStands(w[i], P \cup {b}, st.code, ph2, rep2, ent2)
  <2>. DEFINE a == idom[w[i].blk]
              y == w[i].cur
  <2>1. FrameStands(w[i], P, c, ph, rep, ent) /\ ~IsSlotResult(c, y)
    BY <1>10 DEF WalkFits
  <2>2. CASE w[i].blk = 0
    BY <2>1, <2>2 DEF FrameStands
  <2>3. CASE w[i].blk # 0
    <3>1. a \in P /\ IsContent(rep, ent, a, slot, End(a), y) /\ InForce(c, ph, y, a, End(a))
      BY <2>1, <2>3 DEF FrameStands
    <3>. HIDE DEF a, y
    <3>2. IsContent(rep2, ent2, a, slot, End(a), y)
      BY <1>18, <2>1, <3>1 DEF Keeps
    <3>3. InForce(st.code, ph2, y, a, End(a))
      BY <1>1, <1>4, <1>23, <3>1, InForceKept
    <3>. QED
      BY <2>3, <3>1, <3>2, <3>3 DEF FrameStands, a, y
  <2>. QED
    BY <2>2, <2>3
<1>25. ASSUME NEW y, y.blk \in Range(ChildrenOf(b)), y.cur = st.cur
       PROVE  FrameStands(y, P \cup {b}, st.code, ph2, rep2, ent2)
  <2>1. y.blk # 0 /\ idom[y.blk] = b
    BY <1>25, TreeParents
  <2>2. InForce(st.code, ph2, st.cur, b, n + 1)
    BY <1>1, <1>3, <1>19, <1>22, InForceKept
  <2>. QED
    BY <1>18, <1>25, <2>1, <2>2 DEF FrameStands, End, n
<1>26. \A i \in 1 .. Len(q) : FrameStands(q[i], P \cup {b}, st.code, ph2, rep2, ent2)
  BY <1>3, <1>24, <1>25 DEF IsNextFrame
<1>27. WalkStands(q, st.code, ph2, D, rep2, ent2)
  BY <1>3, <1>10, <1>21, <1>26 DEF WalkStands
<1>. QED
  BY <1>23, <1>27 DEF q, ph2

(***************************************************************************)
(* Where the phis are.                                                     *)
(***************************************************************************)

\* Phis at the blocks that the recorded frontiers of a lead to are phis at
\* those of its dominance frontier.
FrontiersServe ==
  \A a \in Reachable(g) :
    DominanceFrontier(g, DominatorSets(g), a) \subseteq PhisFor([x \in 0 .. N - 1 |-> Range(df[x])], a)

LEMMA IdfUnfolds ==
  ASSUME IsGraph(g), N = g.n, df \in Lists, NEW defs \in SUBSET Blocks(g)
  PROVE  /\ defs \cup compute_idf(defs) \subseteq Blocks(g)
         /\ \A b \in defs \cup compute_idf(defs) : Range(df[b]) \subseteq compute_idf(defs)
<1>. DEFINE U == Blocks(g)
            n == N
            more(S) == S \cup UNION {Range(df[b]) : b \in S \cup defs}
            step == [S \in SUBSET U |-> more(S)]
            Def(f) == f = [k \in 0 .. n |-> IF k = 0 THEN {} ELSE more(f[k - 1])]
<1>1. n \in Nat /\ IsFiniteSet(U) /\ Cardinality(U) <= n
  BY BlocksAreFinite
<1>2. \A b \in U : Range(df[b]) \subseteq U
  BY DEF Lists, Range
<1>3. ASSUME NEW S \in SUBSET U
      PROVE  more(S) \in SUBSET U /\ S \subseteq more(S)
  BY <1>2
<1>4. step \in [SUBSET U -> SUBSET U] /\ \A S \in SUBSET U : S \subseteq step[S] /\ step[S] = more(S)
  <2>. HIDE DEF more
  <2>. QED
    BY <1>3
<1>5. \E f : Def(f)
  <2>1. PICK r \in [0 .. n -> SUBSET U] : r[0] = {} /\ \A k \in 1 .. n : r[k] = step[r[k - 1]]
    <3>. DEFINE V == SUBSET U
                none == {}
    <3>1. none \in V /\ Step(V, step) /\ n \in Nat
      BY <1>1, <1>4 DEF Step
    <3>. HIDE DEF step, U, n, V, none
    <3>2. \E r : IsIteration(V, none, n, step, r)
      BY <3>1, IterateExists
    <3>. QED
      BY <3>2 DEF V, none, IsIteration
  <2>. HIDE DEF step, more, U, n
  <2>2. \A k \in 0 .. n : r[k] = IF k = 0 THEN {} ELSE more(r[k - 1])
    <3>1. ASSUME NEW k \in 0 .. n, k # 0
          PROVE  r[k] = more(r[k - 1])
      <4>1. k \in 1 .. n /\ k - 1 \in 0 .. n
        BY <1>1, <3>1
      <4>. QED
        BY <1>4, <2>1, <4>1
    <3>. QED
      BY <2>1, <3>1
  <2>3. r = [k \in 0 .. n |-> r[k]]
    BY <2>1
  <2>4. [k \in 0 .. n |-> r[k]] = [k \in 0 .. n |-> IF k = 0 THEN {} ELSE more(r[k - 1])]
    BY <2>2
  <2>. QED
    BY <2>3, <2>4
<1>6. PICK f : Def(f) /\ compute_idf(defs) = f[n]
  BY <1>5 DEF compute_idf
<1>. HIDE DEF more, U, n
<1>7. f \in [0 .. n -> SUBSET U] /\ \A k \in 1 .. n : f[k] = step[f[k - 1]]
  <2>1. \A k \in 0 .. n : f[k] = IF k = 0 THEN {} ELSE more(f[k - 1])
    BY <1>6
  <2>2. f = [k \in 0 .. n |-> f[k]]
    BY <1>6
  <2>3. f[0] = {} /\ {} \in SUBSET U
    BY <1>1, <2>1
  <2>4. \A k \in 1 .. n : f[k - 1] \in SUBSET U => f[k] = step[f[k - 1]]
    <3>1. \A k \in 1 .. n : k \in 0 .. n /\ k # 0
      BY <1>1
    <3>. QED
      BY <1>4, <2>1, <3>1
  <2>. DEFINE V == SUBSET U
              none == {}
  <2>5. none \in V /\ Step(V, step) /\ n \in Nat /\ \A k \in 1 .. n : f[k - 1] \in V => f[k] = step[f[k - 1]]
    BY <1>1, <1>4, <2>4 DEF Step
  <2>7. f[0] = none
    BY <2>3
  <2>. HIDE DEF step, Def, V, none
  <2>8. Iterates(V, none, n, step, f)
    BY <2>2, <2>5, <2>7 DEF Iterates
  <2>6. IsIteration(V, none, n, step, f)
    BY <2>5, <2>8, IterateTypes
  <2>. QED
    BY <2>6 DEF V, IsIteration
<1>8. step[f[n]] = f[n]
  <2>1. f \in [0 .. n -> SUBSET U] /\ \A k \in 1 .. n : f[k] = step[f[k - 1]]
    BY <1>7
  <2>2. \A S \in SUBSET U : S \subseteq step[S]
    BY <1>4
  <2>3. step \in [SUBSET U -> SUBSET U]
    BY <1>4
  <2>. HIDE DEF step
  <2>. QED
    BY <1>1, <2>1, <2>2, <2>3, GrowthCloses
<1>9. f[n] \in SUBSET U
  BY <1>1, <1>7
<1>10. more(f[n]) = f[n]
  BY <1>4, <1>8, <1>9
<1>11. \A b \in f[n] \cup defs : Range(df[b]) \subseteq f[n]
  BY <1>10 DEF more
<1>. QED
  BY <1>6, <1>9, <1>11 DEF U

LEMMA PhisForUnfolds ==
  ASSUME IsGraph(g), N = g.n, NEW frontier, NEW a, NEW I, \A b \in I \cup {a} : frontier[b] \subseteq I
  PROVE  PhisFor(frontier, a) \subseteq I /\ frontier[a] \subseteq PhisFor(frontier, a)
<1>. DEFINE n == N
            more(S) == frontier[a] \cup S \cup UNION {frontier[b] : b \in S}
            step == [S \in SUBSET I |-> more(S)]
            Def(f) == f = [k \in 0 .. n |-> IF k = 0 THEN {} ELSE more(f[k - 1])]
<1>1. n \in Nat \ {0}
  BY DEF IsGraph
<1>. HIDE DEF n
<1>2. \A S \in SUBSET I : more(S) \in SUBSET I /\ frontier[a] \subseteq more(S)
  OBVIOUS
<1>. HIDE DEF more
<1>3. step \in [SUBSET I -> SUBSET I] /\ \A S \in SUBSET I : step[S] = more(S)
  BY <1>2
<1>4. \E f : Def(f)
  <2>1. PICK r \in [0 .. n -> SUBSET I] : r[0] = {} /\ \A k \in 1 .. n : r[k] = step[r[k - 1]]
    <3>. DEFINE V == SUBSET I
                none == {}
    <3>1. none \in V /\ Step(V, step) /\ n \in Nat
      BY <1>1, <1>3 DEF Step
    <3>. HIDE DEF step, V, none
    <3>2. \E r : IsIteration(V, none, n, step, r)
      BY <3>1, IterateExists
    <3>. QED
      BY <3>2 DEF V, none, IsIteration
  <2>. HIDE DEF step
  <2>2. \A k \in 0 .. n : r[k] = IF k = 0 THEN {} ELSE more(r[k - 1])
    <3>1. ASSUME NEW k \in 0 .. n, k # 0
          PROVE  r[k] = more(r[k - 1])
      <4>1. k \in 1 .. n /\ k - 1 \in 0 .. n
        BY <1>1, <3>1
      <4>. QED
        BY <1>3, <2>1, <4>1
    <3>. QED
      BY <2>1, <3>1
  <2>3. r = [k \in 0 .. n |-> r[k]]
    BY <2>1
  <2>4. [k \in 0 .. n |-> r[k]] = [k \in 0 .. n |-> IF k = 0 THEN {} ELSE more(r[k - 1])]
    BY <2>2
  <2>. QED
    BY <2>3, <2>4
<1>5. PICK f : Def(f) /\ PhisFor(frontier, a) = f[n]
  BY <1>4 DEF PhisFor, n, more
<1>6. \A k \in 0 .. n : f[k] = IF k = 0 THEN {} ELSE more(f[k - 1])
  BY <1>5
<1>7. f \in [0 .. n -> SUBSET I]
  <2>1. f = [k \in 0 .. n |-> f[k]]
    BY <1>5
  <2>2. f[0] = {} /\ {} \in SUBSET I
    BY <1>1, <1>6
  <2>3. \A k \in 1 .. n : f[k - 1] \in SUBSET I => f[k] = step[f[k - 1]]
    <3>1. \A k \in 1 .. n : k \in 0 .. n /\ k # 0
      BY <1>1
    <3>. QED
      BY <1>3, <1>6, <3>1
  <2>. DEFINE V == SUBSET I
              none == {}
  <2>4. none \in V /\ Step(V, step) /\ n \in Nat /\ \A k \in 1 .. n : f[k - 1] \in V => f[k] = step[f[k - 1]]
    BY <1>1, <1>3, <2>3 DEF Step
  <2>5. f[0] = none
    BY <2>2
  <2>. HIDE DEF step, Def, V, none
  <2>6. Iterates(V, none, n, step, f)
    BY <2>1, <2>4, <2>5 DEF Iterates
  <2>7. IsIteration(V, none, n, step, f)
    BY <2>4, <2>6, IterateTypes
  <2>. QED
    BY <2>7 DEF V, IsIteration
<1>. HIDE DEF Def, step
<1>8. n \in 0 .. n /\ n # 0 /\ n - 1 \in 0 .. n
  BY <1>1
<1>9. f[n] = more(f[n - 1]) /\ f[n - 1] \in SUBSET I
  BY <1>6, <1>7, <1>8
<1>. QED
  BY <1>2, <1>5, <1>9

LEMMA IdfCloses ==
  ASSUME IsGraph(g), N = g.n, df \in Lists, NEW defs \in SUBSET Blocks(g), NEW a \in defs \cup compute_idf(defs)
  PROVE  PhisFor([x \in 0 .. N - 1 |-> Range(df[x])], a) \subseteq compute_idf(defs)
<1>. DEFINE frontier == [x \in 0 .. N - 1 |-> Range(df[x])]
            I == compute_idf(defs)
<1>1. Blocks(g) = 0 .. N - 1
  BY DEF IsGraph, Blocks
<1>2. a \in Blocks(g) /\ I \subseteq Blocks(g) /\ \A b \in defs \cup I : Range(df[b]) \subseteq I
  BY IdfUnfolds
<1>3. \A b \in I \cup {a} : frontier[b] \subseteq I
  BY <1>1, <1>2
<1>. HIDE DEF frontier, I
<1>4. PhisFor(frontier, a) \subseteq I
  BY <1>3, PhisForUnfolds
<1>. QED
  BY <1>4 DEF frontier, I

\* The frontiers that are complete serve.
LEMMA CompleteFrontiersServe ==
  ASSUME IsGraph(g), N = g.n, df \in Lists, Reachable(g) \subseteq Blocks(g),
         \A a \in Reachable(g) : \A b \in DominanceFrontier(g, DominatorSets(g), a) : b \in Range(df[a])
  PROVE  FrontiersServe
<1>. DEFINE frontier == [x \in 0 .. N - 1 |-> Range(df[x])]
            B == Blocks(g)
<1>1. B = 0 .. N - 1
  BY DEF IsGraph, Blocks
<1>2. \A b \in B : frontier[b] = Range(df[b]) /\ Range(df[b]) \subseteq B
  <2>1. \A b \in B : df[b] \in Seq(B)
    BY DEF Lists
  <2>2. \A b \in B : Range(df[b]) \subseteq B
    BY <2>1 DEF Range
  <2>3. \A b \in B : frontier[b] = Range(df[b])
    BY <1>1
  <2>. QED
    BY <2>2, <2>3
<1>. HIDE DEF frontier, B
<1>3. ASSUME NEW a \in Reachable(g)
      PROVE  DominanceFrontier(g, DominatorSets(g), a) \subseteq PhisFor(frontier, a)
  <2>1. a \in B
    BY DEF B
  <2>2. \A b \in B \cup {a} : frontier[b] \subseteq B
    BY <1>2, <2>1
  <2>3. frontier[a] \subseteq PhisFor(frontier, a)
    BY <2>2, PhisForUnfolds
  <2>. QED
    BY <1>2, <2>1, <2>3
<1>. QED
  BY <1>3 DEF FrontiersServe, frontier

(***************************************************************************)
(* Between two promotions.                                                 *)
(***************************************************************************)
PhisOf(ph, D) == \A b \in Blocks(g) : DOMAIN ph[b] \subseteq D

RestStands(c, ph, D, rep, ent) ==
  /\ IsRest(c) /\ PhisFit(ph) /\ PhisOf(ph, D)
  /\ Represents(c, ph, D, {}, {}, LoadsIn(D, {}), rep, ent)

LEMMA KnownAtRest ==
  ASSUME OrigIsSSA, NEW D, D \subseteq Slots
  PROVE  /\ \A v \in Slots : Known(D, {})[v] = IF v \in D THEN Reachable(g) ELSE {}
         /\ \A d, j : <<d, j>> \in LoadsIn(D, {}) <=>
              d \in Reachable(g) /\ j \in DOMAIN orig[d] /\ orig[d][j].op = "load" /\ orig[d][j].var \in D
<1>1. \A v \in Slots : Known(D, {})[v] = IF v \in D THEN Reachable(g) ELSE {}
  BY DEF Known
<1>2. {} \subseteq Reachable(g)
  OBVIOUS
<1>3. \A d, j : <<d, j>> \in LoadsIn(D, {}) <=>
        /\ d \in Reachable(g) /\ j \in DOMAIN orig[d] /\ orig[d][j].op = "load"
        /\ orig[d][j].var \in D \/ (orig[d][j].var = slot /\ slot \in Slots /\ d \in {})
  <2>. DEFINE B == {}
  <2>1. B \subseteq Reachable(g)
    OBVIOUS
  <2>. HIDE DEF B
  <2>2. \A d, j : <<d, j>> \in LoadsIn(D, B) <=>
          /\ d \in Reachable(g) /\ j \in DOMAIN orig[d] /\ orig[d][j].op = "load"
          /\ orig[d][j].var \in D \/ (orig[d][j].var = slot /\ slot \in Slots /\ d \in B)
    BY <2>1, LoadsInMembers
  <2>. QED
    BY <2>2 DEF B
<1>. QED
  BY <1>1, <1>3

\* The function as the IR generator leaves it stands for itself.
LEMMA OrigStands ==
  ASSUME OrigIsSSA, NEW ph, ph = [b \in Blocks(g) |-> << >>]
  PROVE  \E D, rep, ent : RestStands(orig, ph, D, rep, ent)
<1>. DEFINE X == UNION {{orig[b][k].val : k \in DOMAIN orig[b]} \cup {orig[b][k].res : k \in DOMAIN orig[b]} : b \in Blocks(g)}
            rep == [x \in X |-> x]
            ent == << >>
            D == {}
            L == LoadsIn(D, {})
<1>1. IsRest(orig) /\ PhisFit(ph)
  BY OrigRests
<1>2. PhisOf(ph, D)
  BY DEF PhisOf
<1>3. \A b \in Blocks(g) : \A k \in DOMAIN orig[b] : orig[b][k].val \in X /\ orig[b][k].res \in X
  OBVIOUS
<1>. HIDE DEF X
<1>4. \A d \in Reachable(g) : d \in Blocks(g)
  BY DomMembers DEF OrigIsSSA
<1>5. Stands(orig, rep)
  BY <1>3, <1>4 DEF Stands
<1>6. Gone(orig, D)
  BY DEF Gone
<1>7. /\ \A v \in Slots : Known(D, {})[v] = {}
      /\ \A d, j : <<d, j>> \notin L
  BY KnownAtRest
<1>8. \A b \in Blocks(g) : \A k \in DOMAIN orig[b] : rep[orig[b][k].res] = orig[b][k].res
  BY <1>3
<1>. HIDE DEF rep, ent, L
<1>9. LoadsStand(orig, ph, L, rep, ent)
  BY <1>4, <1>7, <1>8 DEF LoadsStand
<1>10. EntersStand(orig, ph, Known(D, {}), ent) /\ PhisStand(ph, Known(D, {}), rep, ent)
  BY <1>7 DEF EntersStand, PhisStand
<1>11. JoinsStand(ph, D, rep, ent) /\ LoadsGone(orig, L, Known(D, {}), rep, ent) /\ EntriesDown(ph, {}, rep, ent)
  BY <1>7 DEF JoinsStand, LoadsGone, EntriesDown
<1>12. Represents(orig, ph, D, {}, {}, L, rep, ent)
  BY <1>5, <1>6, <1>9, <1>10, <1>11 DEF Represents
<1>13. RestStands(orig, ph, D, rep, ent)
  BY <1>1, <1>2, <1>12 DEF RestStands, L
<1>. QED
  BY <1>13

\* The phis of a slot that is not promoted yet say nothing of the others.
LEMMA InsertStands ==
  ASSUME OrigIsSSA, NEW c, NEW ph, NEW D, NEW rep, NEW ent, RestStands(c, ph, D, rep, ent),
         NEW v \in Slots \ D, NEW ph2,
         \A b \in Blocks(g) : /\ DOMAIN ph2[b] \in {DOMAIN ph[b], DOMAIN ph[b] \cup {v}}
                              /\ \A u \in DOMAIN ph[b] : ph2[b][u] = ph[b][u]
  PROVE  Represents(c, ph2, D, {}, {}, LoadsIn(D, {}), rep, ent)
<1>. DEFINE L == LoadsIn(D, {})
            none == {}
<1>1. Represents(c, ph, D, none, none, L, rep, ent) /\ PhisOf(ph, D)
  BY DEF RestStands
<1>2. IsGraph(g) /\ \A d \in Reachable(g) : d \in Blocks(g)
  BY DomMembers DEF OrigIsSSA
<1>3. D \subseteq Slots
  BY <1>1 DEF Represents, Gone
<1>4. \A u \in Slots : Known(D, none)[u] = IF u \in D THEN Reachable(g) ELSE {}
  BY <1>3, KnownAtRest
<1>. HIDE DEF L, none
<1>5. \A y : \A d \in Reachable(g) : \A k : InForce(c, ph, y, d, k) => InForce(c, ph2, y, d, k)
  <2>1. \A b \in Blocks(g) : DOMAIN ph[b] \subseteq DOMAIN ph2[b]
    OBVIOUS
  <2>. QED
    BY <1>2, <2>1, InForceWithMore
<1>6. \A b \in Blocks(g) : \A u \in D : u \in DOMAIN ph2[b] <=> u \in DOMAIN ph[b]
  OBVIOUS
<1>7. LoadsStand(c, ph2, L, rep, ent)
  BY <1>1, <1>5 DEF Represents, LoadsStand
<1>8. EntersStand(c, ph2, Known(D, none), ent)
  <2>1. SUFFICES ASSUME NEW u \in Slots, NEW d \in Known(D, none)[u]
                 PROVE  /\ d \in Reachable(g)
                        /\ InForce(c, ph2, ent[u][d], d, 1)
                        /\ u \in DOMAIN ph2[d] => ent[u][d] = Phi(d, u)
                        /\ u \notin DOMAIN ph2[d] => \A w : ent[u][d] # Phi(d, w)
    BY DEF EntersStand
  <2>2. /\ d \in Reachable(g) /\ u \in D
        /\ InForce(c, ph, ent[u][d], d, 1)
        /\ u \in DOMAIN ph[d] => ent[u][d] = Phi(d, u)
        /\ u \notin DOMAIN ph[d] => \A w : ent[u][d] # Phi(d, w)
    BY <1>1, <1>4 DEF Represents, EntersStand
  <2>. QED
    BY <1>2, <1>5, <1>6, <2>2
<1>9. PhisStand(ph2, Known(D, none), rep, ent)
  <2>1. SUFFICES ASSUME NEW u \in Slots, NEW p \in Known(D, none)[u], NEW b \in Succs(g, p), u \in DOMAIN ph2[b],
                        NEW i \in DOMAIN preds[b], preds[b][i] = p
                 PROVE  IsContent(rep, ent, p, u, End(p), ph2[b][u][i])
    BY DEF PhisStand
  <2>2. p \in Reachable(g) /\ u \in D
    BY <1>4
  <2>3. b \in Blocks(g)
    BY <1>2, <2>2, EdgeReaches
  <2>4. u \in DOMAIN ph[b] /\ ph2[b][u] = ph[b][u]
    BY <1>6, <2>1, <2>2, <2>3
  <2>5. IsContent(rep, ent, p, u, End(p), ph[b][u][i])
    BY <1>1, <2>1, <2>4 DEF Represents, PhisStand
  <2>. QED
    BY <2>4, <2>5
<1>10. JoinsStand(ph2, D, rep, ent)
  <2>1. \A p \in Reachable(g) : \A b \in Succs(g, p) : b \in Blocks(g)
    BY <1>2, EdgeReaches
  <2>. QED
    BY <1>1, <1>6, <2>1 DEF Represents, JoinsStand
<1>11. EntriesDown(ph2, none, rep, ent)
  BY DEF EntriesDown, none
<1>. QED
  BY <1>1, <1>7, <1>8, <1>9, <1>10, <1>11 DEF Represents, L, none

\* What the program stands for at rest does not depend on the slot that is next.
LEMMA RestMoves ==
  ASSUME OrigIsSSA, g' = g, orig' = orig, preds' = preds, idom' = idom,
         NEW c, NEW ph, NEW D, NEW rep, NEW ent, Represents(c, ph, D, {}, {}, LoadsIn(D, {}), rep, ent)
  PROVE  Represents(c, ph, D, {}, {}, LoadsIn(D, {}), rep, ent)'
<1>1. D \subseteq Slots
  BY DEF Represents, Gone
<1>2. /\ \A v \in Slots : Known(D, {})[v] = IF v \in D THEN Reachable(g) ELSE {}
      /\ \A d, j : <<d, j>> \in LoadsIn(D, {}) <=>
           d \in Reachable(g) /\ j \in DOMAIN orig[d] /\ orig[d][j].op = "load" /\ orig[d][j].var \in D
  BY <1>1, KnownAtRest
<1>3. \A v \in Slots : Known(D, {})'[v] = Known(D, {})[v]
  BY <1>2 DEF Known
<1>4. LoadsIn(D, {})' = LoadsIn(D, {})
  BY <1>3 DEF LoadsIn
<1>5. Stands(c, rep)' /\ Gone(c, D)'
  BY DEF Represents, Stands, Gone
<1>6. \A b, v, k, x : IsContent(rep, ent, b, v, k, x)' <=> IsContent(rep, ent, b, v, k, x)
  BY DEF IsContent, StoresAt
<1>7. \A x, b, k : InForce(c, ph, x, b, k)' <=> InForce(c, ph, x, b, k)
  BY DEF InForce
<1>8. LoadsStand(c, ph, LoadsIn(D, {}), rep, ent)'
  BY <1>4, <1>6, <1>7 DEF Represents, LoadsStand
<1>9. EntersStand(c, ph, Known(D, {}), ent)'
  BY <1>3, <1>7 DEF Represents, EntersStand
<1>10. \A p : End(p)' = End(p)
  BY DEF End
<1>11. PhisStand(ph, Known(D, {}), rep, ent)'
  BY <1>3, <1>6, <1>10 DEF Represents, PhisStand
<1>12. JoinsStand(ph, D, rep, ent)'
  BY <1>6, <1>10 DEF Represents, JoinsStand
<1>13. LoadsGone(c, LoadsIn(D, {}), Known(D, {}), rep, ent)'
  <2>1. \A d \in Reachable(g) : \A j : <<d, j>> \in LoadsIn(D, {}) => j \notin DOMAIN c[d]
    <3>1. \A d \in Reachable(g) : d \in Blocks(g)
      BY DomMembers DEF OrigIsSSA
    <3>. QED
      BY <1>2, <3>1 DEF Represents, Gone
  <2>. QED
    BY <1>4, <2>1 DEF LoadsGone, OnSlot
<1>14. EntriesDown(ph, {}, rep, ent)'
  BY DEF EntriesDown
<1>. QED
  BY <1>5, <1>8, <1>9, <1>11, <1>12, <1>13, <1>14 DEF Represents

(***************************************************************************)
(* The slot that is picked.                                                *)
(***************************************************************************)

\* collect_blocks fills the lists once.
ListsCollected == pc # "collect" => preds = PredLists

LEMMA ListsCollectedInvariant == Spec => []ListsCollected
<1>1. Init => ListsCollected
  BY DEF Init, AnalysisInit, ListsCollected
<1>2. ListsCollected /\ [Next]_vars => ListsCollected'
  <2>. SUFFICES ASSUME ListsCollected, [Next]_vars
                PROVE  ListsCollected'
    OBVIOUS
  <2>1. g' = g
    BY DEF Next, vars, AnalysisStep, Analyse, CollectBlocks, VisitBlock, EndSweep, ComputeDF, PromoteOne,
           PromotionEnds, RenameBlock, RenameEnds, RemoveDead, RunBlock, Finished, analysis
  <2>2. PredLists' = PredLists
    BY <2>1 DEF PredLists, AddEdge, N
  <2>3. CASE CollectBlocks
    BY <2>2, <2>3 DEF CollectBlocks, ListsCollected
  <2>4. CASE preds' = preds /\ (pc = "collect" => pc' = pc)
    BY <2>2, <2>4 DEF ListsCollected
  <2>5. CollectBlocks \/ (preds' = preds /\ (pc = "collect" => pc' = pc))
    BY DEF Next, vars, AnalysisStep, Analyse, VisitBlock, EndSweep, ComputeDF, PromoteOne,
           PromotionEnds, RenameBlock, RenameEnds, RemoveDead, RunBlock, Finished, analysis
  <2>. QED
    BY <2>3, <2>4, <2>5
<1>. QED
  BY <1>1, <1>2, PTL DEF Spec

\* No call takes the address of the slot, and where its stores and phis can
\* meet others there is a phi.
Chosen(ph, D) ==
  /\ \A b \in Blocks(g) : \A k \in DOMAIN orig[b] : ~(orig[b][k].op = "call" /\ orig[b][k].var = slot)
  /\ \A a \in Reachable(g) : (\E j : StoresAt(a, slot, j)) \/ slot \in DOMAIN ph[a] =>
       \A b \in DominanceFrontier(g, DominatorSets(g), a) : slot \in DOMAIN ph[b]
  /\ PhisOf(ph, D \cup {slot})

LEMMA PromotableFacts ==
  ASSUME OrigIsSSA, N = g.n, NEW D, IsRest(code), Gone(code, D), NEW v \in Promotable
  PROVE  /\ v \in Slots \ D
         /\ \A b \in Blocks(g) : \A k \in DOMAIN orig[b] : ~(orig[b][k].op = "call" /\ orig[b][k].var = v)
         /\ \A a \in Blocks(g) : (\E j : StoresAt(a, v, j)) => a \in DefBlocks(v)
         /\ DefBlocks(v) \subseteq Blocks(g)
<1>1. v \in Slots /\ alloca_ok(v) /\ DefBlocks(v) # {} /\ Blocks(g) = 0 .. N - 1
  BY DEF Promotable, Blocks
<1>2. v \notin D
  <2>1. PICK b \in Blocks(g) : Has(b, "store", v)
    BY <1>1 DEF DefBlocks
  <2>2. PICK k \in DOMAIN code[b] : code[b][k].op = "store" /\ code[b][k].var = v
    BY <2>1 DEF Has
  <2>3. k \in DOMAIN orig[b] /\ orig[b][k].op = "store" /\ orig[b][k].var = v
    BY <2>2 DEF IsRest
  <2>. QED
    BY <2>2, <2>3 DEF Gone
<1>3. ASSUME NEW b \in Blocks(g), NEW k \in DOMAIN orig[b], orig[b][k].op = "call", orig[b][k].var = v
      PROVE  FALSE
  <2>1. k \in DOMAIN code[b]
    BY <1>3 DEF Gone
  <2>2. code[b][k].op = "call" /\ code[b][k].var = v
    BY <1>3, <2>1 DEF IsRest
  <2>. QED
    BY <1>1, <2>1, <2>2 DEF alloca_ok, Has
<1>4. ASSUME NEW a \in Blocks(g), NEW j, StoresAt(a, v, j)
      PROVE  a \in DefBlocks(v)
  <2>1. j \in DOMAIN orig[a] /\ orig[a][j].op = "store" /\ orig[a][j].var = v
    BY <1>4 DEF StoresAt
  <2>2. j \in DOMAIN code[a]
    BY <1>2, <2>1 DEF Gone
  <2>3. code[a][j].op = "store" /\ code[a][j].var = v
    BY <2>1, <2>2 DEF IsRest
  <2>. QED
    BY <1>1, <2>2, <2>3 DEF DefBlocks, Has
<1>. QED
  BY <1>1, <1>2, <1>3, <1>4 DEF DefBlocks

LEMMA PromoteStands ==
  ASSUME OrigIsSSA, N = g.n, df \in Lists, FrontiersServe, PromoteOne,
         NEW D, NEW rep, NEW ent, RestStands(code, phis, D, rep, ent)
  PROVE  (WalkStands(walk, code, phis, D, rep, ent) /\ Chosen(phis, D))'
<1>0. PICK v : v = slot'
  OBVIOUS
<1>1. /\ g' = g /\ orig' = orig /\ preds' = preds /\ idom' = idom /\ df' = df /\ code' = code
      /\ phis' = InsertPhis(v) /\ walk' = <<[blk |-> 0, cur |-> Undef]>>
      /\ v = Min(Promotable) /\ Promotable # {}
  BY <1>0 DEF PromoteOne, analysis
<1>2. v \in Promotable
  <2>1. Promotable \subseteq Nat
    BY Mem2RegAssumption DEF Promotable
  <2>2. \E i \in Promotable : \A j \in Promotable : i <= j
    BY <1>1, <2>1, LeastExists
  <2>. QED
    BY <1>1, <2>2 DEF Min
<1>3. IsRest(code) /\ PhisFit(phis) /\ PhisOf(phis, D) /\ Gone(code, D)
      /\ Represents(code, phis, D, {}, {}, LoadsIn(D, {}), rep, ent)
  BY DEF RestStands, Represents
<1>4. /\ v \in Slots \ D
      /\ \A b \in Blocks(g) : \A k \in DOMAIN orig[b] : ~(orig[b][k].op = "call" /\ orig[b][k].var = v)
      /\ \A a \in Blocks(g) : (\E j : StoresAt(a, v, j)) => a \in DefBlocks(v)
      /\ DefBlocks(v) \subseteq Blocks(g)
  BY <1>2, <1>3, PromotableFacts
<1>. DEFINE I == compute_idf(DefBlocks(v))
            ph2 == InsertPhis(v)
            e(b) == [i \in DOMAIN preds[b] |-> Undef]
<1>5. ASSUME NEW b \in Blocks(g)
      PROVE  /\ b \in I => /\ DOMAIN ph2[b] = DOMAIN phis[b] \cup {v}
                           /\ \A u \in DOMAIN ph2[b] : ph2[b][u] = IF u = v THEN e(b) ELSE phis[b][u]
             /\ b \notin I => ph2[b] = phis[b]
  <2>1. ph2[b] = IF b \in I THEN [u \in DOMAIN phis[b] \cup {v} |-> IF u = v THEN e(b) ELSE phis[b][u]]
                 ELSE phis[b]
    BY DEF InsertPhis
  <2>. HIDE DEF ph2, I, e
  <2>. QED
    BY <2>1
<1>. HIDE DEF ph2, I, e
<1>6. \A b \in Blocks(g) : v \notin DOMAIN phis[b]
  BY <1>3, <1>4 DEF PhisOf
<1>7. \A b \in Blocks(g) : /\ DOMAIN ph2[b] \in {DOMAIN phis[b], DOMAIN phis[b] \cup {v}}
                           /\ \A u \in DOMAIN phis[b] : ph2[b][u] = phis[b][u]
                           /\ v \in DOMAIN ph2[b] <=> b \in I
  BY <1>5, <1>6
<1>8. PICK c, p, q : c = code /\ p = phis /\ q = ph2
  OBVIOUS
<1>9. Represents(code, phis, D, {}, {}, LoadsIn(D, {}), rep, ent)'
  <2>1. \A b \in Blocks(g) : /\ DOMAIN q[b] \in {DOMAIN p[b], DOMAIN p[b] \cup {v}}
                             /\ \A u \in DOMAIN p[b] : q[b][u] = p[b][u]
    BY <1>7, <1>8
  <2>2. RestStands(c, p, D, rep, ent) /\ v \in Slots \ D
    BY <1>4, <1>8
  <2>3. Represents(c, q, D, {}, {}, LoadsIn(D, {}), rep, ent)
    BY <2>1, <2>2, InsertStands
  <2>4. Represents(c, q, D, {}, {}, LoadsIn(D, {}), rep, ent)'
    BY <1>1, <2>3, RestMoves
  <2>5. code' = c /\ phis' = q
    BY <1>1, <1>8 DEF ph2
  <2>. QED
    BY <2>4, <2>5
<1>10. walk' # << >> /\ Len(walk') = 1 /\ walk'[1].blk = 0 /\ walk'[1].cur = Undef
  BY <1>1
<1>11. PassedBlocks(walk)' = {}
  <2>1. \A d \in Reachable(g) : 0 \in Dom(g, d)
    BY DomMembers DEF OrigIsSSA
  <2>. QED
    BY <1>1, <1>10, <2>1 DEF PassedBlocks, Passed
<1>12. WalkStands(walk, code, phis, D, rep, ent)'
  <2>1. \A i \in 1 .. Len(walk') : FrameStands(walk[i], PassedBlocks(walk), code, phis, rep, ent)'
    BY <1>10 DEF FrameStands
  <2>2. slot' \in Slots \ D
    BY <1>0, <1>4
  <2>3. Represents(code, phis, D, PassedBlocks(walk), PassedBlocks(walk), LoadsIn(D, PassedBlocks(walk)), rep, ent)'
    BY <1>9, <1>11
  <2>. QED
    BY <2>1, <2>2, <2>3 DEF WalkStands
<1>13. ASSUME NEW a \in Reachable(g), (\E j : StoresAt(a, v, j)) \/ v \in DOMAIN ph2[a],
              NEW b \in DominanceFrontier(g, DominatorSets(g), a)
       PROVE  v \in DOMAIN ph2[b]
  <2>1. a \in Blocks(g) /\ b \in Reachable(g)
    BY <1>13, DomMembers DEF OrigIsSSA, DominanceFrontier
  <2>2. b \in Blocks(g)
    BY <2>1, DomMembers DEF OrigIsSSA
  <2>3. a \in DefBlocks(v) \cup I
    BY <1>4, <1>7, <1>13, <2>1
  <2>. DEFINE F == PhisFor([x \in 0 .. N - 1 |-> Range(df[x])], a)
  <2>4. b \in F
    BY <1>13 DEF FrontiersServe
  <2>5. F \subseteq I
    <3>. DEFINE defs == DefBlocks(v)
    <3>1. defs \in SUBSET Blocks(g) /\ a \in defs \cup compute_idf(defs)
      BY <1>4, <2>3 DEF I
    <3>. HIDE DEF defs
    <3>2. F \subseteq compute_idf(defs)
      BY <3>1, IdfCloses DEF OrigIsSSA
    <3>. QED
      BY <3>2 DEF defs, I
  <2>. HIDE DEF F
  <2>. QED
    BY <1>7, <2>2, <2>4, <2>5
<1>14. \A b \in Blocks(g) : DOMAIN ph2[b] \subseteq D \cup {v}
  BY <1>3, <1>7 DEF PhisOf
<1>15. Chosen(phis, D)'
  <2>1. phis' = ph2
    BY <1>1 DEF ph2
  <2>. QED
    BY <1>0, <1>1, <1>4, <1>13, <1>14, <2>1 DEF Chosen, StoresAt, PhisOf
<1>. QED
  BY <1>12, <1>15

\* What stands in a state stands in one where only the walk has changed.
LEMMA WalkStandsIn ==
  ASSUME g' = g, orig' = orig, preds' = preds, idom' = idom, slot' = slot,
         NEW w, NEW c, NEW ph, NEW D, NEW rep, NEW ent, WalkStands(w, c, ph, D, rep, ent)
  PROVE  WalkStands(w, c, ph, D, rep, ent)'
<1>1. \A b, v, k, x : IsContent(rep, ent, b, v, k, x)' <=> IsContent(rep, ent, b, v, k, x)
  BY DEF IsContent, StoresAt
<1>2. \A x, b, k : InForce(c, ph, x, b, k)' <=> InForce(c, ph, x, b, k)
  BY DEF InForce
<1>3. \A p : End(p)' = End(p)
  BY DEF End
<1>. DEFINE P == PassedBlocks(w)
<1>4. P' = P
  BY DEF PassedBlocks, Passed
<1>5. PICK p, q, l : p = P /\ q = Known(D, P) /\ l = LoadsIn(D, P)
  OBVIOUS
<1>6. P' = p /\ Known(D, P)' = q /\ LoadsIn(D, P)' = l
  <2>1. Known(D, P)' = q
    BY <1>4, <1>5 DEF Known
  <2>2. LoadsIn(D, P)' = l
    BY <1>4, <1>5, <2>1 DEF LoadsIn, Known
  <2>. QED
    BY <1>4, <1>5, <2>1, <2>2
<1>7. slot \in Slots \ D /\ Represents(c, ph, D, p, p, l, rep, ent) /\ \A i \in 1 .. Len(w) : FrameStands(w[i], p, c, ph, rep, ent)
  BY <1>5 DEF WalkStands
<1>8. \A i \in 1 .. Len(w) : FrameStands(w[i], p, c, ph, rep, ent)'
  BY <1>1, <1>2, <1>3, <1>7 DEF FrameStands
<1>9. /\ Stands(c, rep) /\ Gone(c, D) /\ LoadsStand(c, ph, l, rep, ent) /\ EntersStand(c, ph, q, ent)
      /\ PhisStand(ph, q, rep, ent) /\ JoinsStand(ph, D, rep, ent) /\ LoadsGone(c, l, q, rep, ent)
      /\ EntriesDown(ph, p, rep, ent)
  BY <1>5, <1>7 DEF Represents
<1>10. Stands(c, rep)' /\ Gone(c, D)'
  BY <1>9 DEF Stands, Gone
<1>11. LoadsStand(c, ph, l, rep, ent)' /\ EntersStand(c, ph, q, ent)'
  BY <1>1, <1>2, <1>9 DEF LoadsStand, EntersStand
<1>12. PhisStand(ph, q, rep, ent)' /\ JoinsStand(ph, D, rep, ent)'
  BY <1>1, <1>3, <1>9 DEF PhisStand, JoinsStand
<1>13. LoadsGone(c, l, q, rep, ent)' /\ EntriesDown(ph, p, rep, ent)'
  BY <1>1, <1>3, <1>9 DEF LoadsGone, EntriesDown, OnSlot
<1>14. Represents(c, ph, D, p, p, l, rep, ent)'
  <2>1. Known(D, p)' = q
    BY <1>4, <1>5, <1>6
  <2>. QED
    BY <1>10, <1>11, <1>12, <1>13, <2>1 DEF Represents
<1>15. slot' \in Slots \ D
  BY <1>7
<1>. HIDE DEF P
<1>. QED
  BY <1>6, <1>8, <1>14, <1>15 DEF WalkStands, P

LEMMA ChosenIn ==
  ASSUME g' = g, orig' = orig, slot' = slot, NEW D, NEW ph, Chosen(ph, D),
         NEW ph2, \A b \in Blocks(g) : DOMAIN ph2[b] = DOMAIN ph[b], IsGraph(g)
  PROVE  Chosen(ph2, D)'
<1>1. \A b \in Reachable(g) : b \in Blocks(g)
  BY DomMembers
<1>2. \A a : \A b \in DominanceFrontier(g, DominatorSets(g), a) : b \in Blocks(g)
  <2>1. DOMAIN DominatorSets(g) \subseteq Reachable(g)
    BY DEF DominatorSets
  <2>. QED
    BY <1>1, <2>1 DEF DominanceFrontier
<1>3. \A a \in Reachable(g) : (\E j : StoresAt(a, slot, j)) \/ slot \in DOMAIN ph2[a] =>
        \A b \in DominanceFrontier(g, DominatorSets(g), a) : slot \in DOMAIN ph2[b]
  BY <1>1, <1>2 DEF Chosen
<1>. QED
  BY <1>3 DEF Chosen, StoresAt, PhisOf

LEMMA RenameStands ==
  ASSUME PromotionInvariant, TreeIsWhole, RenameBlock,
         NEW D, NEW rep, NEW ent, WalkStands(walk, code, phis, D, rep, ent), Chosen(phis, D)
  PROVE  \E rep2, ent2 : (WalkStands(walk, code, phis, D, rep2, ent2) /\ Chosen(phis, D))'
<1>. DEFINE b == Head(walk).blk
            st == RenameInstrs(b, StartOf(walk, code, phis))
<1>1. /\ g' = g /\ orig' = orig /\ preds' = preds /\ idom' = idom /\ slot' = slot
      /\ pc = "rename" /\ walk # << >>
  BY DEF RenameBlock, analysis
<1>2. /\ code' = st.code
      /\ phis' = FillPhis(st.phis, b, st.cur)
      /\ walk' = KidFrames(b, st.cur) \o Tail(walk)
  BY DEF RenameBlock, StartOf, KidFrames
<1>3. Promoting(code, phis) /\ WalkFits(walk, code, phis) /\ OrigIsSSA /\ TreeFound /\ ChildrenFit
  BY <1>1 DEF PromotionInvariant, Walked, TreeFound, TreeIsWhole, OrigIsSSA
<1>. HIDE DEF b, st
<1>4. /\ SameShape(code, phis, st.code, FillPhis(st.phis, b, st.cur))
      /\ \E rep2, ent2 :
           WalkStands(KidFrames(b, st.cur) \o Tail(walk), st.code, FillPhis(st.phis, b, st.cur), D, rep2, ent2)
  BY <1>1, <1>3, WalkStandsStep DEF b, st
<1>5. PICK w, c, ph : /\ w = KidFrames(b, st.cur) \o Tail(walk) /\ c = st.code
                      /\ ph = FillPhis(st.phis, b, st.cur)
  OBVIOUS
<1>6. PICK rep2, ent2 : WalkStands(w, c, ph, D, rep2, ent2)
  BY <1>4, <1>5
<1>7. WalkStands(w, c, ph, D, rep2, ent2)'
  BY <1>1, <1>6, WalkStandsIn
<1>8. Chosen(ph, D)'
  <2>1. \A d \in Blocks(g) : DOMAIN ph[d] = DOMAIN phis[d]
    BY <1>4, <1>5 DEF SameShape
  <2>2. PICK ph1 : ph1 = phis
    OBVIOUS
  <2>3. Chosen(ph1, D) /\ IsGraph(g) /\ \A d \in Blocks(g) : DOMAIN ph[d] = DOMAIN ph1[d]
    BY <1>3, <2>1, <2>2 DEF TreeFound
  <2>. QED
    BY <1>1, <2>3, ChosenIn
<1>9. walk' = w /\ code' = c /\ phis' = ph
  BY <1>2, <1>5
<1>. QED
  BY <1>7, <1>8, <1>9

LEMMA RenameEndsStands ==
  ASSUME IsGraph(g), RenameEnds,
         NEW D, NEW rep, NEW ent, WalkStands(walk, code, phis, D, rep, ent), Chosen(phis, D)
  PROVE  (WalkStands(walk, code, phis, D, rep, ent) /\ Chosen(phis, D))'
<1>1. /\ g' = g /\ orig' = orig /\ preds' = preds /\ idom' = idom /\ slot' = slot
      /\ code' = code /\ phis' = phis /\ walk' = walk
  BY DEF RenameEnds, analysis, renaming
<1>2. PICK w, c, ph : w = walk /\ c = code /\ ph = phis
  OBVIOUS
<1>3. WalkStands(w, c, ph, D, rep, ent) /\ Chosen(ph, D)
  BY <1>2
<1>4. WalkStands(w, c, ph, D, rep, ent)' /\ Chosen(ph, D)'
  BY <1>1, <1>3, WalkStandsIn, ChosenIn
<1>. QED
  BY <1>1, <1>2, <1>4

(***************************************************************************)
(* Where the blocks meet.                                                  *)
(***************************************************************************)

\* Of some blocks one has its dominator among the others.
LEMMA Topmost ==
  ASSUME TreeFound, NEW X, X \subseteq Reachable(g), X # {}
  PROVE  \E x \in X : x = 0 \/ idom[x] \notin X
<1>1. IsGraph(g) /\ IsFiniteSet(Blocks(g))
  BY BlocksAreFinite DEF TreeFound
<1>2. ASSUME NEW x \in Reachable(g)
      PROVE  IsFiniteSet(Dom(g, x)) /\ Cardinality(Dom(g, x)) \in Nat
  <2>1. Dom(g, x) \subseteq Blocks(g)
    BY <1>1, DomMembers
  <2>. QED
    BY <1>1, <2>1, FS_Subset, FS_CardinalityType
<1>. DEFINE S == {Cardinality(Dom(g, x)) : x \in X}
<1>3. PICK i \in S : \A j \in S : i <= j
  <2>1. S \subseteq Nat /\ S # {}
    BY <1>2
  <2>. HIDE DEF S
  <2>. QED
    BY <2>1, LeastExists
<1>4. PICK x \in X : \A z \in X : Cardinality(Dom(g, x)) <= Cardinality(Dom(g, z))
  BY <1>3
<1>5. ASSUME x # 0, idom[x] \in X
      PROVE  FALSE
  <2>1. x \in Reachable(g) \ {0} /\ idom[x] \in Reachable(g) /\ idom[x] \in Dom(g, x) /\ idom[x] # x
    BY <1>5, TreeParents
  <2>2. Dom(g, idom[x]) \subseteq Dom(g, x)
    BY <1>1, <2>1, DomUp
  <2>3. x \in Dom(g, x) /\ x \notin Dom(g, idom[x])
    BY <1>1, <2>1, DomMembers, DomAntisymmetric
  <2>4. Cardinality(Dom(g, idom[x])) < Cardinality(Dom(g, x))
    <3>1. Cardinality(Dom(g, idom[x])) <= Cardinality(Dom(g, x))
          /\ (Cardinality(Dom(g, idom[x])) = Cardinality(Dom(g, x)) => Dom(g, idom[x]) = Dom(g, x))
      BY <1>2, <2>1, <2>2, FS_Subset
    <3>2. Dom(g, idom[x]) # Dom(g, x)
      BY <2>3
    <3>3. Cardinality(Dom(g, idom[x])) \in Nat /\ Cardinality(Dom(g, x)) \in Nat
      BY <1>2, <2>1
    <3>. QED
      BY <3>1, <3>2, <3>3
  <2>5. Cardinality(Dom(g, x)) <= Cardinality(Dom(g, idom[x]))
    BY <1>4, <1>5
  <2>6. Cardinality(Dom(g, idom[x])) \in Nat /\ Cardinality(Dom(g, x)) \in Nat
    BY <1>2, <2>1
  <2>. QED
    BY <2>4, <2>5, <2>6
<1>. QED
  BY <1>4, <1>5

\* The dominators of a block are a chain.
LEMMA DomChain ==
  ASSUME TreeFound, NEW p \in Reachable(g), NEW a \in Dom(g, p), NEW b \in Dom(g, p)
  PROVE  a \in Dom(g, b) \/ b \in Dom(g, a)
<1>1. IsGraph(g)
  BY DEF TreeFound
<1>. SUFFICES ASSUME a \notin Dom(g, b), b \notin Dom(g, a)
              PROVE  FALSE
  OBVIOUS
<1>. DEFINE X == {x \in Reachable(g) : a \in Dom(g, x) /\ b \in Dom(g, x)}
<1>2. PICK x \in X : x = 0 \/ idom[x] \notin X
  <2>1. X \subseteq Reachable(g) /\ X # {}
    OBVIOUS
  <2>. HIDE DEF X
  <2>. QED
    BY <2>1, Topmost
<1>3. x \in Reachable(g) /\ a \in Dom(g, x) /\ b \in Dom(g, x) /\ a # x /\ b # x
  BY <1>2
<1>4. a \in Reachable(g) /\ b \in Reachable(g)
  BY <1>1, <1>3, DomUp
<1>5. x # 0
  BY <1>1, <1>3, <1>4, DomMembers, DomAntisymmetric
<1>6. idom[x] \in Reachable(g) /\ a \in Dom(g, idom[x]) /\ b \in Dom(g, idom[x])
  BY <1>3, <1>5, TreeParents
<1>. QED
  BY <1>2, <1>5, <1>6

LEMMA ContentExists ==
  ASSUME OrigIsSSA, NEW b \in Blocks(g), NEW rep, NEW ent, NEW v, NEW k \in 1 .. End(b)
  PROVE  \E x : IsContent(rep, ent, b, v, k, x)
<1>. DEFINE n == Len(orig[b])
            S == {j \in 0 .. n : \E x : IsContent(rep, ent, b, v, j + 1, x)}
<1>1. n \in Nat /\ k - 1 \in 0 .. n /\ (k - 1) + 1 = k
  BY SSAFacts DEF End
<1>. HIDE DEF n
<1>2. 0 \in S
  <2>1. IsContent(rep, ent, b, v, 1, ent[v][b])
    BY ContentFirst
  <2>2. 0 + 1 = 1 /\ 0 \in 0 .. n
    BY <1>1
  <2>. QED
    BY <2>1, <2>2
<1>3. ASSUME NEW j \in 1 .. n, j - 1 \in S
      PROVE  j \in S
  <2>1. PICK x : IsContent(rep, ent, b, v, j, x)
    <3>1. (j - 1) + 1 = j
      OBVIOUS
    <3>. QED
      BY <1>3, <3>1
  <2>2. PICK y : y = IF StoresAt(b, v, j) THEN rep[orig[b][j].val] ELSE x
    OBVIOUS
  <2>3. IF StoresAt(b, v, j) THEN y = rep[orig[b][j].val] ELSE IsContent(rep, ent, b, v, j, y)
    BY <2>1, <2>2
  <2>4. j \in Nat
    OBVIOUS
  <2>5. IsContent(rep, ent, b, v, j + 1, y)
    BY <2>3, <2>4, ContentNext
  <2>. QED
    BY <2>5
<1>4. 0 .. n \subseteq S
  <2>. HIDE DEF S
  <2>. QED
    BY <1>1, <1>2, <1>3, UpTo
<1>. QED
  BY <1>1, <1>4

\* Where a block has no phi of the slot each of its predecessors ends with what
\* it begins with: were they different, one of the blocks in whose frontier it
\* is would have given the slot a value.
LEMMA JoinsFollow ==
  ASSUME TreeFound, OrigIsSSA, NEW c, NEW ph, NEW D, slot \in Slots \ D, NEW L, NEW rep, NEW ent,
         Represents(c, ph, D, Reachable(g), Reachable(g), L, rep, ent), Chosen(ph, D),
         NEW p \in Reachable(g), NEW b \in Succs(g, p), slot \notin DOMAIN ph[b]
  PROVE  IsContent(rep, ent, p, slot, End(p), ent[slot][b])
<1>1. IsGraph(g) /\ b \in Reachable(g) /\ \A d \in Reachable(g) : d \in Blocks(g)
  BY EdgeReaches, DomMembers DEF TreeFound
<1>2. \A d \in Reachable(g) : slot \notin DOMAIN ph[d] =>
        IF d = 0 THEN ent[slot][d] = Undef
        ELSE IsContent(rep, ent, idom[d], slot, End(idom[d]), ent[slot][d])
  BY DEF Represents, EntriesDown
<1>3. PICK y : IsContent(rep, ent, p, slot, End(p), y)
  <2>1. End(p) \in 1 .. End(p)
    BY <1>1, SSAFacts DEF End
  <2>. QED
    BY <1>1, <2>1, ContentExists
<1>4. \A d \in Reachable(g) \ {0} :
        /\ idom[d] \in Reachable(g) /\ idom[d] \in Dom(g, d) /\ idom[d] # d
        /\ \A a \in Dom(g, d) : a = d \/ a \in Dom(g, idom[d])
  BY TreeParents
<1>. DEFINE U == {x \in Dom(g, p) : x = b \/ x \notin Dom(g, b)}
            X == {x \in U : IsContent(rep, ent, x, slot, End(x), y)}
<1>5. b # 0 \/ b \in Dom(g, p)
  BY <1>1, DomMembers
<1>6. ASSUME NEW a \in Dom(g, b), a # b
      PROVE  b # 0 /\ a \in Dom(g, p)
  BY <1>1, <1>6, DomPreds, DomMembers, DomUp, DomAntisymmetric
<1>7. CASE p \notin U
  <2>1. p \in Dom(g, b) /\ p # b
    BY <1>1, <1>7, DomMembers
  <2>2. b # 0 /\ idom[b] \in Dom(g, b) /\ idom[b] # b /\ p \in Dom(g, idom[b]) /\ idom[b] \in Dom(g, p)
    BY <1>1, <1>4, <1>6, <2>1
  <2>3. p = idom[b]
    BY <1>1, <2>2, DomAntisymmetric
  <2>. QED
    BY <1>1, <1>2, <2>2, <2>3
<1>8. CASE p \in U
  <2>1. PICK x \in X : x = 0 \/ idom[x] \notin X
    <3>1. X \subseteq Reachable(g) /\ X # {}
      BY <1>1, <1>3, <1>8, DomUp
    <3>. HIDE DEF X
    <3>. QED
      BY <3>1, Topmost
  <2>2. x \in Dom(g, p) /\ (x = b \/ x \notin Dom(g, b)) /\ IsContent(rep, ent, x, slot, End(x), y) /\ x \in Reachable(g)
    BY <1>1, <2>1, DomUp
  <2>3. b \in DominanceFrontier(g, DominatorSets(g), x)
    BY <1>1, <2>2, DomMembers DEF DominanceFrontier, Dom
  <2>4. slot \notin DOMAIN ph[x] /\ \A j : ~StoresAt(x, slot, j)
    BY <2>2, <2>3 DEF Chosen
  <2>5. y = ent[slot][x]
    <3>1. IsContent(rep, ent, x, slot, End(x), ent[slot][x])
      BY <2>4, <1>1, <2>2, ContentThrough
    <3>. QED
      BY <1>1, <2>2, <3>1, ContentUnique
  <2>6. CASE x = b
    BY <1>3, <2>5, <2>6
  <2>7. CASE x # b
    <3>1. x # 0
      BY <1>1, <2>2, <2>7, DomMembers
    <3>2. idom[x] \in Reachable(g) /\ IsContent(rep, ent, idom[x], slot, End(idom[x]), y)
      BY <1>2, <1>4, <2>2, <2>4, <2>5, <3>1
    <3>3. idom[x] \in Dom(g, p)
      BY <1>1, <1>4, <2>2, <3>1, DomUp
    <3>4. idom[x] \in Dom(g, b) /\ idom[x] # b
      BY <2>1, <3>1, <3>2, <3>3
    <3>5. b # 0 /\ idom[b] \in Dom(g, b) /\ idom[b] # b /\ idom[b] \in Reachable(g)
      BY <1>1, <1>4, <1>6, <3>4
    <3>6. idom[b] \in Dom(g, p)
      BY <1>6, <3>5
    <3>7. idom[b] \in Dom(g, x)
      <4>1. idom[b] \in Dom(g, x) \/ x \in Dom(g, idom[b])
        BY <2>2, <3>6, DomChain
      <4>2. x \in Dom(g, idom[b]) => x \in Dom(g, b)
        BY <1>1, <3>5, DomUp
      <4>. QED
        BY <2>2, <2>7, <4>1, <4>2
    <3>8. idom[b] # x
      BY <2>2, <2>7, <3>5
    <3>9. idom[b] \in Dom(g, idom[x]) /\ idom[x] \in Dom(g, idom[b])
      BY <1>1, <1>4, <2>2, <3>1, <3>4, <3>5, <3>7, <3>8
    <3>10. idom[b] = idom[x]
      BY <1>1, <3>2, <3>9, DomAntisymmetric
    <3>11. IsContent(rep, ent, idom[b], slot, End(idom[b]), ent[slot][b])
      BY <1>1, <1>2, <3>5
    <3>12. ent[slot][b] = y
      BY <1>1, <3>2, <3>10, <3>11, ContentUnique
    <3>. QED
      BY <1>3, <3>12
  <2>. QED
    BY <2>6, <2>7
<1>. QED
  BY <1>7, <1>8

\* When the walk has passed all blocks the slot is promoted.
LEMMA RemoveStands ==
  ASSUME PromotionInvariant, TreeIsWhole, RemoveDead,
         NEW D, NEW rep, NEW ent, WalkStands(walk, code, phis, D, rep, ent), Chosen(phis, D)
  PROVE  \E E : RestStands(code, phis, E, rep, ent)'
<1>. DEFINE results == {i.res : i \in UNION {Loads(b) : b \in Blocks(g)}}
            left == redirect_instrs(code, results, Undef)
            c2 == [b \in Blocks(g) |->
                     [k \in {j \in DOMAIN code[b] : ~(code[b][j].op \in {"load", "store"} /\ code[b][j].var = slot)} |->
                        left[b][k]]]
            ph2 == redirect_phis(phis, results, Undef)
            R == Reachable(g)
            D2 == D \cup {slot}
            none == {}
<1>1. /\ g' = g /\ orig' = orig /\ preds' = preds /\ idom' = idom
      /\ code' = c2 /\ phis' = ph2
      /\ pc = "remove" /\ pc' = "analysed"
  BY DEF RemoveDead, analysis
<1>2. /\ Promoting(code, phis) /\ WalkFits(walk, code, phis) /\ walk = << >> /\ OrigIsSSA /\ TreeFound /\ IsGraph(g)
      /\ IsRest(code) /\ PhisFit(phis) /\ DefsDominate(code, phis)
  BY <1>1 DEF PromotionInvariant, Walked, Promoting, TreeFound, TreeIsWhole, OrigIsSSA
<1>3. /\ PassedBlocks(walk) = R /\ \A d \in R : d \in Blocks(g) /\ Dom(g, d) \subseteq R
  <2>1. \A d : Passed(walk, d)
    BY <1>2 DEF Passed
  <2>. QED
    BY <1>2, <2>1, DomMembers, DomUp DEF PassedBlocks
<1>4. slot \in Slots \ D /\ Represents(code, phis, D, R, R, LoadsIn(D, R), rep, ent)
  BY <1>3 DEF WalkStands
<1>5. D \subseteq Slots /\ D2 \subseteq Slots
  BY <1>4 DEF Represents, Gone
<1>6. /\ \A v \in Slots : /\ Known(D, R)[v] = IF v \in D2 THEN R ELSE {}
                          /\ Known(D2, none)[v] = IF v \in D2 THEN R ELSE {}
      /\ LoadsIn(D, R) = LoadsIn(D2, none)
  <2>1. \A v \in Slots : Known(D, R)[v] = IF v \in D2 THEN R ELSE {}
    BY DEF Known
  <2>2. \A v \in Slots : Known(D2, none)[v] = IF v \in D2 THEN R ELSE {}
    BY DEF Known
  <2>3. LoadsIn(D, R) = LoadsIn(D2, none)
    BY <2>1, <2>2 DEF LoadsIn
  <2>. QED
    BY <2>1, <2>2, <2>3
<1>7. \A d, j : IsSlotLoad(code, d, j) => <<d, j>> \in LoadsIn(D, R)
  <2>1. ASSUME NEW d, NEW j, IsSlotLoad(code, d, j)
        PROVE  d \in R /\ j \in DOMAIN orig[d] /\ orig[d][j].op = "load" /\ orig[d][j].var = slot
    BY <1>2, <1>3, <2>1 DEF IsSlotLoad, OnSlot, IsRest
  <2>2. \A d, j : <<d, j>> \in LoadsIn(D, R) <=>
           /\ d \in Reachable(g) /\ j \in DOMAIN orig[d] /\ orig[d][j].op = "load"
           /\ orig[d][j].var \in D \/ (orig[d][j].var = slot /\ slot \in Slots /\ d \in R)
    BY <1>2, <1>5, LoadsInMembers
  <2>. QED
    BY <1>4, <2>1, <2>2
<1>8. /\ \A x \in DOMAIN rep : ~IsSlotResult(code, rep[x])
      /\ \A v \in D2 : \A d \in R : ~IsSlotResult(code, ent[v][d])
  <2>1. ASSUME NEW y, IsSlotResult(code, y)
        PROVE  /\ \A x \in DOMAIN rep : rep[x] # y
               /\ \A v \in Slots : \A d \in Known(D, R)[v] : ent[v][d] # y
    <3>1. PICK d \in R : \E j \in DOMAIN code[d] : IsSlotLoad(code, d, j) /\ code[d][j].res = y
      BY <2>1 DEF IsSlotResult
    <3>2. PICK j \in DOMAIN code[d] : IsSlotLoad(code, d, j) /\ code[d][j].res = y
      BY <3>1
    <3>3. <<d, j>> \in LoadsIn(D, R) /\ OnSlot(code, d, j, "load")
      BY <1>7, <3>2 DEF IsSlotLoad
    <3>. QED
      BY <1>4, <3>1, <3>2, <3>3 DEF Represents, LoadsGone
  <2>2. \A v \in D2 : v \in Slots /\ Known(D, R)[v] = R
    BY <1>5, <1>6
  <2>. QED
    BY <2>1, <2>2
<1>9. IsRedirect(code, phis, results, Undef, left, ph2)
  <2>. HIDE DEF results
  <2>. QED
    BY RedirectMembers
<1>10. ASSUME NEW b \in Blocks(g)
       PROVE  /\ DOMAIN c2[b] = {j \in DOMAIN code[b] : ~(code[b][j].op \in {"load", "store"} /\ code[b][j].var = slot)}
              /\ \A k \in DOMAIN c2[b] : c2[b][k] = left[b][k]
  <2>. HIDE DEF left
  <2>. QED
    OBVIOUS
<1>11. \A x \in results : \E d \in Blocks(g) : \E j \in DOMAIN code[d] : OnSlot(code, d, j, "load") /\ code[d][j].res = x
  BY DEF Loads, Range, OnSlot
<1>. HIDE DEF results, left, c2, ph2, R, D2
<1>12. ASSUME NEW x, NEW b \in R, NEW k, InForce(code, phis, x, b, k), x \in results
       PROVE  IsSlotResult(code, x)
  <2>1. PICK d \in Blocks(g) : \E j \in DOMAIN code[d] : OnSlot(code, d, j, "load") /\ code[d][j].res = x
    BY <1>11, <1>12
  <2>2. PICK j \in DOMAIN code[d] : OnSlot(code, d, j, "load") /\ code[d][j].res = x
    BY <2>1
  <2>3. j \in DOMAIN orig[d] /\ orig[d][j].op = "load" /\ orig[d][j].res = x /\ x[1] = "load"
    BY <1>2, <2>1, <2>2, SSAFacts DEF OnSlot, IsRest
  <2>4. PICK e \in Dom(g, b) : \E h \in DOMAIN code[e] : code[e][h].res = x
    <3>1. IsResult(x) /\ x[1] # "phi"
      BY <2>3 DEF IsResult
    <3>2. \/ ~IsResult(x)
          \/ x[1] = "phi"  /\ x[2] \in Dom(g, b) /\ x[3] \in DOMAIN phis[x[2]]
          \/ x[1] = "load" /\ \E e \in Dom(g, b) : \E h \in DOMAIN code[e] : code[e][h].res = x /\ (e = b => h < k)
      BY <1>12 DEF InForce, DefinedAt, Dom
    <3>. QED
      BY <3>1, <3>2
  <2>5. PICK h \in DOMAIN code[e] : code[e][h].res = x
    BY <2>4
  <2>6. e \in R /\ e \in Blocks(g)
    BY <1>3, <2>4
  <2>7. h \in DOMAIN orig[e] /\ orig[e][h].res = x
    BY <1>2, <2>5, <2>6 DEF IsRest
  <2>8. e = d /\ h = j
    BY <1>2, <2>3, <2>6, <2>7, SSAFacts
  <2>. QED
    BY <2>2, <2>6, <2>8 DEF IsSlotResult, IsSlotLoad, R
<1>13. \A x : IsSlotResult(code, x) => Unused(code, phis, x)
  <2>1. \A e : Passed(walk, e)
    BY <1>2 DEF Passed
  <2>. QED
    BY <1>2, <2>1 DEF WalkFits, IsSlotResult
<1>14. ASSUME NEW b \in R, NEW k \in DOMAIN c2[b]
       PROVE  k \in DOMAIN code[b] /\ c2[b][k].val = code[b][k].val
  <2>1. k \in DOMAIN code[b] /\ c2[b][k] = left[b][k] /\ b \in Blocks(g)
    BY <1>3, <1>10
  <2>2. InForce(code, phis, code[b][k].val, b, k) /\ ~Unused(code, phis, code[b][k].val)
    BY <1>2, <2>1, DefsDominateMembers DEF Unused, R
  <2>3. code[b][k].val \notin results
    BY <1>12, <1>13, <2>2
  <2>4. left[b][k].val = code[b][k].val
    BY <1>9, <2>1, <2>3 DEF IsRedirect, Redirected
  <2>. QED
    BY <2>1, <2>4
<1>15. \A b \in Blocks(g) : DOMAIN ph2[b] = DOMAIN phis[b]
  BY <1>9 DEF IsRedirect, SameShape
<1>16. ASSUME NEW b \in R, NEW v \in DOMAIN phis[b], NEW i \in DOMAIN preds[b], preds[b][i] \in R
       PROVE  ph2[b][v][i] = phis[b][v][i]
  <2>1. b \in Blocks(g) /\ i \in DOMAIN phis[b][v]
    BY <1>2, <1>3 DEF PhisFit
  <2>2. InForce(code, phis, phis[b][v][i], preds[b][i], Len(orig[preds[b][i]]) + 1) /\ ~Unused(code, phis, phis[b][v][i])
    BY <1>2, <1>16, <2>1, DefsDominateMembers DEF Unused, R
  <2>3. phis[b][v][i] \notin results
    BY <1>12, <1>13, <1>16, <2>2
  <2>. QED
    BY <1>9, <2>1, <2>3 DEF IsRedirect, Redirected
<1>17. ASSUME NEW x, NEW b \in R, NEW k, InForce(code, phis, x, b, k), ~IsSlotResult(code, x)
       PROVE  InForce(c2, ph2, x, b, k)
  <2>1. Dom(g, b) \subseteq R /\ b \in Reachable(g)
    BY <1>3 DEF R
  <2>2. CASE x[1] = "phi" /\ x[2] \in Dom(g, b) /\ x[3] \in DOMAIN phis[x[2]]
    <3>1. x[3] \in DOMAIN ph2[x[2]]
      BY <1>3, <1>15, <2>1, <2>2
    <3>. QED
      BY <1>2, <2>1, <2>2, <3>1, InForceMembers
  <2>3. CASE x[1] = "load" /\ \E d \in Dom(g, b) : \E j \in DOMAIN code[d] : code[d][j].res = x /\ (d = b => j < k)
    <3>1. PICK d \in Dom(g, b) : \E j \in DOMAIN code[d] : code[d][j].res = x /\ (d = b => j < k)
      BY <2>3
    <3>2. PICK j \in DOMAIN code[d] : code[d][j].res = x /\ (d = b => j < k)
      BY <3>1
    <3>3. d \in R /\ d \in Blocks(g)
      BY <1>3, <2>1
    <3>4. code[d][j].op = "load"
      <4>1. j \in DOMAIN orig[d] /\ orig[d][j].op = code[d][j].op /\ orig[d][j].res[1] = "load"
        BY <1>2, <2>3, <3>2, <3>3 DEF IsRest
      <4>. QED
        BY <1>2, <3>3, <4>1, SSAFacts
    <3>5. code[d][j].var # slot
      BY <1>17, <3>2, <3>3, <3>4 DEF IsSlotLoad, OnSlot, IsSlotResult, R
    <3>6. j \in DOMAIN c2[d] /\ c2[d][j].res = x
      <4>1. j \in DOMAIN c2[d] /\ c2[d][j] = left[d][j]
        BY <1>10, <3>3, <3>5
      <4>. QED
        BY <1>9, <3>2, <3>3, <4>1 DEF IsRedirect, SameShape
    <3>. QED
      BY <1>2, <2>1, <2>3, <3>2, <3>6, InForceMembers
  <2>4. CASE ~IsResult(x)
    BY <2>4 DEF InForce, DefinedAt
  <2>5. \/ ~IsResult(x)
        \/ x[1] = "phi"  /\ x[2] \in Dom(g, b) /\ x[3] \in DOMAIN phis[x[2]]
        \/ x[1] = "load" /\ \E d \in Dom(g, b) : \E j \in DOMAIN code[d] : code[d][j].res = x /\ (d = b => j < k)
    BY <1>17 DEF InForce, DefinedAt, Dom
  <2>. QED
    BY <2>2, <2>3, <2>4, <2>5
<1>. DEFINE L == LoadsIn(D2, none)
<1>18. \A d, j : <<d, j>> \in L => d \in R /\ j \in DOMAIN orig[d] /\ orig[d][j].op = "load" /\ orig[d][j].var \in D2
  BY <1>2, <1>5, KnownAtRest DEF none, R
<1>19. /\ Stands(code, rep) /\ Gone(code, D)
       /\ LoadsStand(code, phis, L, rep, ent)
       /\ EntersStand(code, phis, Known(D, R), ent)
       /\ PhisStand(phis, Known(D, R), rep, ent)
       /\ JoinsStand(phis, D, rep, ent)
  BY <1>4, <1>6 DEF Represents
<1>. HIDE DEF L, none
<1>20. Stands(c2, rep)
  <2>1. ASSUME NEW b \in R, NEW k \in DOMAIN c2[b]
        PROVE  c2[b][k].val = rep[orig[b][k].val]
    BY <1>14, <1>19 DEF Stands, R
  <2>. QED
    BY <1>19, <2>1 DEF Stands, R
<1>21. Gone(c2, D2)
  <2>1. ASSUME NEW b \in Blocks(g), NEW k \in DOMAIN orig[b]
        PROVE  /\ k \notin DOMAIN c2[b] <=> orig[b][k].op \in {"load", "store"} /\ orig[b][k].var \in D2
               /\ orig[b][k].op = "call" => orig[b][k].var \notin D2
    <3>1. k \in DOMAIN c2[b] <=> k \in DOMAIN code[b] /\ ~(code[b][k].op \in {"load", "store"} /\ code[b][k].var = slot)
      BY <1>10
    <3>2. k \notin DOMAIN code[b] <=> orig[b][k].op \in {"load", "store"} /\ orig[b][k].var \in D
      BY <1>19 DEF Gone
    <3>3. k \in DOMAIN code[b] => code[b][k].op = orig[b][k].op /\ code[b][k].var = orig[b][k].var
      BY <1>2 DEF IsRest
    <3>4. orig[b][k].op = "call" => orig[b][k].var \notin D /\ orig[b][k].var # slot
      BY <1>19 DEF Gone, Chosen
    <3>. QED
      BY <3>1, <3>2, <3>3, <3>4 DEF D2
  <2>. QED
    BY <1>5, <2>1 DEF Gone
<1>22. LoadsStand(c2, ph2, L, rep, ent)
  <2>1. SUFFICES ASSUME NEW b \in Reachable(g), NEW k \in DOMAIN orig[b], orig[b][k].op = "load"
                 PROVE  IF <<b, k>> \in L
                        THEN /\ IsContent(rep, ent, b, orig[b][k].var, k, rep[orig[b][k].res])
                             /\ InForce(c2, ph2, rep[orig[b][k].res], b, k)
                        ELSE rep[orig[b][k].res] = orig[b][k].res
    BY DEF LoadsStand
  <2>. DEFINE x == rep[orig[b][k].res]
  <2>2. IF <<b, k>> \in L
        THEN IsContent(rep, ent, b, orig[b][k].var, k, x) /\ InForce(code, phis, x, b, k)
        ELSE x = orig[b][k].res
    BY <1>19, <2>1 DEF LoadsStand
  <2>3. ~IsSlotResult(code, x)
    BY <1>3, <1>8, <1>19 DEF Stands, R
  <2>. HIDE DEF x
  <2>4. <<b, k>> \in L => InForce(c2, ph2, x, b, k)
    BY <1>17, <2>2, <2>3 DEF R
  <2>. QED
    BY <2>2, <2>4 DEF x
<1>23. EntersStand(c2, ph2, Known(D2, none), ent)
  <2>1. SUFFICES ASSUME NEW v \in Slots, NEW b \in Known(D2, none)[v]
                 PROVE  /\ b \in Reachable(g)
                        /\ InForce(c2, ph2, ent[v][b], b, 1)
                        /\ v \in DOMAIN ph2[b] => ent[v][b] = Phi(b, v)
                        /\ v \notin DOMAIN ph2[b] => \A u : ent[v][b] # Phi(b, u)
    BY DEF EntersStand
  <2>2. v \in D2 /\ b \in R /\ b \in Known(D, R)[v]
    BY <1>6
  <2>3. /\ InForce(code, phis, ent[v][b], b, 1)
        /\ v \in DOMAIN phis[b] => ent[v][b] = Phi(b, v)
        /\ v \notin DOMAIN phis[b] => \A u : ent[v][b] # Phi(b, u)
    BY <1>19, <2>2 DEF EntersStand
  <2>4. InForce(c2, ph2, ent[v][b], b, 1)
    BY <1>8, <1>17, <2>2, <2>3
  <2>. QED
    BY <1>3, <1>15, <2>2, <2>3, <2>4 DEF R
<1>24. PhisStand(ph2, Known(D2, none), rep, ent)
  <2>1. SUFFICES ASSUME NEW v \in Slots, NEW p \in Known(D2, none)[v], NEW b \in Succs(g, p), v \in DOMAIN ph2[b],
                        NEW i \in DOMAIN preds[b], preds[b][i] = p
                 PROVE  IsContent(rep, ent, p, v, End(p), ph2[b][v][i])
    BY DEF PhisStand
  <2>2. p \in R /\ p \in Known(D, R)[v]
    BY <1>6
  <2>3. b \in R
    BY <1>2, <2>2, EdgeReaches DEF R
  <2>4. v \in DOMAIN phis[b]
    BY <1>3, <1>15, <2>1, <2>3
  <2>5. ph2[b][v][i] = phis[b][v][i]
    BY <1>16, <2>1, <2>2, <2>3, <2>4
  <2>6. IsContent(rep, ent, p, v, End(p), phis[b][v][i])
    BY <1>19, <2>1, <2>2, <2>4 DEF PhisStand
  <2>. QED
    BY <2>5, <2>6
<1>25. JoinsStand(ph2, D2, rep, ent)
  <2>1. SUFFICES ASSUME NEW v \in D2, NEW p \in Reachable(g), NEW b \in Succs(g, p), v \notin DOMAIN ph2[b]
                 PROVE  IsContent(rep, ent, p, v, End(p), ent[v][b])
    BY DEF JoinsStand
  <2>2. v \notin DOMAIN phis[b]
    <3>1. b \in R
      BY <1>2, EdgeReaches DEF R
    <3>. QED
      BY <1>3, <1>15, <2>1, <3>1
  <2>3. CASE v \in D
    BY <1>19, <2>2, <2>3 DEF JoinsStand
  <2>4. CASE v = slot
    <3>1. IsContent(rep, ent, p, slot, End(p), ent[slot][b])
      BY <1>2, <1>4, <2>2, <2>4, JoinsFollow DEF R
    <3>. QED
      BY <2>4, <3>1
  <2>. QED
    BY <2>3, <2>4 DEF D2
<1>26. LoadsGone(c2, L, Known(D2, none), rep, ent)
  <2>1. \A d \in R : \A j : <<d, j>> \in L => j \notin DOMAIN c2[d]
    BY <1>3, <1>18, <1>21 DEF Gone
  <2>. QED
    BY <2>1 DEF LoadsGone, OnSlot, R
<1>27. EntriesDown(ph2, none, rep, ent)
  BY DEF EntriesDown, none
<1>28. PICK c, ph : c = c2 /\ ph = ph2
  OBVIOUS
<1>29. Represents(c, ph, D2, {}, {}, LoadsIn(D2, {}), rep, ent)
  BY <1>20, <1>21, <1>22, <1>23, <1>24, <1>25, <1>26, <1>27, <1>28 DEF Represents, L, none
<1>30. PICK E : E = D2
  OBVIOUS
<1>31. Represents(c, ph, E, {}, {}, LoadsIn(E, {}), rep, ent)'
  <2>1. Represents(c, ph, E, {}, {}, LoadsIn(E, {}), rep, ent)
    BY <1>29, <1>30
  <2>. QED
    BY <1>1, <1>2, <2>1, RestMoves
<1>32. PhisOf(phis, E)'
  BY <1>1, <1>15, <1>30 DEF Chosen, PhisOf, D2
<1>33. IsRest(code)' /\ PhisFit(phis)'
  <2>1. PromotionInvariant'
    BY RemoveDeadPromotes
  <2>2. TreeIsWhole'
    BY <1>1, TreeStays
  <2>. QED
    BY <1>1, <2>1, <2>2 DEF PromotionInvariant, Rested
<1>34. RestStands(code, phis, E, rep, ent)'
  BY <1>1, <1>28, <1>31, <1>32, <1>33 DEF RestStands
<1>. QED
  BY <1>34

(***************************************************************************)
(* The two runs.                                                           *)
(***************************************************************************)

\* x is a value of the original program that is known before the k-th
\* instruction of block b.
Loaded(x, b, k) ==
  \/ ~IsResult(x)
  \/ \E d \in Dom(g, b) : \E j \in DOMAIN orig[d] :
       orig[d][j].op = "load" /\ orig[d][j].res = x /\ (d = b => j < k)

LEMMA ValuesAreLoaded ==
  ASSUME OrigIsSSA, NEW b \in Reachable(g), NEW k \in DOMAIN orig[b]
  PROVE  Loaded(orig[b][k].val, b, k)
<1>. DEFINE ph == [d \in Blocks(g) |-> << >>]
            x == orig[b][k].val
<1>1. IsGraph(g) /\ DefsDominate(orig, ph)
  BY OrigRests DEF OrigIsSSA
<1>2. \A d : d \in Blocks(g) => DOMAIN ph[d] = {}
  OBVIOUS
<1>. HIDE DEF ph
<1>3. InForce(orig, ph, x, b, k)
  BY <1>1, DefsDominateMembers
<1>. HIDE DEF x
<1>4. \/ ~IsResult(x)
      \/ x[1] = "phi"  /\ x[2] \in Dom(g, b) /\ x[3] \in DOMAIN ph[x[2]]
      \/ x[1] = "load" /\ \E d \in Dom(g, b) : \E j \in DOMAIN orig[d] : orig[d][j].res = x /\ (d = b => j < k)
  BY <1>3 DEF InForce, DefinedAt, Dom
<1>5. \A d \in Dom(g, b) : d \in Blocks(g)
  BY <1>1, DomMembers
<1>6. ~ (x[1] = "phi" /\ x[2] \in Dom(g, b) /\ x[3] \in DOMAIN ph[x[2]])
  BY <1>2, <1>5
<1>7. \A d \in Dom(g, b) : \A j \in DOMAIN orig[d] : orig[d][j].res = x /\ x[1] = "load" => orig[d][j].op = "load"
  BY <1>5, SSAFacts
<1>8. Loaded(x, b, k)
  BY <1>4, <1>6, <1>7 DEF Loaded
<1>. QED
  BY <1>8 DEF x

\* What is in force somewhere is in force further down.
LEMMA InForceDown ==
  ASSUME OrigIsSSA, NEW c, NEW ph, IsRest(c), NEW b \in Reachable(g), NEW d \in Dom(g, b),
         NEW j \in Nat, NEW k \in Nat, d = b => j <= k, NEW x, InForce(c, ph, x, d, j)
  PROVE  InForce(c, ph, x, b, k)
<1>1. IsGraph(g) /\ d \in Reachable(g) /\ Dom(g, d) \subseteq Dom(g, b)
  BY DomUp DEF OrigIsSSA
<1>2. \/ ~IsResult(x)
      \/ x[1] = "phi"  /\ x[2] \in Dom(g, d) /\ x[3] \in DOMAIN ph[x[2]]
      \/ x[1] = "load" /\ \E e \in Dom(g, d) : \E h \in DOMAIN c[e] : c[e][h].res = x /\ (e = d => h < j)
  BY DEF InForce, DefinedAt, Dom
<1>3. ASSUME NEW e \in Dom(g, d), NEW h \in DOMAIN c[e], c[e][h].res = x, e = d => h < j
      PROVE  e \in Dom(g, b) /\ (e = b => h < k)
  <2>1. e \in Dom(g, b) /\ e \in Blocks(g)
    BY <1>1, DomMembers
  <2>2. h \in Nat
    BY <2>1, SSAFacts DEF IsRest
  <2>3. e = b => e = d /\ d = b
    BY <1>1, <1>3, DomAntisymmetric
  <2>. QED
    BY <1>3, <2>1, <2>2, <2>3
<1>4. \/ ~IsResult(x)
      \/ x[1] = "phi"  /\ x[2] \in Dom(g, b) /\ x[3] \in DOMAIN ph[x[2]]
      \/ x[1] = "load" /\ \E e \in Dom(g, b) : \E h \in DOMAIN c[e] : c[e][h].res = x /\ (e = b => h < k)
  BY <1>1, <1>2, <1>3
<1>. QED
  BY <1>1, <1>4, InForceMembers

\* What stands for a value that is known is in force.
LEMMA LoadedInForce ==
  ASSUME OrigIsSSA, NEW c, NEW ph, NEW D, NEW rep, NEW ent, RestStands(c, ph, D, rep, ent),
         NEW b \in Reachable(g), NEW k \in Nat, NEW x \in DOMAIN rep, Loaded(x, b, k)
  PROVE  InForce(c, ph, rep[x], b, k)
<1>1. IsRest(c) /\ Stands(c, rep) /\ Gone(c, D) /\ LoadsStand(c, ph, LoadsIn(D, {}), rep, ent)
  BY DEF RestStands, Represents
<1>2. CASE ~IsResult(x)
  <2>1. rep[x] = x
    BY <1>1, <1>2 DEF Stands
  <2>. QED
    BY <1>2, <2>1 DEF InForce, DefinedAt
<1>3. ASSUME NEW d \in Dom(g, b), NEW j \in DOMAIN orig[d],
             orig[d][j].op = "load", orig[d][j].res = x, d = b => j < k
      PROVE  InForce(c, ph, rep[x], b, k)
  <2>1. IsGraph(g) /\ d \in Reachable(g) /\ d \in Blocks(g) /\ j \in Nat
    BY <1>3, DomUp, DomMembers, SSAFacts DEF OrigIsSSA
  <2>2. CASE <<d, j>> \in LoadsIn(D, {})
    <3>1. InForce(c, ph, rep[x], d, j)
      BY <1>1, <1>3, <2>1, <2>2 DEF LoadsStand
    <3>2. d = b => j <= k
      BY <1>3, <2>1
    <3>. HIDE DEF InForce
    <3>. QED
      BY <1>1, <2>1, <3>1, <3>2, InForceDown
  <2>3. CASE <<d, j>> \notin LoadsIn(D, {})
    <3>1. rep[x] = x
      BY <1>1, <1>3, <2>1, <2>3 DEF LoadsStand
    <3>2. orig[d][j].var \notin D
      BY <1>1, <1>3, <2>1, <2>3, KnownAtRest DEF Gone
    <3>3. j \in DOMAIN c[d]
      BY <1>1, <2>1, <3>2 DEF Gone
    <3>4. c[d][j].res = x /\ x[1] = "load"
      BY <1>1, <1>3, <2>1, <3>3, SSAFacts DEF IsRest
    <3>. QED
      BY <1>3, <2>1, <3>1, <3>3, <3>4, InForceMembers
  <2>. QED
    BY <2>2, <2>3
<1>. QED
  BY <1>2, <1>3 DEF Loaded

LEMMA ContentInForce ==
  ASSUME OrigIsSSA, NEW c, NEW ph, NEW D, NEW rep, NEW ent, RestStands(c, ph, D, rep, ent),
         NEW b \in Reachable(g), NEW k \in Nat \ {0}, NEW v \in D, NEW x, IsContent(rep, ent, b, v, k, x)
  PROVE  InForce(c, ph, x, b, k)
<1>1. IsRest(c) /\ Stands(c, rep) /\ Gone(c, D) /\ EntersStand(c, ph, Known(D, {}), ent)
  BY DEF RestStands, Represents
<1>2. IsGraph(g) /\ b \in Dom(g, b) /\ b \in Blocks(g) /\ v \in Slots /\ D \subseteq Slots
  BY <1>1, DomMembers DEF OrigIsSSA, Gone
<1>3. CASE x = ent[v][b]
  <2>1. b \in Known(D, {})[v]
    BY <1>2, KnownAtRest
  <2>2. InForce(c, ph, x, b, 1)
    BY <1>1, <1>2, <1>3, <2>1 DEF EntersStand
  <2>3. 1 \in Nat /\ 1 <= k
    OBVIOUS
  <2>. QED
    BY <1>1, <1>2, <2>2, <2>3, InForceDown
<1>4. ASSUME NEW j, StoresAt(b, v, j), j < k, x = rep[orig[b][j].val]
      PROVE  InForce(c, ph, x, b, k)
  <2>1. j \in DOMAIN orig[b] /\ j \in Nat
    BY <1>2, <1>4, StoreNumbers DEF StoresAt
  <2>2. Loaded(orig[b][j].val, b, j) /\ orig[b][j].val \in DOMAIN rep
    BY <1>1, <1>2, <2>1, ValuesAreLoaded DEF Stands
  <2>3. InForce(c, ph, x, b, j)
    BY <1>4, <2>1, <2>2, LoadedInForce
  <2>4. j <= k
    BY <1>4, <2>1
  <2>. QED
    BY <1>1, <1>2, <2>1, <2>3, <2>4, InForceDown
<1>. QED
  BY <1>3, <1>4 DEF IsContent

\* y is what the original program has as x, unless that is undefined.
Kept(x, y) == x = Undef \/ y = x

Shown(o1, o2) ==
  \E S : o1 \in Seq(S) /\ o2 \in Seq(S) /\ Len(o1) = Len(o2) /\ \A i \in 1 .. Len(o1) : Kept(o1[i], o2[i])

\* Before the k-th instruction of block b run a of the original program and run
\* z of the promoted one have the same.
Agrees(D, rep, ent, b, k, a, z) ==
  /\ DOMAIN a.mem = Slots /\ DOMAIN z.mem = Slots
  /\ \A v \in Slots \ D : Kept(a.mem[v], z.mem[v])
  /\ \A v \in D : \A x : IsContent(rep, ent, b, v, k, x) => Kept(a.mem[v], ValueOf(z.env, x))
  /\ \A x \in DOMAIN rep : Loaded(x, b, k) => Kept(ValueOf(a.env, x), ValueOf(z.env, rep[x]))

LEMMA ShownAppend ==
  ASSUME NEW o1, NEW o2, Shown(o1, o2), NEW x, NEW y, Kept(x, y)
  PROVE  Shown(Append(o1, x), Append(o2, y))
<1>1. PICK S : o1 \in Seq(S) /\ o2 \in Seq(S) /\ Len(o1) = Len(o2) /\ \A i \in 1 .. Len(o1) : Kept(o1[i], o2[i])
  BY DEF Shown
<1>. DEFINE T == S \cup {x, y}
<1>2. o1 \in Seq(T) /\ o2 \in Seq(T) /\ x \in T /\ y \in T
  BY <1>1
<1>. HIDE DEF T
<1>3. /\ Append(o1, x) \in Seq(T) /\ Append(o2, y) \in Seq(T)
      /\ Len(Append(o1, x)) = Len(o1) + 1 /\ Len(Append(o2, y)) = Len(o2) + 1
      /\ \A i \in 1 .. Len(o1) + 1 : /\ Append(o1, x)[i] = IF i = Len(o1) + 1 THEN x ELSE o1[i]
                                     /\ Append(o2, y)[i] = IF i = Len(o2) + 1 THEN y ELSE o2[i]
  BY <1>1, <1>2
<1>4. Len(o1) \in Nat /\ \A i \in 1 .. Len(o1) + 1 : i = Len(o1) + 1 \/ i \in 1 .. Len(o1)
  BY <1>1
<1>5. \A i \in 1 .. Len(Append(o1, x)) : Kept(Append(o1, x)[i], Append(o2, y)[i])
  BY <1>1, <1>3, <1>4
<1>. QED
  BY <1>1, <1>3, <1>5 DEF Shown

LEMMA ValueExtended ==
  ASSUME NEW env, NEW r, NEW w, NEW one, DOMAIN one = {r}, one[r] = w, NEW x
  PROVE  ValueOf(Extended(env, one), x) = IF x = r /\ IsResult(x) THEN w ELSE ValueOf(env, x)
<1>. DEFINE both == Extended(env, one)
<1>1. DOMAIN both = DOMAIN env \cup {r} /\ \A y \in DOMAIN both : both[y] = IF y \in {r} THEN one[y] ELSE env[y]
  BY DEF Extended
<1>. HIDE DEF both
<1>2. ValueOf(both, x) = IF x = r /\ IsResult(x) THEN w ELSE ValueOf(env, x)
  BY <1>1 DEF ValueOf
<1>. QED
  BY <1>2 DEF both

\* What went before the content of a slot.
LEMMA ContentBack ==
  ASSUME OrigIsSSA, NEW b \in Blocks(g), NEW rep, NEW ent, NEW v, NEW k \in 1 .. Len(orig[b]), NEW x,
         IsContent(rep, ent, b, v, k + 1, x)
  PROVE  IF StoresAt(b, v, k) THEN x = rep[orig[b][k].val] ELSE IsContent(rep, ent, b, v, k, x)
<1>1. k \in Nat /\ k \in 1 .. End(b)
  BY SSAFacts DEF End
<1>2. PICK y : IsContent(rep, ent, b, v, k, y)
  BY <1>1, ContentExists
<1>3. PICK z : z = IF StoresAt(b, v, k) THEN rep[orig[b][k].val] ELSE y
  OBVIOUS
<1>4. IF StoresAt(b, v, k) THEN z = rep[orig[b][k].val] ELSE IsContent(rep, ent, b, v, k, z)
  BY <1>2, <1>3
<1>5. IsContent(rep, ent, b, v, k + 1, z)
  BY <1>1, <1>4, ContentNext
<1>6. x = z
  BY <1>5, ContentUnique
<1>. QED
  BY <1>2, <1>3, <1>6

LEMMA LoadedNext ==
  ASSUME OrigIsSSA, NEW b \in Reachable(g), NEW k \in Nat, NEW x, Loaded(x, b, k + 1)
  PROVE  Loaded(x, b, k) \/ (k \in DOMAIN orig[b] /\ orig[b][k].op = "load" /\ orig[b][k].res = x)
<1>1. \A d \in Dom(g, b) : d \in Blocks(g)
  BY DomMembers DEF OrigIsSSA
<1>2. \A d \in Dom(g, b) : \A j \in DOMAIN orig[d] : j \in Nat
  BY <1>1, SSAFacts
<1>3. \A j \in Nat : j < k + 1 => j < k \/ j = k
  OBVIOUS
<1>. QED
  BY <1>2, <1>3 DEF Loaded

ExecStep(st, b, body, k) == IF k \in DOMAIN body[b] THEN ExecInstr(st, body[b][k]) ELSE st

\* What an instruction does.
IsExec(st, i, st2) ==
  /\ i.op = "store" => /\ st2.mem = [st.mem EXCEPT ![i.var] = ValueOf(st.env, i.val)]
                       /\ st2.env = st.env /\ st2.out = st.out
  /\ i.op = "load" => /\ st2.mem = st.mem /\ st2.out = st.out
                      /\ \A x : ValueOf(st2.env, x) =
                                  IF x = i.res /\ IsResult(x) THEN st.mem[i.var] ELSE ValueOf(st.env, x)
  /\ i.op = "use" => /\ st2.mem = st.mem /\ st2.env = st.env
                     /\ st2.out = Append(st.out, ValueOf(st.env, i.val))
  /\ i.op = "call" => /\ st2.mem = [st.mem EXCEPT ![i.var] = ValueOf(st.env, i.val)]
                      /\ st2.env = st.env /\ st2.out = Append(st.out, st.mem[i.var])

LEMMA ExecFacts ==
  ASSUME NEW st, NEW i
  PROVE  IsExec(st, i, ExecInstr(st, i))
<1>1. CASE i.op = "store"
  BY <1>1 DEF ExecInstr, IsExec
<1>2. CASE i.op = "load"
  <2>1. PICK r, w, env, one : r = i.res /\ w = st.mem[i.var] /\ env = st.env /\ one = [x \in {r} |-> w]
    OBVIOUS
  <2>2. ExecInstr(st, i) = [mem |-> st.mem, env |-> Extended(env, one), out |-> st.out]
    BY <1>2, <2>1 DEF ExecInstr
  <2>3. DOMAIN one = {r} /\ one[r] = w
    BY <2>1
  <2>4. \A x : ValueOf(Extended(env, one), x) = IF x = r /\ IsResult(x) THEN w ELSE ValueOf(env, x)
    BY <2>3, ValueExtended
  <2>5. ExecInstr(st, i).mem = st.mem /\ ExecInstr(st, i).out = st.out /\ ExecInstr(st, i).env = Extended(env, one)
    BY <2>2
  <2>. QED
    BY <1>2, <2>1, <2>4, <2>5 DEF IsExec
<1>3. CASE i.op = "use"
  BY <1>3 DEF ExecInstr, IsExec
<1>4. CASE i.op = "call"
  BY <1>4 DEF ExecInstr, IsExec
<1>5. CASE i.op \notin {"store", "load", "use", "call"}
  BY <1>5 DEF IsExec
<1>. QED
  BY <1>1, <1>2, <1>3, <1>4, <1>5

LEMMA InstrAgrees ==
  ASSUME OrigIsSSA, NEW c, NEW ph, NEW D, NEW rep, NEW ent, RestStands(c, ph, D, rep, ent),
         NEW b \in Reachable(g), NEW k \in 1 .. Len(orig[b]),
         NEW a, NEW z, Agrees(D, rep, ent, b, k, a, z), Shown(a.out, z.out),
         NEW a2, a2 = ExecStep(a, b, orig, k), NEW z2, z2 = ExecStep(z, b, c, k)
  PROVE  Agrees(D, rep, ent, b, k + 1, a2, z2) /\ Shown(a2.out, z2.out)
<1>1. /\ IsRest(c) /\ Stands(c, rep) /\ Gone(c, D) /\ LoadsStand(c, ph, LoadsIn(D, {}), rep, ent)
      /\ D \subseteq Slots
  BY DEF RestStands, Represents, Gone
<1>2. IsGraph(g) /\ b \in Blocks(g) /\ k \in DOMAIN orig[b] /\ k \in Nat \ {0}
  BY DomMembers, SSAFacts DEF OrigIsSSA
<1>3. PICK i : i = orig[b][k]
  OBVIOUS
<1>. DEFINE v == i.var
<1>4. /\ i.op \in {"store", "load", "use", "call"} /\ (i.op # "use" => v \in Slots)
      /\ i.val \in DOMAIN rep /\ i.res \in DOMAIN rep
  BY <1>1, <1>2, <1>3 DEF OrigIsSSA, IsSSA, Stands
<1>5. IsExec(a, i, a2)
  <2>1. a2 = ExecInstr(a, i)
    BY <1>2, <1>3 DEF ExecStep
  <2>. QED
    BY <2>1, ExecFacts
<1>6. k \in DOMAIN c[b] => IsExec(z, c[b][k], z2)
  <2>1. k \in DOMAIN c[b] => z2 = ExecInstr(z, c[b][k])
    BY DEF ExecStep
  <2>. QED
    BY <2>1, ExecFacts
<1>7. k \in DOMAIN c[b] => c[b][k].op = i.op /\ c[b][k].var = v /\ c[b][k].res = i.res /\ c[b][k].val = rep[i.val]
  BY <1>1, <1>2, <1>3 DEF IsRest, Stands
<1>8. k \notin DOMAIN c[b] => z2 = z
  BY DEF ExecStep
<1>9. /\ k \notin DOMAIN c[b] <=> i.op \in {"load", "store"} /\ v \in D
      /\ i.op = "call" => v \notin D
  BY <1>1, <1>2, <1>3 DEF Gone
<1>10. Kept(ValueOf(a.env, i.val), ValueOf(z.env, rep[i.val]))
  <2>1. Loaded(i.val, b, k)
    BY <1>2, <1>3, ValuesAreLoaded
  <2>. QED
    BY <1>4, <2>1 DEF Agrees
<1>11. \A u \in Slots : \A x : IsContent(rep, ent, b, u, k + 1, x) =>
         IF i.op = "store" /\ u = v THEN x = rep[i.val] ELSE IsContent(rep, ent, b, u, k, x)
  <2>1. \A u, x : IsContent(rep, ent, b, u, k + 1, x) =>
          IF StoresAt(b, u, k) THEN x = rep[orig[b][k].val] ELSE IsContent(rep, ent, b, u, k, x)
    BY <1>2, ContentBack
  <2>2. \A u : StoresAt(b, u, k) <=> i.op = "store" /\ u = v
    BY <1>2, <1>3 DEF StoresAt
  <2>. QED
    BY <1>3, <2>1, <2>2
<1>12. \A x : Loaded(x, b, k + 1) => Loaded(x, b, k) \/ (i.op = "load" /\ x = i.res)
  BY <1>2, <1>3, LoadedNext
<1>13. /\ DOMAIN a.mem = Slots /\ DOMAIN z.mem = Slots
       /\ \A u \in Slots \ D : Kept(a.mem[u], z.mem[u])
       /\ \A u \in D : \A x : IsContent(rep, ent, b, u, k, x) => Kept(a.mem[u], ValueOf(z.env, x))
       /\ \A x \in DOMAIN rep : Loaded(x, b, k) => Kept(ValueOf(a.env, x), ValueOf(z.env, rep[x]))
  BY DEF Agrees
<1>. HIDE DEF v
<1>14. CASE i.op = "store"
  <2>. DEFINE y == ValueOf(a.env, i.val)
              w == ValueOf(z.env, rep[i.val])
  <2>1. a2.mem = [a.mem EXCEPT ![v] = y] /\ a2.env = a.env /\ a2.out = a.out
    BY <1>5, <1>14 DEF IsExec, v
  <2>2. z2.env = z.env /\ z2.out = z.out
    BY <1>6, <1>7, <1>8, <1>14 DEF IsExec
  <2>3. z2.mem = IF v \in D THEN z.mem ELSE [z.mem EXCEPT ![v] = w]
    <3>1. CASE v \in D
      BY <1>8, <1>9, <1>14, <3>1
    <3>2. CASE v \notin D
      BY <1>6, <1>7, <1>9, <1>14, <3>2 DEF IsExec
    <3>. QED
      BY <3>1, <3>2
  <2>4. Kept(y, w)
    BY <1>10
  <2>. HIDE DEF y, w
  <2>5. v \in Slots
    BY <1>4, <1>14
  <2>6. /\ DOMAIN a2.mem = Slots /\ DOMAIN z2.mem = Slots
        /\ \A u \in Slots : a2.mem[u] = IF u = v THEN y ELSE a.mem[u]
        /\ \A u \in Slots \ D : z2.mem[u] = IF u = v THEN w ELSE z.mem[u]
    BY <1>13, <2>1, <2>3, <2>5
  <2>7. ASSUME NEW u \in D, NEW x, IsContent(rep, ent, b, u, k + 1, x)
        PROVE  Kept(a2.mem[u], ValueOf(z2.env, x))
    <3>1. u \in Slots
      BY <1>1
    <3>2. CASE u = v
      <4>1. x = rep[i.val]
        BY <1>11, <1>14, <2>7, <3>1, <3>2
      <4>. QED
        BY <2>2, <2>4, <2>6, <3>1, <3>2, <4>1 DEF w
    <3>3. CASE u # v
      <4>1. IsContent(rep, ent, b, u, k, x)
        BY <1>11, <2>7, <3>1, <3>3
      <4>. QED
        BY <1>13, <2>2, <2>6, <3>1, <3>3, <4>1
    <3>. QED
      BY <3>2, <3>3
  <2>8. \A x \in DOMAIN rep : Loaded(x, b, k + 1) => Kept(ValueOf(a2.env, x), ValueOf(z2.env, rep[x]))
    BY <1>12, <1>13, <1>14, <2>1, <2>2
  <2>9. \A u \in Slots \ D : Kept(a2.mem[u], z2.mem[u])
    BY <1>13, <2>4, <2>6
  <2>. QED
    BY <2>1, <2>2, <2>6, <2>7, <2>8, <2>9 DEF Agrees
<1>15. CASE i.op = "load"
  <2>1. /\ a2.mem = a.mem /\ a2.out = a.out
        /\ \A x : ValueOf(a2.env, x) = IF x = i.res /\ IsResult(x) THEN a.mem[v] ELSE ValueOf(a.env, x)
    BY <1>5, <1>15 DEF IsExec, v
  <2>2. z2.mem = z.mem /\ z2.out = z.out
    BY <1>6, <1>7, <1>8, <1>15 DEF IsExec
  <2>3. v \in Slots /\ i.res[1] = "load" /\ IsResult(i.res)
    BY <1>2, <1>3, <1>4, <1>15, SSAFacts DEF IsResult
  <2>4. \A u \in Slots : \A x : IsContent(rep, ent, b, u, k + 1, x) => IsContent(rep, ent, b, u, k, x)
    BY <1>11, <1>15
  <2>5. CASE v \in D
    <3>1. z2.env = z.env
      BY <1>8, <1>9, <1>15, <2>5
    <3>2. IsContent(rep, ent, b, v, k, rep[i.res])
      <4>1. <<b, k>> \in LoadsIn(D, {})
        BY <1>1, <1>2, <1>3, <1>15, <2>5, KnownAtRest DEF v
      <4>. QED
        BY <1>1, <1>2, <1>3, <1>15, <4>1 DEF LoadsStand, v
    <3>3. Kept(a.mem[v], ValueOf(z.env, rep[i.res]))
      BY <1>13, <2>5, <3>2
    <3>4. ASSUME NEW x \in DOMAIN rep, Loaded(x, b, k + 1)
          PROVE  Kept(ValueOf(a2.env, x), ValueOf(z2.env, rep[x]))
      <4>1. CASE x = i.res
        BY <2>1, <2>3, <3>1, <3>3, <4>1
      <4>2. CASE x # i.res
        BY <1>12, <1>13, <2>1, <3>1, <3>4, <4>2
      <4>. QED
        BY <4>1, <4>2
    <3>5. \A u \in D : \A x : IsContent(rep, ent, b, u, k + 1, x) => Kept(a2.mem[u], ValueOf(z2.env, x))
      BY <1>1, <1>13, <2>1, <2>4, <3>1
    <3>. QED
      BY <1>13, <2>1, <2>2, <3>4, <3>5 DEF Agrees
  <2>6. CASE v \notin D
    <3>1. /\ k \in DOMAIN c[b] /\ c[b][k].op = "load" /\ c[b][k].res = i.res
          /\ \A x : ValueOf(z2.env, x) = IF x = i.res /\ IsResult(x) THEN z.mem[v] ELSE ValueOf(z.env, x)
      BY <1>6, <1>7, <1>9, <1>15, <2>6 DEF IsExec
    <3>2. rep[i.res] = i.res
      <4>1. <<b, k>> \notin LoadsIn(D, {})
        BY <1>1, <1>2, <1>3, <2>6, KnownAtRest DEF v
      <4>. QED
        BY <1>1, <1>2, <1>3, <1>15, <4>1 DEF LoadsStand
    <3>3. ~InForce(c, ph, i.res, b, k)
      <4>1. \A x, h : /\ h \in DOMAIN c[b] /\ c[b][h].op = "load" /\ c[b][h].res = x /\ InForce(c, ph, x, b, k)
                      => b \in Dom(g, b) /\ (b = b => h < k)
        BY <1>1, <1>2, ForceFacts
      <4>2. ~(k < k)
        BY <1>2
      <4>. QED
        BY <3>1, <4>1, <4>2
    <3>4. ASSUME NEW x \in DOMAIN rep, Loaded(x, b, k + 1)
          PROVE  Kept(ValueOf(a2.env, x), ValueOf(z2.env, rep[x]))
      <4>1. CASE x = i.res
        <5>1. Kept(a.mem[v], z.mem[v])
          BY <1>13, <2>3, <2>6
        <5>. QED
          BY <2>1, <2>3, <3>1, <3>2, <4>1, <5>1
      <4>2. CASE x # i.res
        <5>1. Loaded(x, b, k)
          BY <1>12, <3>4, <4>2
        <5>2. rep[x] # i.res
          BY <1>2, <3>3, <5>1, LoadedInForce
        <5>. QED
          BY <1>13, <2>1, <3>1, <4>2, <5>1, <5>2
      <4>. QED
        BY <4>1, <4>2
    <3>5. ASSUME NEW u \in D, NEW x, IsContent(rep, ent, b, u, k + 1, x)
          PROVE  Kept(a2.mem[u], ValueOf(z2.env, x))
      <4>1. IsContent(rep, ent, b, u, k, x)
        BY <1>1, <2>4, <3>5
      <4>2. x # i.res
        BY <1>2, <3>3, <4>1, ContentInForce
      <4>. QED
        BY <1>13, <2>1, <3>1, <4>1, <4>2
    <3>. QED
      BY <1>13, <2>1, <2>2, <3>4, <3>5 DEF Agrees
  <2>. QED
    BY <2>5, <2>6
<1>16. CASE i.op = "use"
  <2>1. /\ a2.mem = a.mem /\ a2.env = a.env /\ a2.out = Append(a.out, ValueOf(a.env, i.val))
        /\ z2.mem = z.mem /\ z2.env = z.env /\ z2.out = Append(z.out, ValueOf(z.env, rep[i.val]))
    <3>1. k \in DOMAIN c[b]
      BY <1>9, <1>16
    <3>. QED
      BY <1>5, <1>6, <1>7, <1>16, <3>1 DEF IsExec
  <2>2. \A u \in D : \A x : IsContent(rep, ent, b, u, k + 1, x) => IsContent(rep, ent, b, u, k, x)
    BY <1>1, <1>11, <1>16
  <2>3. \A x : Loaded(x, b, k + 1) => Loaded(x, b, k)
    BY <1>12, <1>16
  <2>4. Agrees(D, rep, ent, b, k + 1, a2, z2)
    BY <1>13, <2>1, <2>2, <2>3 DEF Agrees
  <2>. QED
    BY <1>10, <2>1, <2>4, ShownAppend
<1>17. CASE i.op = "call"
  <2>. DEFINE y == ValueOf(a.env, i.val)
              w == ValueOf(z.env, rep[i.val])
  <2>1. /\ a2.mem = [a.mem EXCEPT ![v] = y] /\ a2.env = a.env /\ a2.out = Append(a.out, a.mem[v])
        /\ z2.mem = [z.mem EXCEPT ![v] = w] /\ z2.env = z.env /\ z2.out = Append(z.out, z.mem[v])
    <3>1. k \in DOMAIN c[b]
      BY <1>9, <1>17
    <3>. QED
      BY <1>5, <1>6, <1>7, <1>17, <3>1 DEF IsExec, v
  <2>2. Kept(y, w) /\ v \in Slots \ D
    BY <1>4, <1>9, <1>10, <1>17
  <2>. HIDE DEF y, w
  <2>3. /\ DOMAIN a2.mem = Slots /\ DOMAIN z2.mem = Slots
        /\ \A u \in Slots : /\ a2.mem[u] = IF u = v THEN y ELSE a.mem[u]
                            /\ z2.mem[u] = IF u = v THEN w ELSE z.mem[u]
    BY <1>13, <2>1, <2>2
  <2>4. \A u \in D : \A x : IsContent(rep, ent, b, u, k + 1, x) => IsContent(rep, ent, b, u, k, x)
    BY <1>1, <1>11, <1>17
  <2>5. \A x : Loaded(x, b, k + 1) => Loaded(x, b, k)
    BY <1>12, <1>17
  <2>6. \A u \in Slots \ D : Kept(a2.mem[u], z2.mem[u])
    BY <1>13, <2>2, <2>3
  <2>7. \A u \in D : a2.mem[u] = a.mem[u]
    BY <1>1, <2>2, <2>3
  <2>8. Agrees(D, rep, ent, b, k + 1, a2, z2)
    BY <1>13, <2>1, <2>3, <2>4, <2>5, <2>6, <2>7 DEF Agrees
  <2>9. Kept(a.mem[v], z.mem[v])
    BY <1>13, <2>2
  <2>. QED
    BY <2>1, <2>8, <2>9, ShownAppend
<1>. QED
  BY <1>4, <1>14, <1>15, <1>16, <1>17

(***************************************************************************)
(* The instructions of a block, one after the other.                       *)
(***************************************************************************)
Execs(first, b, body, n, r) ==
  /\ r = [k \in 0 .. n |-> r[k]]
  /\ r[0] = first
  /\ \A k \in 1 .. n : r[k] = ExecStep(r[k - 1], b, body, k)

LEMMA ExecsExist ==
  ASSUME NEW first, NEW b, NEW body, NEW n \in Nat
  PROVE  \E r : Execs(first, b, body, n, r)
<1>. DEFINE S == {m \in 0 .. n : \E r : Execs(first, b, body, m, r)}
<1>1. 0 \in S
  <2>1. Execs(first, b, body, 0, [k \in 0 .. 0 |-> first])
    BY DEF Execs
  <2>. QED
    BY <2>1
<1>2. ASSUME NEW m \in 1 .. n, m - 1 \in S
      PROVE  m \in S
  <2>1. PICK r : Execs(first, b, body, m - 1, r)
    BY <1>2
  <2>. DEFINE next == ExecStep(r[m - 1], b, body, m)
              q == [k \in 0 .. m |-> IF k = m THEN next ELSE r[k]]
  <2>2. q = [k \in 0 .. m |-> q[k]]
    OBVIOUS
  <2>3. q[0] = first
    BY <2>1 DEF Execs
  <2>4. ASSUME NEW k \in 1 .. m
        PROVE  q[k] = ExecStep(q[k - 1], b, body, k)
    <3>1. k - 1 \in 0 .. m /\ k - 1 # m /\ k \in 0 .. m
      OBVIOUS
    <3>2. q[k - 1] = r[k - 1]
      BY <3>1
    <3>3. CASE k = m
      <4>1. q[k] = next
        BY <3>1, <3>3
      <4>. QED
        BY <3>2, <3>3, <4>1
    <3>4. CASE k # m
      <4>1. k \in 1 .. m - 1 /\ q[k] = r[k]
        BY <3>1, <3>4
      <4>. QED
        BY <2>1, <3>2, <4>1 DEF Execs
    <3>. QED
      BY <3>3, <3>4
  <2>. HIDE DEF q
  <2>5. Execs(first, b, body, m, q)
    BY <2>2, <2>3, <2>4 DEF Execs
  <2>. QED
    BY <2>5
<1>3. n \in S
  <2>. HIDE DEF S
  <2>1. 0 .. n \subseteq S
    BY <1>1, <1>2, UpTo
  <2>. QED
    BY <2>1
<1>. QED
  BY <1>3

FirstState(st, env) == [mem |-> st.mem, env |-> env, out |-> << >>]

LEMMA ExecUnfolds ==
  ASSUME NEW st, NEW env, NEW b, NEW body, Len(orig[b]) \in Nat
  PROVE  \E r : /\ Execs(FirstState(st, env), b, body, Len(orig[b]), r)
                /\ ExecBlock(st, env, b, body) = r[Len(orig[b])]
<1>. DEFINE n == Len(orig[b])
            Def(r) == r = [k \in 0 .. Len(orig[b]) |->
                             IF k = 0 THEN [mem |-> st.mem, env |-> env, out |-> << >>]
                             ELSE IF k \in DOMAIN body[b] THEN ExecInstr(r[k - 1], body[b][k]) ELSE r[k - 1]]
            Next1(r, k) == IF k = 0 THEN [mem |-> st.mem, env |-> env, out |-> << >>]
                           ELSE IF k \in DOMAIN body[b] THEN ExecInstr(r[k - 1], body[b][k]) ELSE r[k - 1]
<1>1. \E r : Def(r)
  <2>1. PICK r : Execs(FirstState(st, env), b, body, n, r)
    BY ExecsExist
  <2>2. ASSUME NEW k \in 0 .. n
        PROVE  r[k] = Next1(r, k)
    BY <2>1 DEF Execs, ExecStep, FirstState
  <2>. HIDE DEF Next1
  <2>3. [k \in 0 .. n |-> r[k]] = [k \in 0 .. n |-> Next1(r, k)]
    BY <2>2
  <2>4. r = [k \in 0 .. n |-> r[k]]
    BY <2>1 DEF Execs
  <2>5. r = [k \in 0 .. n |-> Next1(r, k)]
    BY <2>3, <2>4
  <2>6. Def(r)
    BY <2>5 DEF Next1
  <2>. QED
    BY <2>6
<1>2. PICK r : Def(r) /\ ExecBlock(st, env, b, body) = r[n]
  BY <1>1 DEF ExecBlock
<1>3. Execs(FirstState(st, env), b, body, n, r)
  <2>1. \A k \in 0 .. n : r[k] = Next1(r, k)
    BY <1>2
  <2>2. r = [k \in 0 .. n |-> r[k]]
    BY <1>2
  <2>. HIDE DEF Def
  <2>3. \A k \in 1 .. n : k \in 0 .. n /\ k # 0
    OBVIOUS
  <2>4. 0 \in 0 .. n
    OBVIOUS
  <2>. HIDE DEF n
  <2>5. r[0] = FirstState(st, env)
    BY <2>1, <2>4 DEF FirstState
  <2>6. \A k \in 1 .. n : r[k] = ExecStep(r[k - 1], b, body, k)
    BY <2>1, <2>3 DEF ExecStep
  <2>. QED
    BY <2>2, <2>5, <2>6 DEF Execs
<1>. QED
  BY <1>2, <1>3

\* What the two runs have the same where a block begins they have the same
\* where it ends, and in it they show the same.
LEMMA BlockAgrees ==
  ASSUME OrigIsSSA, NEW c, NEW ph, NEW D, NEW rep, NEW ent, RestStands(c, ph, D, rep, ent),
         NEW b \in Reachable(g), NEW a, NEW z, Agrees(D, rep, ent, b, 1, a, z), a.out = << >>, z.out = << >>,
         NEW ra, Execs(a, b, orig, Len(orig[b]), ra), NEW rz, Execs(z, b, c, Len(orig[b]), rz)
  PROVE  /\ Agrees(D, rep, ent, b, End(b), ra[Len(orig[b])], rz[Len(orig[b])])
         /\ Shown(ra[Len(orig[b])].out, rz[Len(orig[b])].out)
<1>1. IsGraph(g) /\ b \in Blocks(g)
  BY DomMembers DEF OrigIsSSA
<1>2. PICK n \in Nat : n = Len(orig[b])
  BY <1>1, SSAFacts
<1>. DEFINE S == {k \in 0 .. n : Agrees(D, rep, ent, b, k + 1, ra[k], rz[k]) /\ Shown(ra[k].out, rz[k].out)}
<1>3. 0 \in S
  <2>1. ra[0] = a /\ rz[0] = z
    BY DEF Execs
  <2>2. Shown(a.out, z.out)
    <3>1. << >> \in Seq({}) /\ Len(<< >>) = 0
      OBVIOUS
    <3>2. \A i \in 1 .. 0 : FALSE
      OBVIOUS
    <3>. QED
      BY <3>1, <3>2 DEF Shown
  <2>3. 0 + 1 = 1 /\ 0 \in 0 .. n
    BY <1>2
  <2>. QED
    BY <2>1, <2>2, <2>3
<1>4. ASSUME NEW k \in 1 .. n, k - 1 \in S
      PROVE  k \in S
  <2>1. k - 1 + 1 = k /\ k \in 1 .. Len(orig[b]) /\ k \in 0 .. n
    BY <1>2
  <2>2. Agrees(D, rep, ent, b, k, ra[k - 1], rz[k - 1]) /\ Shown(ra[k - 1].out, rz[k - 1].out)
    BY <1>4, <2>1
  <2>3. ra[k] = ExecStep(ra[k - 1], b, orig, k) /\ rz[k] = ExecStep(rz[k - 1], b, c, k)
    BY <1>2 DEF Execs
  <2>4. Agrees(D, rep, ent, b, k + 1, ra[k], rz[k]) /\ Shown(ra[k].out, rz[k].out)
    BY <2>1, <2>2, <2>3, InstrAgrees
  <2>. QED
    BY <2>1, <2>4
<1>5. n \in S
  <2>. HIDE DEF S
  <2>1. 0 .. n \subseteq S
    BY <1>2, <1>3, <1>4, UpTo
  <2>. QED
    BY <1>2, <2>1
<1>. QED
  BY <1>2, <1>5 DEF End

(***************************************************************************)
(* From block to block.                                                    *)
(***************************************************************************)

\* On entry from p the phis of a block get the values they take from p, and
\* the other values stay.
LEMMA EnterFacts ==
  ASSUME IsGraph(g), ListsAreEdges(g, preds), preds \in Lists,
         NEW p \in Blocks(g), NEW b \in Blocks(g), b \in Succs(g, p), NEW env
  PROVE  \E i \in DOMAIN preds[b] :
           /\ preds[b][i] = p
           /\ \A v \in DOMAIN phis[b] : ValueOf(EnterBlock(env, b, p), Phi(b, v)) = ValueOf(env, phis[b][v][i])
           /\ \A x : (\A v \in DOMAIN phis[b] : x # Phi(b, v)) =>
                       ValueOf(EnterBlock(env, b, p), x) = ValueOf(env, x)
<1>. DEFINE edges == {i \in DOMAIN preds[b] : preds[b][i] = p}
            takes == [x \in {Phi(b, v) : v \in DOMAIN phis[b]} |->
                        IF edges = {} THEN Missing ELSE ValueOf(env, phis[b][x[3]][Min(edges)])]
<1>1. edges \subseteq Nat /\ edges # {}
  <2>1. \E i \in DOMAIN preds[b] : preds[b][i] = p
    BY DEF ListsAreEdges
  <2>2. preds[b] \in Seq(Blocks(g))
    BY DEF Lists
  <2>3. DOMAIN preds[b] \subseteq Nat
    BY <2>2
  <2>. QED
    BY <2>1, <2>3
<1>2. Min(edges) \in edges
  <2>. HIDE DEF edges
  <2>1. \E m \in edges : \A y \in edges : m <= y
    BY <1>1, LeastExists
  <2>. QED
    BY <2>1 DEF Min
<1>3. PICK i : i = Min(edges)
  OBVIOUS
<1>4. i \in DOMAIN preds[b] /\ preds[b][i] = p
  BY <1>2, <1>3
<1>5. EnterBlock(env, b, p) = Extended(env, takes)
  BY DEF EnterBlock
<1>6. DOMAIN takes = {Phi(b, v) : v \in DOMAIN phis[b]}
  OBVIOUS
<1>7. \A v \in DOMAIN phis[b] : takes[Phi(b, v)] = ValueOf(env, phis[b][v][i])
  <2>1. \A v : Phi(b, v)[3] = v
    BY DEF Phi
  <2>. QED
    BY <1>1, <1>3, <2>1
<1>. HIDE DEF takes, edges
<1>8. PICK one : one = takes
  OBVIOUS
<1>9. /\ DOMAIN Extended(env, one) = DOMAIN env \cup DOMAIN one
      /\ \A x \in DOMAIN env \cup DOMAIN one :
           Extended(env, one)[x] = IF x \in DOMAIN one THEN one[x] ELSE env[x]
  BY DEF Extended
<1>10. \A v : IsResult(Phi(b, v))
  BY DEF IsResult, Phi
<1>11. \A v \in DOMAIN phis[b] : ValueOf(Extended(env, one), Phi(b, v)) = ValueOf(env, phis[b][v][i])
  <2>1. \A v \in DOMAIN phis[b] : Phi(b, v) \in DOMAIN one /\ one[Phi(b, v)] = ValueOf(env, phis[b][v][i])
    BY <1>6, <1>7, <1>8
  <2>2. \A x \in DOMAIN one : IsResult(x) => ValueOf(Extended(env, one), x) = one[x]
    BY <1>9 DEF ValueOf
  <2>. QED
    BY <1>10, <2>1, <2>2
<1>12. \A x : x \notin DOMAIN one => ValueOf(Extended(env, one), x) = ValueOf(env, x)
  BY <1>9 DEF ValueOf
<1>13. \A x : (\A v \in DOMAIN phis[b] : x # Phi(b, v)) => x \notin DOMAIN one
  BY <1>6, <1>8
<1>. QED
  BY <1>4, <1>5, <1>8, <1>11, <1>12, <1>13

\* What the two runs have the same at the end of a block they have the same on
\* entry to the next.
LEMMA EdgeAgrees ==
  ASSUME OrigIsSSA, ListsAreEdges(g, preds), preds \in Lists,
         NEW c, NEW D, NEW rep, NEW ent, RestStands(c, phis, D, rep, ent),
         NEW p \in Reachable(g), NEW b \in Succs(g, p),
         NEW a, NEW z, Agrees(D, rep, ent, p, End(p), a, z),
         NEW a2, a2.mem = a.mem, a2.env = a.env,
         NEW z2, z2.mem = z.mem, z2.env = EnterBlock(z.env, b, p)
  PROVE  Agrees(D, rep, ent, b, 1, a2, z2)
<1>1. /\ IsRest(c) /\ Stands(c, rep) /\ EntersStand(c, phis, Known(D, {}), ent)
      /\ PhisStand(phis, Known(D, {}), rep, ent) /\ JoinsStand(phis, D, rep, ent)
      /\ D \subseteq Slots
  BY DEF RestStands, Represents, Gone
<1>2. IsGraph(g) /\ b \in Reachable(g)
  BY EdgeReaches DEF OrigIsSSA
<1>3. p \in Blocks(g) /\ b \in Blocks(g)
  BY <1>2, DomMembers
<1>4. PICK i \in DOMAIN preds[b] :
           /\ preds[b][i] = p
           /\ \A v \in DOMAIN phis[b] : ValueOf(z2.env, Phi(b, v)) = ValueOf(z.env, phis[b][v][i])
           /\ \A x : (\A v \in DOMAIN phis[b] : x # Phi(b, v)) => ValueOf(z2.env, x) = ValueOf(z.env, x)
  BY <1>2, <1>3, EnterFacts
<1>5. /\ DOMAIN a.mem = Slots /\ DOMAIN z.mem = Slots
      /\ \A u \in Slots \ D : Kept(a.mem[u], z.mem[u])
      /\ \A u \in D : \A x : IsContent(rep, ent, p, u, End(p), x) => Kept(a.mem[u], ValueOf(z.env, x))
      /\ \A x \in DOMAIN rep : Loaded(x, p, End(p)) => Kept(ValueOf(a.env, x), ValueOf(z.env, rep[x]))
  BY DEF Agrees
<1>6. ASSUME NEW v \in D, NEW x, IsContent(rep, ent, b, v, 1, x)
      PROVE  Kept(a2.mem[v], ValueOf(z2.env, x))
  <2>1. x = ent[v][b]
    BY <1>3, <1>6, ContentFirst, ContentUnique
  <2>2. v \in Slots /\ p \in Known(D, {})[v] /\ b \in Known(D, {})[v]
    BY <1>1, <1>2, KnownAtRest
  <2>3. CASE v \in DOMAIN phis[b]
    <3>1. ent[v][b] = Phi(b, v)
      BY <1>1, <2>2, <2>3 DEF EntersStand
    <3>2. IsContent(rep, ent, p, v, End(p), phis[b][v][i])
      BY <1>1, <1>4, <2>2, <2>3 DEF PhisStand
    <3>3. ValueOf(z2.env, x) = ValueOf(z.env, phis[b][v][i])
      BY <1>4, <2>1, <2>3, <3>1
    <3>. QED
      BY <1>5, <3>2, <3>3
  <2>4. CASE v \notin DOMAIN phis[b]
    <3>1. \A u : ent[v][b] # Phi(b, u)
      BY <1>1, <2>2, <2>4 DEF EntersStand
    <3>2. IsContent(rep, ent, p, v, End(p), ent[v][b])
      BY <1>1, <2>4 DEF JoinsStand
    <3>3. ValueOf(z2.env, x) = ValueOf(z.env, x)
      BY <1>4, <2>1, <3>1
    <3>. QED
      BY <1>5, <2>1, <3>2, <3>3
  <2>. QED
    BY <2>3, <2>4
<1>7. ASSUME NEW x \in DOMAIN rep, Loaded(x, b, 1)
      PROVE  Kept(ValueOf(a2.env, x), ValueOf(z2.env, rep[x]))
  <2>1. CASE ~IsResult(x)
    <3>1. rep[x] = x
      BY <1>1, <2>1 DEF Stands
    <3>2. ValueOf(a2.env, x) = x /\ ValueOf(z2.env, x) = x
      BY <2>1 DEF ValueOf
    <3>. QED
      BY <3>1, <3>2 DEF Kept
  <2>2. ASSUME NEW d \in Dom(g, b), NEW j \in DOMAIN orig[d],
               orig[d][j].op = "load", orig[d][j].res = x, d = b => j < 1
        PROVE  Kept(ValueOf(a2.env, x), ValueOf(z2.env, rep[x]))
    <3>1. d \in Blocks(g) /\ d \in Reachable(g) /\ d \in Dom(g, d)
      BY <1>2, DomMembers, DomUp
    <3>2. Len(orig[d]) \in Nat /\ j \in 1 .. Len(orig[d]) /\ End(d) = Len(orig[d]) + 1
      BY <3>1, SSAFacts DEF End
    <3>3. d # b /\ j < End(d) /\ End(d) \in Nat \ {0}
      BY <2>2, <3>2
    <3>4. d \in Dom(g, p)
      BY <1>2, <3>3, DomPreds
    <3>5. Loaded(x, p, End(p)) /\ Loaded(x, d, End(d))
      BY <2>2, <3>1, <3>3, <3>4 DEF Loaded
    <3>6. InForce(c, phis, rep[x], d, End(d))
      BY <3>1, <3>3, <3>5, LoadedInForce
    <3>7. \A u : InForce(c, phis, Phi(b, u), d, End(d)) => b \in Dom(g, d)
      <4>1. 1 \in Nat \ {0}
        OBVIOUS
      <4>. QED
        BY <1>1, <1>2, <3>1, <3>3, <4>1, ForceFacts
    <3>8. b \notin Dom(g, d)
      BY <1>2, <3>1, <3>3, DomAntisymmetric
    <3>9. \A u : rep[x] # Phi(b, u)
      BY <3>6, <3>7, <3>8
    <3>10. ValueOf(z2.env, rep[x]) = ValueOf(z.env, rep[x])
      BY <1>4, <3>9
    <3>. QED
      BY <1>5, <3>5, <3>10
  <2>. QED
    BY <1>7, <2>1, <2>2 DEF Loaded
<1>. QED
  BY <1>5, <1>6, <1>7 DEF Agrees

\* Where the runs begin.
Begun(st) == st = [mem |-> [v \in Slots |-> Undef], env |-> << >>]

LEMMA EntryAgrees ==
  ASSUME OrigIsSSA, NEW c, NEW D, NEW rep, NEW ent, RestStands(c, phis, D, rep, ent),
         NEW a, Begun(a), NEW z, Begun(z),
         NEW a2, a2.mem = a.mem, a2.env = a.env, NEW z2, z2.mem = z.mem
  PROVE  Agrees(D, rep, ent, 0, 1, a2, z2)
<1>1. Stands(c, rep) /\ D \subseteq Slots
  BY DEF RestStands, Represents, Gone
<1>2. DOMAIN a2.mem = Slots /\ DOMAIN z2.mem = Slots /\ \A v \in Slots : a2.mem[v] = Undef
  BY DEF Begun
<1>3. ASSUME NEW x \in DOMAIN rep, Loaded(x, 0, 1)
      PROVE  Kept(ValueOf(a2.env, x), ValueOf(z2.env, rep[x]))
  <2>1. IsGraph(g) /\ 0 \in Reachable(g) /\ 0 \in Blocks(g)
    <3>1. IsGraph(g) /\ 0 \in Blocks(g)
      BY DEF OrigIsSSA, IsGraph, Blocks
    <3>2. 0 \in Reachable(g)
      BY <3>1, ReachTypes DEF Reachable
    <3>. QED
      BY <3>1, <3>2
  <2>2. \A d \in Dom(g, 0) : d = 0
    <3>1. ASSUME NEW d \in Dom(g, 0)
          PROVE  d = 0
      <4>1. 0 \notin ReachAvoiding(g, d)
        BY <2>1, DomMembers
      <4>. QED
        BY <2>1, <4>1, ReachTypes
    <3>. QED
      BY <3>1
  <2>3. \A j \in DOMAIN orig[0] : ~(j < 1)
    <3>1. Len(orig[0]) \in Nat /\ DOMAIN orig[0] = 1 .. Len(orig[0])
      BY <2>1, SSAFacts
    <3>. QED
      BY <3>1
  <2>4. ~IsResult(x)
    BY <1>3, <2>2, <2>3 DEF Loaded
  <2>5. rep[x] = x
    BY <1>1, <2>4 DEF Stands
  <2>6. ValueOf(a2.env, x) = x /\ ValueOf(z2.env, x) = x
    BY <2>4 DEF ValueOf
  <2>. QED
    BY <2>5, <2>6 DEF Kept
<1>. QED
  BY <1>1, <1>2, <1>3 DEF Agrees, Kept

(***************************************************************************)
(* The run.                                                                *)
(***************************************************************************)

\* The block to enter is the first one and nothing has run, or the two runs have
\* the same at the end of the block they come from.
Arrives(D, rep, ent) ==
  \/ at = 0 /\ Begun(before) /\ Begun(after)
  \/ from \in Reachable(g) /\ at \in Succs(g, from) /\ Agrees(D, rep, ent, from, End(from), before, after)

Running(D, rep, ent) ==
  /\ at # None => at \in Reachable(g) /\ Arrives(D, rep, ent)
  /\ seen # << >> => Shown(seen[1], seen[2])

LEMMA RestStandsIn ==
  ASSUME OrigIsSSA, g' = g, orig' = orig, preds' = preds, idom' = idom,
         NEW c, NEW ph, NEW D, NEW rep, NEW ent, RestStands(c, ph, D, rep, ent)
  PROVE  RestStands(c, ph, D, rep, ent)'
<1>1. Represents(c, ph, D, {}, {}, LoadsIn(D, {}), rep, ent)'
  BY RestMoves DEF RestStands
<1>2. IsRest(c)' /\ PhisFit(ph)' /\ PhisOf(ph, D)'
  BY DEF RestStands, IsRest, PhisFit, PhisOf
<1>. QED
  BY <1>1, <1>2 DEF RestStands

LEMMA AgreesIn ==
  ASSUME g' = g, orig' = orig,
         NEW D, NEW rep, NEW ent, NEW b, NEW k, NEW a, NEW z, Agrees(D, rep, ent, b, k, a, z)
  PROVE  Agrees(D, rep, ent, b, k, a, z)'
<1>1. \A v, x : IsContent(rep, ent, b, v, k, x)' <=> IsContent(rep, ent, b, v, k, x)
  BY DEF IsContent, StoresAt
<1>2. \A x : Loaded(x, b, k)' <=> Loaded(x, b, k)
  BY DEF Loaded
<1>. QED
  BY <1>1, <1>2 DEF Agrees

LEMMA RunStands ==
  ASSUME OrigIsSSA, ListsAreEdges(g, preds), preds \in Lists, RunBlock,
         NEW D, NEW rep, NEW ent, RestStands(code, phis, D, rep, ent), Running(D, rep, ent)
  PROVE  (RestStands(code, phis, D, rep, ent) /\ Running(D, rep, ent))'
<1>. DEFINE n == Len(orig[at])
            in == EnterBlock(after.env, at, from)
<1>1. /\ g' = g /\ orig' = orig /\ preds' = preds /\ idom' = idom /\ code' = code /\ phis' = phis
      /\ from' = at /\ at' \in IF g.succ[at] = << >> THEN {None} ELSE Succs(g, at)
  BY DEF RunBlock, analysis, renaming
<1>2. IsGraph(g) /\ at \in Reachable(g) /\ at \in Blocks(g) /\ Arrives(D, rep, ent)
  BY DomMembers DEF OrigIsSSA, RunBlock, Running
<1>3. Len(orig[at]) \in Nat
  BY <1>2, SSAFacts
<1>4. PICK ra : /\ Execs(FirstState(before, before.env), at, orig, n, ra)
                /\ ExecBlock(before, before.env, at, orig) = ra[n]
  BY <1>3, ExecUnfolds
<1>5. PICK rz : /\ Execs(FirstState(after, in), at, code, n, rz)
                /\ ExecBlock(after, in, at, code) = rz[n]
  BY <1>3, ExecUnfolds
<1>6. /\ before' = [mem |-> ra[n].mem, env |-> ra[n].env]
      /\ after' = [mem |-> rz[n].mem, env |-> rz[n].env]
      /\ seen' = <<ra[n].out, rz[n].out>>
  BY <1>4, <1>5 DEF RunBlock
<1>7. PICK a, z : a = FirstState(before, before.env) /\ z = FirstState(after, in)
  OBVIOUS
<1>8. /\ a.mem = before.mem /\ a.env = before.env /\ a.out = << >>
      /\ z.mem = after.mem /\ z.env = in /\ z.out = << >>
  BY <1>7 DEF FirstState
<1>9. Agrees(D, rep, ent, at, 1, a, z)
  <2>1. CASE at = 0 /\ Begun(before) /\ Begun(after)
    BY <1>8, <2>1, EntryAgrees
  <2>2. CASE from \in Reachable(g) /\ at \in Succs(g, from) /\ Agrees(D, rep, ent, from, End(from), before, after)
    BY <1>8, <2>2, EdgeAgrees
  <2>. QED
    BY <1>2, <2>1, <2>2 DEF Arrives
<1>. HIDE DEF in
<1>10. Agrees(D, rep, ent, at, End(at), ra[n], rz[n]) /\ Shown(ra[n].out, rz[n].out)
  BY <1>2, <1>4, <1>5, <1>7, <1>8, <1>9, BlockAgrees
<1>11. PICK b, m, x, y : b = at /\ m = End(at) /\ x = before' /\ y = after'
  OBVIOUS
<1>12. Agrees(D, rep, ent, b, m, x, y)
  <2>1. x.mem = ra[n].mem /\ x.env = ra[n].env /\ y.mem = rz[n].mem /\ y.env = rz[n].env
    BY <1>6, <1>11
  <2>. QED
    BY <1>10, <1>11, <2>1 DEF Agrees
<1>13. Agrees(D, rep, ent, b, m, x, y)'
  BY <1>1, <1>12, AgreesIn
<1>14. Reachable(g)' = Reachable(g) /\ End(b)' = m
  BY <1>1, <1>11 DEF End
<1>15. at' # None => at' \in Succs(g, at) /\ at' \in Reachable(g)
  BY <1>1, <1>2, EdgeReaches
<1>16. at' # None => Arrives(D, rep, ent)'
  <2>1. Agrees(D, rep, ent, from, End(from), before, after)'
    BY <1>1, <1>11, <1>13, <1>14
  <2>2. from' \in Reachable(g) /\ (at' # None => at' \in Succs(g, from'))
    BY <1>1, <1>2, <1>15
  <2>. QED
    BY <1>1, <1>14, <2>1, <2>2 DEF Arrives
<1>17. Running(D, rep, ent)'
  <2>1. seen'[1] = ra[n].out /\ seen'[2] = rz[n].out
    BY <1>6
  <2>2. Shown(seen[1], seen[2])'
    BY <1>10, <2>1 DEF Shown, Kept
  <2>. QED
    BY <1>14, <1>15, <1>16, <2>2 DEF Running
<1>18. PICK c, ph : c = code /\ ph = phis
  OBVIOUS
<1>19. RestStands(c, ph, D, rep, ent)'
  BY <1>1, <1>18, RestStandsIn
<1>. QED
  BY <1>1, <1>17, <1>18, <1>19

(***************************************************************************)
(* The invariant.                                                          *)
(***************************************************************************)

\* The analysis saw every block and edge, found the dominator tree, and leaves
\* no block without a phi that needs one.
AnalysisServes == TreeIsWhole /\ WithinLimits /\ FrontiersServe

BehaviourInvariant ==
  /\ pc # "run" => at = 0 /\ Begun(before) /\ Begun(after) /\ seen = << >>
  /\ AnalysisServes =>
       /\ pc = "analysed" => \E D, rep, ent : RestStands(code, phis, D, rep, ent)
       /\ pc \in {"rename", "remove"} =>
            \E D, rep, ent : WalkStands(walk, code, phis, D, rep, ent) /\ Chosen(phis, D)
       /\ pc = "run" => \E D, rep, ent : RestStands(code, phis, D, rep, ent) /\ Running(D, rep, ent)

LEMMA ServesStays ==
  ASSUME g' = g, idom' = idom, df' = df
  PROVE  AnalysisServes' <=> AnalysisServes
<1>1. /\ TreeIsWhole' <=> TreeIsWhole
      /\ WithinLimits' <=> WithinLimits
      /\ N' = N
  BY TreeStays, LimitsStay
<1>2. FrontiersServe' <=> FrontiersServe
  BY <1>1 DEF FrontiersServe, PhisFor
<1>. QED
  BY <1>1, <1>2 DEF AnalysisServes

\* What the analysis leaves, when it has served.
LEMMA ServedFacts ==
  ASSUME IsGraph(g), FrontiersComputed, ListsCollected, AnalysisServes,
         pc \notin {"collect", "sweep", "frontier"}
  PROVE  N = g.n /\ df \in Lists /\ preds \in Lists /\ ListsAreEdges(g, preds)
<1>1. N = g.n /\ WithinLimits
  BY AllHavePlaces DEF AnalysisServes
<1>2. ListsAreEdges(g, preds) /\ preds \in Lists
  BY <1>1, PredListsAreEdges DEF ListsCollected, ShortLists, Lists
<1>3. df \in Lists
  <2>1. ListsJoins(Frontiers, N, 0)
    BY <1>1, <1>2, FrontiersListJoins
  <2>. QED
    BY <2>1 DEF ListsJoins, FrontiersComputed
<1>. QED
  BY <1>1, <1>2, <1>3

LEMMA BehaviourStart == Init => BehaviourInvariant
BY DEF Init, AnalysisInit, BehaviourInvariant, Begun

LEMMA RunStaysBegun ==
  ASSUME BehaviourInvariant, pc # "run", UNCHANGED running
  PROVE  /\ at = 0 /\ Begun(before) /\ Begun(after) /\ seen = << >>
         /\ (at = 0 /\ Begun(before) /\ Begun(after) /\ seen = << >>)'
BY DEF BehaviourInvariant, running, Begun

LEMMA AnalysisBehaves ==
  ASSUME PromotionInvariant, BehaviourInvariant, AnalysisStep
  PROVE  BehaviourInvariant'
<1>1. /\ UNCHANGED running /\ g' = g /\ orig' = orig /\ code' = code /\ phis' = phis
      /\ pc \in {"collect", "sweep", "frontier"}
      /\ pc' \in {"collect", "sweep", "frontier", "analysed"}
  BY DEF AnalysisStep, Analyse, CollectBlocks, VisitBlock, EndSweep, ComputeDF, renaming
<1>2. (at = 0 /\ Begun(before) /\ Begun(after) /\ seen = << >>)'
  BY <1>1, RunStaysBegun
<1>3. ASSUME pc' = "analysed"
      PROVE  \E D, rep, ent : RestStands(code, phis, D, rep, ent)'
  <2>1. preds' = preds /\ idom' = idom
    BY <1>1, <1>3 DEF AnalysisStep, Analyse, CollectBlocks, VisitBlock, EndSweep, ComputeDF
  <2>2. OrigIsSSA /\ code = orig /\ phis = [b \in Blocks(g) |-> << >>]
    BY <1>1 DEF PromotionInvariant
  <2>3. PICK c, ph : c = code /\ ph = phis
    OBVIOUS
  <2>4. \E D, rep, ent : RestStands(c, ph, D, rep, ent)
    BY <2>2, <2>3, OrigStands
  <2>5. PICK D, rep, ent : RestStands(c, ph, D, rep, ent)
    BY <2>4
  <2>6. RestStands(c, ph, D, rep, ent)'
    BY <1>1, <2>1, <2>2, <2>5, RestStandsIn
  <2>. QED
    BY <1>1, <2>3, <2>6
<1>. QED
  BY <1>1, <1>2, <1>3 DEF BehaviourInvariant

LEMMA BehaviourSame ==
  ASSUME IsGraph(g), OrigIsSSA, BehaviourInvariant, UNCHANGED vars
  PROVE  BehaviourInvariant'
<1>1. /\ g' = g /\ orig' = orig /\ preds' = preds /\ idom' = idom /\ df' = df /\ code' = code /\ phis' = phis
      /\ slot' = slot /\ walk' = walk /\ pc' = pc /\ UNCHANGED running
  BY DEF vars, analysis, renaming
<1>2. at' = at /\ from' = from /\ before' = before /\ after' = after /\ seen' = seen
  BY <1>1 DEF running
<1>3. AnalysisServes' => AnalysisServes
  BY <1>1, ServesStays
<1>4. PICK c, ph, w, x, y : c = code /\ ph = phis /\ w = walk /\ x = before /\ y = after
  OBVIOUS
<1>5. \A D, rep, ent : RestStands(code, phis, D, rep, ent) => RestStands(code, phis, D, rep, ent)'
  BY <1>1, <1>4, RestStandsIn
<1>6. \A D, rep, ent : WalkStands(walk, code, phis, D, rep, ent) => WalkStands(walk, code, phis, D, rep, ent)'
  BY <1>1, <1>4, WalkStandsIn
<1>7. \A D : Chosen(phis, D) => Chosen(phis, D)'
  BY <1>1, <1>4, ChosenIn
<1>8. \A D, rep, ent : Running(D, rep, ent) => Running(D, rep, ent)'
  <2>1. \A D, rep, ent, b, k, a, z : Agrees(D, rep, ent, b, k, a, z) => Agrees(D, rep, ent, b, k, a, z)'
    BY <1>1, AgreesIn
  <2>2. PICK p, m : p = from /\ m = End(from)
    OBVIOUS
  <2>3. End(from)' = m
    BY <1>1, <1>2, <2>2 DEF End
  <2>4. \A D, rep, ent : Agrees(D, rep, ent, from, End(from), before, after)
                           => Agrees(D, rep, ent, from, End(from), before, after)'
    BY <1>2, <1>4, <2>1, <2>2, <2>3
  <2>. QED
    BY <1>1, <1>2, <2>4 DEF Running, Arrives, Begun, Shown, Kept
<1>9. pc' # "run" => (at = 0 /\ Begun(before) /\ Begun(after) /\ seen = << >>)'
  BY <1>1, RunStaysBegun
<1>. QED
  BY <1>1, <1>3, <1>5, <1>6, <1>7, <1>8, <1>9 DEF BehaviourInvariant

LEMMA BehaviourSteps ==
  ASSUME PromotionInvariant, FrontiersComputed, ListsCollected, BehaviourInvariant, [Next]_vars
  PROVE  BehaviourInvariant'
<1>1. OrigIsSSA /\ IsGraph(g)
  BY DEF PromotionInvariant, OrigIsSSA
<1>2. CASE AnalysisStep
  BY <1>2, AnalysisBehaves
<1>3. CASE PromoteOne
  <2>1. g' = g /\ idom' = idom /\ df' = df /\ pc = "analysed" /\ pc' = "rename" /\ UNCHANGED running
    BY <1>3 DEF PromoteOne, analysis
  <2>2. (at = 0 /\ Begun(before) /\ Begun(after) /\ seen = << >>)'
    BY <2>1, RunStaysBegun
  <2>3. ASSUME AnalysisServes'
        PROVE  \E D, rep, ent : (WalkStands(walk, code, phis, D, rep, ent) /\ Chosen(phis, D))'
    <3>1. AnalysisServes
      BY <2>1, <2>3, ServesStays
    <3>2. N = g.n /\ df \in Lists /\ FrontiersServe
      BY <1>1, <2>1, <3>1, ServedFacts DEF AnalysisServes
    <3>3. PICK D, rep, ent : RestStands(code, phis, D, rep, ent)
      BY <2>1, <3>1 DEF BehaviourInvariant
    <3>4. (WalkStands(walk, code, phis, D, rep, ent) /\ Chosen(phis, D))'
      BY <1>1, <1>3, <3>2, <3>3, PromoteStands
    <3>. QED
      BY <3>4
  <2>. QED
    BY <2>1, <2>2, <2>3 DEF BehaviourInvariant
<1>4. CASE RenameBlock
  <2>1. g' = g /\ idom' = idom /\ df' = df /\ pc = "rename" /\ pc' = "rename" /\ UNCHANGED running
    BY <1>4 DEF RenameBlock, analysis
  <2>2. (at = 0 /\ Begun(before) /\ Begun(after) /\ seen = << >>)'
    BY <2>1, RunStaysBegun
  <2>3. ASSUME AnalysisServes'
        PROVE  \E D, rep, ent : (WalkStands(walk, code, phis, D, rep, ent) /\ Chosen(phis, D))'
    <3>1. AnalysisServes /\ TreeIsWhole
      BY <2>1, <2>3, ServesStays DEF AnalysisServes
    <3>2. PICK D, rep, ent : WalkStands(walk, code, phis, D, rep, ent) /\ Chosen(phis, D)
      BY <2>1, <3>1 DEF BehaviourInvariant
    <3>. QED
      BY <1>4, <3>1, <3>2, RenameStands
  <2>. QED
    BY <2>1, <2>2, <2>3 DEF BehaviourInvariant
<1>5. CASE RenameEnds
  <2>1. g' = g /\ idom' = idom /\ df' = df /\ pc = "rename" /\ pc' = "remove" /\ UNCHANGED running
    BY <1>5 DEF RenameEnds, analysis
  <2>2. (at = 0 /\ Begun(before) /\ Begun(after) /\ seen = << >>)'
    BY <2>1, RunStaysBegun
  <2>3. ASSUME AnalysisServes'
        PROVE  \E D, rep, ent : (WalkStands(walk, code, phis, D, rep, ent) /\ Chosen(phis, D))'
    <3>1. AnalysisServes
      BY <2>1, <2>3, ServesStays
    <3>2. PICK D, rep, ent : WalkStands(walk, code, phis, D, rep, ent) /\ Chosen(phis, D)
      BY <2>1, <3>1 DEF BehaviourInvariant
    <3>3. (WalkStands(walk, code, phis, D, rep, ent) /\ Chosen(phis, D))'
      BY <1>1, <1>5, <3>2, RenameEndsStands
    <3>. QED
      BY <3>3
  <2>. QED
    BY <2>1, <2>2, <2>3 DEF BehaviourInvariant
<1>6. CASE RemoveDead
  <2>1. g' = g /\ idom' = idom /\ df' = df /\ pc = "remove" /\ pc' = "analysed" /\ UNCHANGED running
    BY <1>6 DEF RemoveDead, analysis
  <2>2. (at = 0 /\ Begun(before) /\ Begun(after) /\ seen = << >>)'
    BY <2>1, RunStaysBegun
  <2>3. ASSUME AnalysisServes'
        PROVE  \E D, rep, ent : RestStands(code, phis, D, rep, ent)'
    <3>1. AnalysisServes /\ TreeIsWhole
      BY <2>1, <2>3, ServesStays DEF AnalysisServes
    <3>2. PICK D, rep, ent : WalkStands(walk, code, phis, D, rep, ent) /\ Chosen(phis, D)
      BY <2>1, <3>1 DEF BehaviourInvariant
    <3>3. \E E : RestStands(code, phis, E, rep, ent)'
      BY <1>6, <3>1, <3>2, RemoveStands
    <3>. QED
      BY <3>3
  <2>. QED
    BY <2>1, <2>2, <2>3 DEF BehaviourInvariant
<1>7. CASE PromotionEnds
  <2>1. /\ g' = g /\ orig' = orig /\ preds' = preds /\ idom' = idom /\ df' = df /\ code' = code /\ phis' = phis
        /\ pc = "analysed" /\ pc' = "run" /\ UNCHANGED running
    BY <1>7 DEF PromotionEnds, analysis, renaming
  <2>2. (at = 0 /\ Begun(before) /\ Begun(after) /\ seen = << >>)'
    BY <2>1, RunStaysBegun
  <2>3. ASSUME AnalysisServes'
        PROVE  \E D, rep, ent : (RestStands(code, phis, D, rep, ent) /\ Running(D, rep, ent))'
    <3>1. AnalysisServes
      BY <2>1, <2>3, ServesStays
    <3>2. PICK D, rep, ent : RestStands(code, phis, D, rep, ent)
      BY <2>1, <3>1 DEF BehaviourInvariant
    <3>3. PICK c, ph : c = code /\ ph = phis
      OBVIOUS
    <3>4. RestStands(c, ph, D, rep, ent)'
      BY <1>1, <2>1, <3>2, <3>3, RestStandsIn
    <3>5. 0 \in Reachable(g)
      BY <3>1, <1>1, TreeBlocks DEF AnalysisServes, TreeFound, TreeIsWhole
    <3>6. Running(D, rep, ent)'
      BY <2>1, <2>2, <3>5 DEF Running, Arrives
    <3>. QED
      BY <2>1, <3>3, <3>4, <3>6
  <2>. QED
    BY <2>1, <2>2, <2>3 DEF BehaviourInvariant
<1>8. CASE RunBlock
  <2>1. g' = g /\ idom' = idom /\ df' = df /\ pc = "run" /\ pc' = "run"
    BY <1>8 DEF RunBlock, analysis
  <2>2. ASSUME AnalysisServes'
        PROVE  \E D, rep, ent : (RestStands(code, phis, D, rep, ent) /\ Running(D, rep, ent))'
    <3>1. AnalysisServes
      BY <2>1, <2>2, ServesStays
    <3>2. preds \in Lists /\ ListsAreEdges(g, preds)
      BY <1>1, <2>1, <3>1, ServedFacts
    <3>3. PICK D, rep, ent : RestStands(code, phis, D, rep, ent) /\ Running(D, rep, ent)
      BY <2>1, <3>1 DEF BehaviourInvariant
    <3>4. (RestStands(code, phis, D, rep, ent) /\ Running(D, rep, ent))'
      BY <1>1, <1>8, <3>2, <3>3, RunStands
    <3>. QED
      BY <3>4
  <2>. QED
    BY <2>1, <2>2 DEF BehaviourInvariant
<1>9. CASE UNCHANGED vars
  BY <1>1, <1>9, BehaviourSame
<1>. QED
  BY <1>2, <1>3, <1>4, <1>5, <1>6, <1>7, <1>8, <1>9 DEF Next, Finished

\* Wherever the analysis serves, what is left of the program stands for the
\* original one from each promotion to the next, and the two runs agree.
THEOREM Behaviour == Spec => []BehaviourInvariant
<1>1. PromotionInvariant /\ FrontiersComputed /\ ListsCollected /\ BehaviourInvariant /\ [Next]_vars => BehaviourInvariant'
  BY BehaviourSteps
<1>. QED
  BY <1>1, BehaviourStart, Promotion, FrontiersComputedInvariant, ListsCollectedInvariant, PTL DEF Spec

LEMMA ShownIsSame ==
  ASSUME BehaviourInvariant, AnalysisServes
  PROVE  SameBehaviour
<1>. SUFFICES ASSUME seen # << >>
              PROVE  /\ Len(seen[1]) = Len(seen[2])
                     /\ \A i \in DOMAIN seen[1] : seen[1][i] \in {Undef, seen[2][i]}
  BY DEF SameBehaviour
<1>1. Shown(seen[1], seen[2])
  BY DEF BehaviourInvariant, Running
<1>2. PICK S : /\ seen[1] \in Seq(S) /\ Len(seen[1]) = Len(seen[2])
               /\ \A i \in 1 .. Len(seen[1]) : Kept(seen[1][i], seen[2][i])
  BY <1>1 DEF Shown
<1>3. DOMAIN seen[1] = 1 .. Len(seen[1])
  BY <1>2
<1>. QED
  BY <1>2, <1>3 DEF Kept

\* ir_opt_mem2reg.c: promotion keeps what a function shows on every path, with
\* or without loops, if the analysis has found the dominator tree of all of it
\* and its frontiers lead to every block that needs a phi.
THEOREM BehaviourIsKept == Spec => [](AnalysisServes => SameBehaviour)
<1>1. BehaviourInvariant => (AnalysisServes => SameBehaviour)
  BY ShownIsSame
<1>. QED
  BY <1>1, Behaviour, PTL

\* No list of a frontier is full.
FrontiersFit == \A a \in Reachable(g) : Len(df[a]) < MAX_DF

(***************************************************************************)
(* The frontiers of an exact tree.                                         *)
(***************************************************************************)

\* What holds of the entry and passes along edges holds of all that is reached.
LEMMA ReachedHave ==
  ASSUME NEW h, IsGraph(h), NEW a, NEW S, {0} \ {a} \subseteq S,
         \A p \in S \cap ReachAvoiding(h, a) : \A b \in Succs(h, p) : b # a => b \in S
  PROVE  ReachAvoiding(h, a) \subseteq S
<1>. DEFINE n == h.n
            R == ReachAvoiding(h, a)
<1>1. n \in Nat
  BY DEF IsGraph
<1>2. PICK r \in [0 .. n -> SUBSET Blocks(h)] :
             /\ r[0] = {0} \ {a}
             /\ \A k \in 1 .. n : \A b :
                  b \in r[k] <=> b \in r[k - 1] \/ (b # a /\ \E p \in r[k - 1] : b \in Succs(h, p))
             /\ R = r[n]
  BY ReachUnfolds
<1>3. \A b \in r[0] : b \in R
  <2>1. a # 0 => 0 \in R
    BY ReachTypes
  <2>. HIDE DEF R
  <2>. QED
    BY <1>2, <2>1
<1>4. \A p \in R : \A b \in Succs(h, p) : b # a => b \in R
  BY AvoidingCloses
<1>. HIDE DEF n, R
<1>. DEFINE K == {k \in 0 .. n : r[k] \subseteq S \cap R}
<1>5. 0 \in K
  BY <1>1, <1>2, <1>3
<1>6. ASSUME NEW k \in 1 .. n, k - 1 \in K
      PROVE  k \in K
  <2>1. k \in 0 .. n /\ r[k - 1] \subseteq S \cap R
    BY <1>6
  <2>2. ASSUME NEW b \in r[k]
        PROVE  b \in S \cap R
    <3>1. b \in r[k - 1] \/ (b # a /\ \E p \in r[k - 1] : b \in Succs(h, p))
      BY <1>2
    <3>2. ASSUME b # a, NEW p \in r[k - 1], b \in Succs(h, p)
          PROVE  b \in S \cap R
      <4>1. p \in S \cap R
        BY <2>1
      <4>. QED
        BY <1>4, <3>2, <4>1 DEF R
    <3>. QED
      BY <2>1, <3>1, <3>2
  <2>. QED
    BY <2>1, <2>2
<1>7. 0 .. n \subseteq K
  <2>. HIDE DEF K
  <2>. QED
    BY <1>1, <1>5, <1>6, UpTo
<1>. QED
  BY <1>1, <1>2, <1>7 DEF R

\* A block is reached without another from a block that is.
LEMMA ReachedFrom ==
  ASSUME NEW h, IsGraph(h), NEW a, NEW b \in ReachAvoiding(h, a), b # 0
  PROVE  \E p \in ReachAvoiding(h, a) : b \in Succs(h, p)
<1>. DEFINE S == {x \in ReachAvoiding(h, a) : x = 0 \/ \E p \in ReachAvoiding(h, a) : x \in Succs(h, p)}
<1>1. {0} \ {a} \subseteq S
  BY ReachTypes
<1>2. \A p \in S \cap ReachAvoiding(h, a) : \A x \in Succs(h, p) : x # a => x \in S
  BY AvoidingCloses
<1>3. ReachAvoiding(h, a) \subseteq S
  <2>. HIDE DEF S
  <2>. QED
    BY <1>1, <1>2, ReachedHave
<1>. QED
  BY <1>3

\* The first arrival at a block is from one reached without it.
LEMMA FirstArrival ==
  ASSUME NEW h, IsGraph(h), NEW b \in Reachable(h), b # 0
  PROVE  \E p \in ReachAvoiding(h, b) : b \in Succs(h, p)
<1>. SUFFICES ASSUME \A p \in ReachAvoiding(h, b) : b \notin Succs(h, p)
              PROVE  FALSE
  OBVIOUS
<1>1. {0} \ {-1} \subseteq ReachAvoiding(h, b)
  BY ReachTypes
<1>2. \A p \in ReachAvoiding(h, b) : \A x \in Succs(h, p) : x \in ReachAvoiding(h, b)
  BY AvoidingCloses
<1>3. Reachable(h) \subseteq ReachAvoiding(h, b)
  BY <1>1, <1>2, ReachedHave DEF Reachable
<1>. QED
  BY <1>3, ReachTypes

\* The path up from a block, in a set that what is recorded does not leave.
LEMMA PathUnfolds ==
  ASSUME N \in Nat, NEW V, \A x \in V : Above(idom, x) \in V, NEW p \in V
  PROVE  /\ Ancestors(idom, p) \in [0 .. N -> V] /\ Ancestors(idom, p)[0] = p
         /\ \A k \in 1 .. N : Ancestors(idom, p)[k] = Above(idom, Ancestors(idom, p)[k - 1])
<1>. DEFINE n == N
            step == [x \in V |-> Above(idom, x)]
            Def(f) == f = [k \in 0 .. n |-> IF k = 0 THEN p ELSE Above(idom, f[k - 1])]
<1>1. Step(V, step) /\ \A x \in V : step[x] = Above(idom, x)
  BY DEF Step
<1>. HIDE DEF n, step
<1>2. PICK r : IsIteration(V, p, n, step, r)
  BY <1>1, IterateExists DEF n
<1>3. r = [k \in 0 .. n |-> r[k]] /\ r \in [0 .. n -> V] /\ r[0] = p /\ \A k \in 1 .. n : r[k] = step[r[k - 1]]
  BY <1>2 DEF IsIteration
<1>4. \A k \in 1 .. n : k \in 0 .. n /\ k - 1 \in 0 .. n /\ r[k - 1] \in V
  BY <1>3 DEF n
<1>5. \A k \in 0 .. n : k # 0 => k \in 1 .. n
  BY DEF n
<1>6. \A k \in 0 .. n : r[k] = IF k = 0 THEN p ELSE Above(idom, r[k - 1])
  BY <1>1, <1>3, <1>4, <1>5
<1>7. [k \in 0 .. n |-> r[k]] = [k \in 0 .. n |-> IF k = 0 THEN p ELSE Above(idom, r[k - 1])]
  BY <1>6
<1>8. PICK f : Def(f) /\ Ancestors(idom, p) = f
  BY <1>3, <1>7 DEF Ancestors, n
<1>9. \A k \in 0 .. n : f[k] = IF k = 0 THEN p ELSE Above(idom, f[k - 1])
  BY <1>8
<1>10. f[0] = p /\ f = [k \in 0 .. n |-> f[k]]
  BY <1>8, <1>9 DEF n
<1>11. \A k \in 1 .. n : f[k] = Above(idom, f[k - 1])
  BY <1>4, <1>9
<1>12. IsIteration(V, p, n, step, f)
  <2>1. Iterates(V, p, n, step, f)
    BY <1>1, <1>10, <1>11 DEF Iterates
  <2>. QED
    BY <1>1, <2>1, IterateTypes DEF n
<1>. QED
  BY <1>8, <1>11, <1>12 DEF IsIteration, n

\* The path up an exact tree.
LEMMA TreePath ==
  ASSUME TreeFound, NEW p \in Reachable(g)
  PROVE  /\ Ancestors(idom, p) \in [0 .. N -> Reachable(g)] /\ Ancestors(idom, p)[0] = p
         /\ \A k \in 1 .. N : Ancestors(idom, p)[k] = idom[Ancestors(idom, p)[k - 1]]
<1>1. N \in Nat /\ None \notin Reachable(g) /\ 0 \in Reachable(g) /\ idom[0] = 0
  BY TreeBlocks DEF TreeFound, TreeIsExact
<1>2. \A x \in Reachable(g) : Above(idom, x) = idom[x] /\ idom[x] \in Reachable(g)
  BY <1>1, TreeParents DEF Above
<1>3. /\ Ancestors(idom, p) \in [0 .. N -> Reachable(g)] /\ Ancestors(idom, p)[0] = p
      /\ \A k \in 1 .. N : Ancestors(idom, p)[k] = Above(idom, Ancestors(idom, p)[k - 1])
  <2>. DEFINE V == Reachable(g)
  <2>1. p \in V /\ \A x \in V : Above(idom, x) \in V
    BY <1>2
  <2>. HIDE DEF V
  <2>2. /\ Ancestors(idom, p) \in [0 .. N -> V] /\ Ancestors(idom, p)[0] = p
        /\ \A k \in 1 .. N : Ancestors(idom, p)[k] = Above(idom, Ancestors(idom, p)[k - 1])
    BY <1>1, <2>1, PathUnfolds
  <2>. QED
    BY <2>2 DEF V
<1>4. \A k \in 1 .. N : k - 1 \in 0 .. N
  BY <1>1
<1>. QED
  BY <1>2, <1>3, <1>4

\* A block has more dominators than the one above it.
LEMMA FewerAbove ==
  ASSUME TreeFound, NEW x \in Reachable(g)
  PROVE  /\ Cardinality(Dom(g, x)) \in Nat \ {0} /\ Cardinality(Dom(g, x)) <= N
         /\ x # 0 => Cardinality(Dom(g, idom[x])) < Cardinality(Dom(g, x))
<1>1. IsGraph(g) /\ N = g.n /\ IsFiniteSet(Blocks(g)) /\ Cardinality(Blocks(g)) <= N /\ g.n \in Nat
  BY TreeBlocks, BlocksAreFinite DEF TreeFound
<1>2. ASSUME NEW z \in Reachable(g)
      PROVE  /\ IsFiniteSet(Dom(g, z)) /\ Cardinality(Dom(g, z)) \in Nat \ {0}
             /\ Cardinality(Dom(g, z)) <= N
  <2>1. Dom(g, z) \subseteq Blocks(g) /\ z \in Dom(g, z)
    BY <1>1, DomMembers
  <2>2. IsFiniteSet(Dom(g, z)) /\ Cardinality(Dom(g, z)) <= Cardinality(Blocks(g))
    BY <1>1, <2>1, FS_Subset
  <2>3. Cardinality(Dom(g, z)) \in Nat /\ Cardinality(Blocks(g)) \in Nat /\ Cardinality(Dom(g, z)) # 0
    BY <1>1, <2>1, <2>2, FS_CardinalityType, FS_EmptySet
  <2>. QED
    BY <1>1, <2>2, <2>3
<1>3. ASSUME x # 0
      PROVE  Cardinality(Dom(g, idom[x])) < Cardinality(Dom(g, x))
  <2>1. x \in Reachable(g) \ {0} /\ idom[x] \in Reachable(g) /\ idom[x] \in Dom(g, x) /\ idom[x] # x
    BY <1>3, TreeParents
  <2>2. Dom(g, idom[x]) \subseteq Dom(g, x)
    BY <1>1, <2>1, DomUp
  <2>3. x \in Dom(g, x) /\ x \notin Dom(g, idom[x])
    BY <1>1, <2>1, DomMembers, DomAntisymmetric
  <2>4. Cardinality(Dom(g, idom[x])) <= Cardinality(Dom(g, x))
        /\ (Cardinality(Dom(g, idom[x])) = Cardinality(Dom(g, x)) => Dom(g, idom[x]) = Dom(g, x))
    BY <1>2, <2>1, <2>2, FS_Subset
  <2>5. Dom(g, idom[x]) # Dom(g, x)
    BY <2>3
  <2>6. Cardinality(Dom(g, idom[x])) \in Nat /\ Cardinality(Dom(g, x)) \in Nat
    BY <1>2, <2>1
  <2>. QED
    BY <2>4, <2>5, <2>6
<1>. QED
  BY <1>2, <1>3

\* It consists of dominators.
LEMMA PathDominates ==
  ASSUME TreeFound, NEW p \in Reachable(g)
  PROVE  \A k \in 0 .. N : Ancestors(idom, p)[k] \in Dom(g, p)
<1>. DEFINE up == Ancestors(idom, p)
            S == {k \in 0 .. N : up[k] \in Dom(g, p)}
<1>1. IsGraph(g) /\ N \in Nat /\ 0 \in Reachable(g) /\ idom[0] = 0
  BY TreeBlocks DEF TreeFound, TreeIsExact
<1>2. up \in [0 .. N -> Reachable(g)] /\ up[0] = p /\ \A k \in 1 .. N : up[k] = idom[up[k - 1]]
  BY TreePath
<1>. HIDE DEF up
<1>3. 0 \in S
  BY <1>1, <1>2, DomMembers
<1>4. ASSUME NEW k \in 1 .. N, k - 1 \in S
      PROVE  k \in S
  <2>1. up[k - 1] \in Reachable(g) /\ up[k - 1] \in Dom(g, p) /\ up[k] = idom[up[k - 1]] /\ k \in 0 .. N
    BY <1>1, <1>2, <1>4
  <2>2. up[k] \in Dom(g, up[k - 1])
    BY <1>1, <2>1, TreeParents, DomMembers
  <2>3. Dom(g, up[k - 1]) \subseteq Dom(g, p)
    BY <1>1, <2>1, DomUp
  <2>. QED
    BY <2>1, <2>2, <2>3
<1>5. 0 .. N \subseteq S
  <2>. HIDE DEF S
  <2>. QED
    BY <1>1, <1>3, <1>4, UpTo
<1>. QED
  BY <1>5 DEF up

\* An unreachable block has nothing above it.
LEMMA StrayPath ==
  ASSUME N \in Nat \ {0}, NEW p, p # None, idom[p] = None
  PROVE  Ancestors(idom, p)[0] = p /\ Ancestors(idom, p)[1] = None
<1>. DEFINE n == N
            Def(f) == f = [k \in 0 .. n |-> IF k = 0 THEN p ELSE Above(idom, f[k - 1])]
            q == [k \in 0 .. n |-> IF k = 0 THEN p ELSE None]
<1>1. Def(q)
  <2>1. ASSUME NEW k \in 0 .. n, k # 0
        PROVE  Above(idom, q[k - 1]) = None
    <3>1. k - 1 \in 0 .. n /\ (k - 1 = 0 \/ q[k - 1] = None)
      BY <2>1
    <3>. QED
      BY <3>1 DEF Above
  <2>. QED
    BY <2>1
<1>2. PICK f : Def(f) /\ Ancestors(idom, p) = f
  BY <1>1 DEF Ancestors
<1>3. \A k \in 0 .. n : f[k] = IF k = 0 THEN p ELSE Above(idom, f[k - 1])
  BY <1>2
<1>4. 0 \in 0 .. n /\ 1 \in 0 .. n /\ 1 - 1 = 0
  OBVIOUS
<1>. QED
  BY <1>2, <1>3, <1>4 DEF Above

\* The path passes every dominator, and up to each of them it stays below it.
LEMMA PathPasses ==
  ASSUME TreeFound, NEW p \in Reachable(g), NEW x \in Dom(g, p)
  PROVE  \E k \in 0 .. N : /\ Ancestors(idom, p)[k] = x
                           /\ \A j \in 0 .. k : x \in Dom(g, Ancestors(idom, p)[j])
<1>. DEFINE up == Ancestors(idom, p)
            R == Reachable(g)
            Few(k) == up[k] = 0 \/ Cardinality(Dom(g, up[k])) <= N - k
            Small == {k \in 0 .. N : Few(k)}
            Below == {k \in 0 .. N : x \in Dom(g, up[k]) \/ \E j \in 0 .. k - 1 : up[j] = x}
            At == {k \in 0 .. N : up[k] = x}
<1>1. IsGraph(g) /\ N \in Nat \ {0} /\ 0 \in R
  BY TreeBlocks DEF TreeFound
<1>2. up \in [0 .. N -> R] /\ up[0] = p /\ \A k \in 1 .. N : up[k] = idom[up[k - 1]]
  BY TreePath
<1>3. idom[0] = 0
  BY DEF TreeFound, TreeIsWhole, TreeIsExact
<1>4. \A k \in 1 .. N : k \in 0 .. N /\ k - 1 \in 0 .. N
  BY <1>1
<1>. HIDE DEF up, R
<1>5. up[N] = 0
  <2>1. 0 \in Small
    <3>1. Cardinality(Dom(g, p)) <= N
      BY FewerAbove
    <3>. QED
      BY <1>1, <1>2, <3>1
  <2>2. ASSUME NEW k \in 1 .. N, k - 1 \in Small
        PROVE  k \in Small
    <3>1. up[k] = idom[up[k - 1]] /\ up[k - 1] \in R /\ up[k] \in R
      BY <1>2, <1>4
    <3>2. CASE up[k - 1] = 0
      BY <1>3, <1>4, <3>1, <3>2
    <3>3. CASE up[k - 1] # 0
      <4>1. Cardinality(Dom(g, up[k])) < Cardinality(Dom(g, up[k - 1]))
        BY <3>1, <3>3, FewerAbove DEF R
      <4>2. Cardinality(Dom(g, up[k])) \in Nat /\ Cardinality(Dom(g, up[k - 1])) \in Nat
        BY <3>1, FewerAbove DEF R
      <4>3. Cardinality(Dom(g, up[k - 1])) <= N - (k - 1)
        BY <2>2, <3>3
      <4>4. Cardinality(Dom(g, up[k])) <= N - k
        BY <1>1, <4>1, <4>2, <4>3
      <4>. QED
        BY <1>4, <4>4
    <3>. QED
      BY <3>2, <3>3
  <2>3. 0 .. N \subseteq Small
    <3>. HIDE DEF Small
    <3>. QED
      BY <1>1, <2>1, <2>2, UpTo
  <2>4. N \in 0 .. N /\ Few(N) /\ up[N] \in R
    BY <1>1, <1>2, <2>3
  <2>5. Cardinality(Dom(g, up[N])) \in Nat \ {0}
    BY <2>4, FewerAbove DEF R
  <2>. QED
    BY <1>1, <2>4, <2>5
<1>6. 0 .. N \subseteq Below
  <2>1. 0 \in Below
    BY <1>1, <1>2
  <2>2. ASSUME NEW k \in 1 .. N, k - 1 \in Below
        PROVE  k \in Below
    <3>1. up[k] = idom[up[k - 1]] /\ up[k - 1] \in R /\ k - 1 \in 0 .. k - 1 /\ k \in 0 .. N
      BY <1>1, <1>2, <1>4
    <3>2. CASE \E j \in 0 .. (k - 1) - 1 : up[j] = x
      <4>1. \A j \in 0 .. (k - 1) - 1 : j \in 0 .. k - 1
        OBVIOUS
      <4>. QED
        BY <3>1, <3>2, <4>1
    <3>3. CASE up[k - 1] = x
      BY <3>1, <3>3
    <3>4. CASE x \in Dom(g, up[k - 1]) /\ up[k - 1] # x
      <4>1. up[k - 1] # 0
        BY <1>1, <3>4, DomUp, DomMembers, DomAntisymmetric DEF R
      <4>2. x \in Dom(g, idom[up[k - 1]])
        BY <3>1, <3>4, <4>1, TreeParents DEF R
      <4>. QED
        BY <3>1, <4>2
    <3>. QED
      BY <2>2, <3>2, <3>3, <3>4
  <2>. HIDE DEF Below
  <2>. QED
    BY <1>1, <2>1, <2>2, UpTo
<1>7. At # {} /\ At \in SUBSET Nat
  <2>1. N \in Below /\ N \in 0 .. N /\ \A j \in 0 .. N - 1 : j \in 0 .. N
    BY <1>1, <1>6
  <2>2. ASSUME x \in Dom(g, up[N])
        PROVE  x = 0
    BY <1>1, <1>5, <2>2, DomUp, DomMembers, DomAntisymmetric DEF R
  <2>. QED
    BY <1>1, <1>5, <2>1, <2>2
<1>8. PICK k \in At : \A j \in At : k <= j
  <2>. HIDE DEF At
  <2>. QED
    BY <1>7, LeastExists
<1>9. ASSUME NEW j \in 0 .. k
      PROVE  x \in Dom(g, up[j])
  <2>1. j \in 0 .. N /\ \A i \in 0 .. j - 1 : i \in 0 .. N /\ ~(k <= i)
    BY <1>1, <1>8
  <2>2. \A i \in 0 .. j - 1 : up[i] # x
    BY <1>8, <2>1
  <2>. QED
    BY <1>6, <2>1, <2>2
<1>. QED
  BY <1>8, <1>9 DEF up

\* The runner from a predecessor passes the blocks that dominate it and not the
\* join.
LEMMA RunnerPasses ==
  ASSUME TreeFound, NEW b \in Reachable(g) \ {0}, NEW p \in Reachable(g), NEW x \in Dom(g, p),
         x \notin Dom(g, b) \ {b}
  PROVE  x \in Range(RunnerPath(p, b))
<1>. DEFINE up == Ancestors(idom, p)
            ends == {k \in 0 .. N : up[k] = None \/ up[k] = idom[b] \/ up[k] = idom[up[k]]}
            last == IF ends = {} THEN N + 1 ELSE Min(ends)
            path == RunnerPath(p, b)
<1>1. IsGraph(g) /\ N \in Nat \ {0} /\ 0 \in Reachable(g) /\ None \notin Reachable(g)
  BY TreeBlocks DEF TreeFound
<1>2. up \in [0 .. N -> Reachable(g)]
  BY TreePath
<1>3. PICK k \in 0 .. N : up[k] = x /\ \A j \in 0 .. k : x \in Dom(g, up[j])
  BY PathPasses
<1>4. path = [i \in 1 .. last |-> up[i - 1]]
  BY DEF RunnerPath
<1>5. idom[b] \in Reachable(g) /\ idom[b] \in Dom(g, b) /\ idom[b] # b
  BY TreeParents
<1>6. 0 \in Dom(g, b) /\ b # 0
  BY <1>1, DomMembers
<1>. HIDE DEF up, path
<1>7. ASSUME NEW j \in 0 .. k
      PROVE  j \notin ends
  <2>1. j \in 0 .. N /\ up[j] \in Reachable(g) /\ x \in Dom(g, up[j])
    BY <1>1, <1>2, <1>3
  <2>2. up[j] # None
    BY <1>1, <2>1
  <2>3. ASSUME up[j] = idom[b]
        PROVE  FALSE
    <3>1. x \in Dom(g, idom[b])
      BY <2>1, <2>3
    <3>2. x \in Dom(g, b) /\ x # b
      BY <1>1, <1>5, <3>1, DomUp, DomAntisymmetric
    <3>. QED
      BY <3>2
  <2>4. ASSUME up[j] = idom[up[j]]
        PROVE  FALSE
    <3>1. up[j] = 0
      BY <2>1, <2>4, TreeParents
    <3>2. x = 0
      BY <1>1, <2>1, <3>1, DomUp, DomMembers, DomAntisymmetric
    <3>. QED
      BY <1>6, <3>2
  <2>. QED
    BY <2>2, <2>3, <2>4
<1>8. last \in Nat /\ k < last
  <2>1. CASE ends = {}
    BY <1>1, <2>1
  <2>2. CASE ends # {}
    <3>1. ends \in SUBSET Nat
      BY <1>1
    <3>. HIDE DEF ends
    <3>2. \E i \in ends : \A j \in ends : i <= j
      BY <2>2, <3>1, LeastExists
    <3>3. Min(ends) \in ends
      BY <3>2 DEF Min
    <3>4. PICK m \in ends : last = m
      BY <2>2, <3>3
    <3>5. m \in Nat /\ m \notin 0 .. k
      BY <1>7, <3>1, <3>4
    <3>. QED
      BY <1>1, <1>3, <3>4, <3>5
  <2>. QED
    BY <2>1, <2>2
<1>. HIDE DEF last
<1>9. k + 1 \in 1 .. last /\ (k + 1) - 1 = k
  BY <1>1, <1>8
<1>10. k + 1 \in DOMAIN path /\ path[k + 1] = x
  BY <1>3, <1>4, <1>9
<1>. QED
  BY <1>10 DEF path, Range

\* It passes no other reachable block.
LEMMA RunnerStaysWithin ==
  ASSUME TreeFound, NEW b \in Blocks(g), idom[b] # None, NEW p \in Blocks(g), p \in Reachable(g) => b # 0,
         b \in Succs(g, p), NEW x \in Reachable(g), x \in Range(RunnerPath(p, b))
  PROVE  p \in Reachable(g) /\ b \in Reachable(g) /\ x \in Dom(g, p) /\ x \notin Dom(g, b) \ {b}
<1>. DEFINE up == Ancestors(idom, p)
            ends == {k \in 0 .. N : up[k] = None \/ up[k] = idom[b] \/ up[k] = idom[up[k]]}
            last == IF ends = {} THEN N + 1 ELSE Min(ends)
            path == RunnerPath(p, b)
<1>1. /\ IsGraph(g) /\ N \in Nat \ {0} /\ Blocks(g) = 0 .. N - 1 /\ None \notin Blocks(g)
      /\ 0 \in Reachable(g) /\ Reachable(g) \subseteq Blocks(g) /\ DOMAIN DominatorSets(g) = Reachable(g)
  BY TreeBlocks DEF TreeFound, DominatorSets
<1>2. \A c \in Blocks(g) : c \notin Reachable(g) => idom[c] = None
  BY <1>1 DEF TreeFound, TreeIsExact
<1>3. path = [i \in 1 .. last |-> up[i - 1]]
  BY DEF RunnerPath
<1>4. \A m \in ends : ends # {} /\ last \in ends /\ last <= m
  <2>. SUFFICES ASSUME NEW m \in ends
                PROVE  last \in ends /\ last <= m
    OBVIOUS
  <2>1. ends \in SUBSET Nat
    BY <1>1
  <2>. HIDE DEF ends
  <2>2. \E i \in ends : \A j \in ends : i <= j
    BY <2>1, LeastExists
  <2>3. Min(ends) \in ends /\ \A j \in ends : Min(ends) <= j
    BY <2>2 DEF Min
  <2>. QED
    BY <2>3
<1>5. CASE p \notin Reachable(g)
  <2>1. idom[p] = None /\ p # None
    BY <1>1, <1>2, <1>5
  <2>2. up[0] = p /\ up[1] = None
    BY <1>1, <2>1, StrayPath
  <2>. HIDE DEF up
  <2>3. 1 \in ends
    BY <1>1, <2>2
  <2>4. last \in 0 .. N /\ last <= 1
    BY <1>4, <2>3
  <2>. HIDE DEF last, ends, path
  <2>5. \A i \in DOMAIN path : i = 1 /\ path[i] = p
    BY <1>1, <1>3, <2>2, <2>4
  <2>6. x = p
    BY <2>5 DEF path, Range
  <2>. QED
    BY <1>5, <2>6
<1>6. CASE p \in Reachable(g)
  <2>1. b \in Reachable(g) \ {0}
    BY <1>1, <1>6, EdgeReaches
  <2>2. /\ up \in [0 .. N -> Reachable(g)] /\ up[0] = p
        /\ \A k \in 1 .. N : up[k] = idom[up[k - 1]]
    BY <1>6, TreePath
  <2>3. idom[b] \in Reachable(g) /\ idom[b] \in Dom(g, b) /\ idom[b] # b
        /\ \A a \in Dom(g, b) : a = b \/ a \in Dom(g, idom[b])
    BY <2>1, TreeParents
  <2>4. idom[b] \in Dom(g, p)
    BY <1>1, <1>6, <2>3, DomPreds
  <2>5. PICK m \in 0 .. N : up[m] = idom[b] /\ \A j \in 0 .. m : idom[b] \in Dom(g, up[j])
    BY <1>6, <2>4, PathPasses
  <2>6. \A k \in 0 .. N : up[k] \in Dom(g, p)
    BY <1>6, PathDominates
  <2>. HIDE DEF up
  <2>7. m \in ends
    BY <2>5
  <2>8. last \in 0 .. N /\ last <= m /\ \A k \in ends : last <= k
    BY <1>4, <2>7
  <2>9. PICK i \in 1 .. last : x = up[i - 1]
    BY <1>3 DEF path, Range
  <2>10. i - 1 \in 0 .. m /\ i - 1 \in 0 .. N /\ ~(last <= i - 1)
    BY <1>1, <2>5, <2>8, <2>9
  <2>11. i - 1 \notin ends
    BY <2>8, <2>10
  <2>. HIDE DEF last
  <2>12. idom[b] \in Dom(g, x) /\ x # idom[b] /\ x \in Dom(g, p)
    BY <2>5, <2>6, <2>9, <2>10, <2>11
  <2>13. x \notin Dom(g, idom[b])
    BY <1>1, <2>12, DomAntisymmetric
  <2>. QED
    BY <1>6, <2>1, <2>3, <2>12, <2>13
<1>. QED
  BY <1>5, <1>6

\* A block of a frontier has another predecessor: one it is reached from
\* without what dominates the first.
LEMMA FrontiersAreJoins ==
  ASSUME TreeFound, ListsAreEdges(g, preds), preds \in Lists,
         NEW a \in Reachable(g), NEW b \in Reachable(g) \ {0}, a \notin Dom(g, b) \ {b},
         NEW p \in Reachable(g), b \in Succs(g, p), a \in Dom(g, p)
  PROVE  IsJoin(b)
<1>1. /\ IsGraph(g) /\ Reachable(g) \subseteq Blocks(g) /\ None \notin Reachable(g)
      /\ idom[b] \in Reachable(g) /\ a \in Blocks(g) /\ b \in Blocks(g)
  BY TreeBlocks, TreeParents DEF TreeFound
<1>2. PICK q \in ReachAvoiding(g, a) : b \in Succs(g, q)
  <2>1. CASE a = b
    BY <1>1, <2>1, FirstArrival
  <2>2. CASE a # b
    <3>1. b \in ReachAvoiding(g, a)
      BY <1>1, <2>2, DomMembers
    <3>. QED
      BY <1>1, <3>1, ReachedFrom
  <2>. QED
    BY <2>1, <2>2
<1>3. q \in Blocks(g) /\ q # p
  BY <1>1, <1>2, ReachTypes, DomMembers
<1>4. PICK i \in DOMAIN preds[b], j \in DOMAIN preds[b] : preds[b][i] = p /\ preds[b][j] = q
  BY <1>1, <1>2, <1>3 DEF ListsAreEdges
<1>5. preds[b] \in Seq(Blocks(g))
  BY <1>1 DEF Lists
<1>6. Len(preds[b]) \in Nat /\ i \in 1 .. Len(preds[b]) /\ j \in 1 .. Len(preds[b]) /\ i # j
  BY <1>3, <1>4, <1>5
<1>7. Len(preds[b]) >= 2
  BY <1>6
<1>. QED
  BY <1>1, <1>7 DEF IsJoin

\* compute_df lists the frontiers of an exact tree, with loops too.
LEMMA ListedIsFrontier ==
  ASSUME TreeFound, EntryIsFirst, ListsAreEdges(g, preds), preds \in Lists,
         NEW a \in Reachable(g), NEW c \in Blocks(g)
  PROVE  ListedBy(N, 0, a, c) <=> c \in DominanceFrontier(g, DominatorSets(g), a)
<1>. DEFINE F == DominanceFrontier(g, DominatorSets(g), a)
<1>1. /\ IsGraph(g) /\ Blocks(g) = 0 .. N - 1 /\ Reachable(g) \subseteq Blocks(g) /\ N \in Nat \ {0}
      /\ DOMAIN DominatorSets(g) = Reachable(g)
  BY TreeBlocks DEF TreeFound, DominatorSets
<1>2. c \in F <=> /\ c \in Reachable(g) /\ a \notin Dom(g, c) \ {c}
                  /\ \E p \in Reachable(g) : c \in Succs(g, p) /\ a \in Dom(g, p)
  BY <1>1 DEF DominanceFrontier, Dom
<1>. HIDE DEF F
<1>3. ListedBy(N, 0, a, c)
        <=> IsJoin(c) /\ \E j \in DOMAIN preds[c] : a \in Range(RunnerPath(preds[c][j], c))
  BY <1>1 DEF ListedBy
<1>4. ASSUME ListedBy(N, 0, a, c)
      PROVE  c \in F
  <2>1. PICK j \in DOMAIN preds[c] : a \in Range(RunnerPath(preds[c][j], c))
    BY <1>3, <1>4
  <2>2. preds[c][j] \in Blocks(g) /\ c \in Succs(g, preds[c][j])
    BY DEF ListsAreEdges
  <2>3. idom[c] # None
    BY <1>3, <1>4 DEF IsJoin
  <2>4. preds[c][j] \in Reachable(g) => c # 0
    BY <2>2 DEF EntryIsFirst
  <2>5. /\ preds[c][j] \in Reachable(g) /\ c \in Reachable(g)
        /\ a \in Dom(g, preds[c][j]) /\ a \notin Dom(g, c) \ {c}
    BY <2>1, <2>2, <2>3, <2>4, RunnerStaysWithin
  <2>. QED
    BY <1>2, <2>2, <2>5
<1>5. ASSUME c \in F
      PROVE  ListedBy(N, 0, a, c)
  <2>1. c \in Reachable(g) /\ a \notin Dom(g, c) \ {c}
    BY <1>2, <1>5
  <2>2. PICK p \in Reachable(g) : c \in Succs(g, p) /\ a \in Dom(g, p)
    BY <1>2, <1>5
  <2>3. c # 0
    BY <2>2 DEF EntryIsFirst
  <2>4. a \in Range(RunnerPath(p, c))
    BY <2>1, <2>2, <2>3, RunnerPasses
  <2>5. IsJoin(c)
    BY <2>1, <2>2, <2>3, FrontiersAreJoins
  <2>6. PICK j \in DOMAIN preds[c] : preds[c][j] = p
    BY <1>1, <2>2 DEF ListsAreEdges
  <2>. QED
    BY <1>3, <2>4, <2>5, <2>6
<1>. QED
  BY <1>4, <1>5 DEF F

LEMMA ListsAreFrontiers ==
  ASSUME TreeFound, WithinLimits, EntryIsFirst, preds = PredLists, df = Frontiers
  PROVE  /\ df \in Lists
         /\ \A a \in Reachable(g) :
              /\ Range(df[a]) \subseteq DominanceFrontier(g, DominatorSets(g), a)
              /\ Len(df[a]) < MAX_DF => Range(df[a]) = DominanceFrontier(g, DominatorSets(g), a)
<1>. DEFINE F(a) == DominanceFrontier(g, DominatorSets(g), a)
<1>1. IsGraph(g) /\ N = g.n /\ Reachable(g) \subseteq Blocks(g) /\ DOMAIN DominatorSets(g) = Reachable(g)
  BY TreeBlocks DEF TreeFound, DominatorSets
<1>2. ListsAreEdges(g, preds) /\ preds \in Lists
  BY <1>1, PredListsAreEdges DEF ShortLists, Lists
<1>3. ListsJoins(df, N, 0)
  BY <1>1, <1>2, FrontiersListJoins
<1>4. \A a : F(a) \subseteq Blocks(g)
  BY <1>1 DEF DominanceFrontier
<1>5. \A a \in Reachable(g) : \A c \in Blocks(g) : ListedBy(N, 0, a, c) <=> c \in F(a)
  BY <1>2, ListedIsFrontier
<1>. HIDE DEF F
<1>6. ASSUME NEW a \in Reachable(g)
      PROVE  Range(df[a]) \subseteq F(a) /\ (Len(df[a]) < MAX_DF => Range(df[a]) = F(a))
  <2>1. /\ Range(df[a]) \subseteq Blocks(g)
        /\ \A c \in Range(df[a]) : ListedBy(N, 0, a, c)
        /\ Len(df[a]) < MAX_DF => \A c \in Blocks(g) : ListedBy(N, 0, a, c) => c \in Range(df[a])
    BY <1>1, <1>3 DEF ListsJoins, Lists, Range
  <2>2. Range(df[a]) \subseteq F(a)
    BY <1>5, <2>1
  <2>3. Len(df[a]) < MAX_DF => F(a) \subseteq Range(df[a])
    BY <1>4, <1>5, <2>1
  <2>. QED
    BY <2>2, <2>3
<1>. QED
  BY <1>3, <1>6 DEF ListsJoins, F

\* ir_opt_mem2reg_cfg.c, compute_df: in every function, with loops or without,
\* whose dominator tree is recorded exactly and that the arrays have the places
\* for, the lists are the dominance frontiers, as far as they are not full.
THEOREM FrontiersAreExact == Spec => []FrontiersFound
<1>1. DominatorsInvariant /\ FrontiersComputed /\ ListsCollected => FrontiersFound
  <2>1. DOMAIN DominatorSets(g) = Reachable(g)
    BY DEF DominatorSets
  <2>2. ASSUME DominatorsInvariant, FrontiersComputed, ListsCollected,
               Analysed, WithinLimits, EntryIsFirst, TreeIsExact
        PROVE  TreeFound /\ preds = PredLists /\ df = Frontiers
    BY <2>2 DEF DominatorsInvariant, FrontiersComputed, ListsCollected, Analysed, TreeFound, WithinLimits
  <2>. QED
    BY <2>1, <2>2, ListsAreFrontiers DEF FrontiersFound
<1>. QED
  BY <1>1, Invariance, FrontiersComputedInvariant, ListsCollectedInvariant, PTL

\* From an exact tree compute_df lists every block of a frontier, with loops
\* too, if the lists have the places.
LEMMA ExactTreeServes ==
  ASSUME TreeFound, WithinLimits, EntryIsFirst, FrontiersFit, preds = PredLists, df = Frontiers
  PROVE  FrontiersServe
<1>1. df \in Lists /\ \A a \in Reachable(g) : Range(df[a]) = DominanceFrontier(g, DominatorSets(g), a)
  BY ListsAreFrontiers DEF FrontiersFit
<1>. QED
  BY <1>1, TreeBlocks, CompleteFrontiersServe DEF TreeFound

\* ir_opt_mem2reg.c: with or without loops promotion leaves a function as it
\* behaved, if the analysis has found its dominator tree and the arrays have
\* the places.
THEOREM ExactTreeBehaviour ==
  Spec => [](TreeIsWhole /\ WithinLimits /\ EntryIsFirst /\ FrontiersFit => SameBehaviour)
<1>1. DominatorsInvariant /\ FrontiersComputed /\ ListsCollected /\ BehaviourInvariant =>
        (TreeIsWhole /\ WithinLimits /\ EntryIsFirst /\ FrontiersFit => SameBehaviour)
  <2>1. BehaviourInvariant /\ pc # "run" => SameBehaviour
    BY DEF BehaviourInvariant, SameBehaviour
  <2>2. ASSUME DominatorsInvariant, FrontiersComputed, ListsCollected, BehaviourInvariant,
               TreeIsWhole, WithinLimits, EntryIsFirst, FrontiersFit, pc = "run"
        PROVE  SameBehaviour
    <3>1. FrontiersServe
      BY <2>2, ExactTreeServes DEF DominatorsInvariant, FrontiersComputed, ListsCollected, TreeFound, TreeIsWhole
    <3>. QED
      BY <2>2, <3>1, ShownIsSame DEF AnalysisServes
  <2>. QED
    BY <2>1, <2>2
<1>. QED
  BY <1>1, Invariance, FrontiersComputedInvariant, ListsCollectedInvariant, Behaviour, PTL

(***************************************************************************)
(* Functions without loops, whatever the order of their blocks: the        *)
(* dominator tree is the only one a sweep with marks of its own leaves.    *)
(***************************************************************************)

\* The blocks above all the reachable predecessors of b, as recorded.
Shared(b) == {x \in Blocks(g) : \A p \in Reachable(g) : b \in Succs(g, p) => x \in OnPath(idom, p)}

\* What is recorded of a block is where the paths from its predecessors meet.
Settled ==
  /\ idom[0] = 0
  /\ \A b \in Blocks(g) \ {0} :
       IF b \in Reachable(g) THEN idom[b] \in Shared(b) /\ Shared(b) \subseteq OnPath(idom, idom[b])
                             ELSE idom[b] = None

LEMMA WalksUnfold ==
  ASSUME NEW h, IsGraph(h)
  PROVE  /\ WalkEnds(h) \in [0 .. h.n -> SUBSET Blocks(h)] /\ WalkEnds(h)[0] = Blocks(h)
         /\ \A k \in 1 .. h.n : \A b : b \in WalkEnds(h)[k] <=> \E p \in WalkEnds(h)[k - 1] : b \in Succs(h, p)
<1>. DEFINE n == h.n
            V == SUBSET Blocks(h)
            step == [S \in V |-> Further(h, S)]
            Def(f) == f = [k \in 0 .. n |-> IF k = 0 THEN Blocks(h) ELSE Further(h, f[k - 1])]
<1>1. n \in Nat
  BY DEF IsGraph
<1>2. \A S : \A b : b \in Further(h, S) <=> \E p \in S : b \in Succs(h, p)
  BY DEF Further
<1>3. \A S \in V : Further(h, S) \in V
  BY <1>2, SuccTypes
<1>4. Step(V, step) /\ \A S \in V : step[S] = Further(h, S)
  BY <1>3 DEF Step
<1>. HIDE DEF n, step
<1>5. PICK r : IsIteration(V, Blocks(h), n, step, r)
  BY <1>1, <1>4, IterateExists
<1>6. r = [k \in 0 .. n |-> r[k]] /\ r \in [0 .. n -> V] /\ r[0] = Blocks(h) /\ \A k \in 1 .. n : r[k] = step[r[k - 1]]
  BY <1>5 DEF IsIteration
<1>7. \A k \in 0 .. n : k # 0 => k \in 1 .. n /\ k - 1 \in 0 .. n
  BY <1>1
<1>8. \A k \in 0 .. n : r[k] = IF k = 0 THEN Blocks(h) ELSE Further(h, r[k - 1])
  <2>. TAKE k \in 0 .. n
  <2>1. k # 0 => r[k - 1] \in V /\ r[k] = step[r[k - 1]]
    BY <1>6, <1>7
  <2>. HIDE DEF V
  <2>. QED
    BY <1>4, <1>6, <2>1
<1>9. [k \in 0 .. n |-> r[k]] = [k \in 0 .. n |-> IF k = 0 THEN Blocks(h) ELSE Further(h, r[k - 1])]
  BY <1>8
<1>10. PICK f : Def(f) /\ WalkEnds(h) = f
  BY <1>6, <1>9 DEF WalkEnds, n
<1>11. \A k \in 0 .. n : f[k] = IF k = 0 THEN Blocks(h) ELSE Further(h, f[k - 1])
  BY <1>10
<1>12. f[0] = Blocks(h) /\ f = [k \in 0 .. n |-> f[k]]
  BY <1>1, <1>10, <1>11
<1>13. \A k \in 1 .. n : k \in 0 .. n /\ k # 0
  BY <1>1
<1>14. \A k \in 1 .. n : f[k] = Further(h, f[k - 1])
  BY <1>11, <1>13
<1>15. IsIteration(V, Blocks(h), n, step, f)
  <2>1. Iterates(V, Blocks(h), n, step, f)
    <3>. HIDE DEF V
    <3>. QED
      BY <1>4, <1>12, <1>14 DEF Iterates
  <2>. QED
    BY <1>1, <1>4, <2>1, IterateTypes
<1>16. f \in [0 .. n -> V] /\ f[0] = Blocks(h)
  BY <1>15 DEF IsIteration
<1>17. \A k \in 1 .. n : \A b : b \in f[k] <=> \E p \in f[k - 1] : b \in Succs(h, p)
  BY <1>2, <1>14
<1>18. WalkEnds(h) = f
  BY <1>10
<1>. QED
  BY <1>16, <1>17, <1>18 DEF n

\* A walk of one edge less ends there too.
LEMMA WalksShrink ==
  ASSUME NEW h, IsGraph(h), NEW k \in 1 .. h.n
  PROVE  WalkEnds(h)[k] \subseteq WalkEnds(h)[k - 1]
<1>. DEFINE n == h.n
            E == WalkEnds(h)
            S == {i \in 0 .. n : i = 0 \/ E[i] \subseteq E[i - 1]}
<1>1. n \in Nat
  BY DEF IsGraph
<1>2. /\ E \in [0 .. n -> SUBSET Blocks(h)] /\ E[0] = Blocks(h)
      /\ \A i \in 1 .. n : \A b : b \in E[i] <=> \E p \in E[i - 1] : b \in Succs(h, p)
  BY WalksUnfold
<1>. HIDE DEF E, n
<1>3. ASSUME NEW i \in 1 .. n, i - 1 \in S
      PROVE  i \in S
  <2>1. i \in 0 .. n /\ i - 1 \in 0 .. n
    BY <1>1
  <2>2. CASE i = 1
    <3>1. E[i] \subseteq Blocks(h) /\ E[i - 1] = Blocks(h)
      BY <1>2, <2>1, <2>2
    <3>. QED
      BY <2>1, <3>1
  <2>3. CASE i # 1
    <3>1. i - 1 \in 1 .. n /\ i - 1 # 0
      BY <1>1, <2>3
    <3>2. E[i - 1] \subseteq E[(i - 1) - 1]
      BY <1>3, <3>1
    <3>3. \A b \in E[i] : b \in E[i - 1]
      BY <1>2, <3>1, <3>2
    <3>. QED
      BY <2>1, <3>3
  <2>. QED
    BY <2>2, <2>3
<1>4. 0 \in S
  BY <1>1
<1>5. 0 .. n \subseteq S
  <2>. HIDE DEF S
  <2>. QED
    BY <1>1, <1>3, <1>4, UpTo
<1>6. k \in 0 .. n /\ k # 0
  BY <1>1 DEF n
<1>. QED
  BY <1>5, <1>6 DEF E

\* Where a walk to a block may end one to what it dominates may.
LEMMA WalksGoOn ==
  ASSUME NEW h, IsGraph(h), NEW k \in 1 .. h.n, NEW p \in Reachable(h), NEW a \in Dom(h, p),
         a \in WalkEnds(h)[k - 1]
  PROVE  p \in WalkEnds(h)[k - 1]
<1>. DEFINE E == WalkEnds(h)
            S == ReachAvoiding(h, a) \cup E[k - 1]
<1>1. \A b : b \in E[k] <=> \E q \in E[k - 1] : b \in Succs(h, q)
  BY WalksUnfold
<1>2. E[k] \subseteq E[k - 1]
  BY WalksShrink
<1>. HIDE DEF E
<1>3. {0} \ {-1} \subseteq S
  BY ReachTypes DEF E
<1>4. \A q \in S : \A b \in Succs(h, q) : b \in S
  BY <1>1, <1>2, AvoidingCloses DEF E
<1>5. Reachable(h) \subseteq S
  <2>. HIDE DEF S
  <2>. QED
    BY <1>3, <1>4, ReachedHave DEF Reachable
<1>. QED
  BY <1>5, DomMembers DEF E

\* Without loops no block dominates one of its predecessors.
LEMMA NoWayBack ==
  ASSUME NEW h, IsGraph(h), HasNoLoops(h), NEW p \in Reachable(h), NEW b \in Succs(h, p)
  PROVE  b \notin Dom(h, p)
<1>. SUFFICES ASSUME b \in Dom(h, p)
              PROVE  FALSE
  OBVIOUS
<1>. DEFINE n == h.n
            E == WalkEnds(h)
            S == {i \in 0 .. n : b \in E[i]}
<1>1. n \in Nat /\ b \in Blocks(h)
  BY DomMembers, SuccTypes DEF IsGraph
<1>2. E[0] = Blocks(h) /\ \A i \in 1 .. n : \A c : c \in E[i] <=> \E q \in E[i - 1] : c \in Succs(h, q)
  BY WalksUnfold
<1>3. ASSUME NEW i \in 1 .. n, i - 1 \in S
      PROVE  i \in S
  <2>1. p \in E[i - 1]
    BY <1>3, WalksGoOn
  <2>. QED
    BY <1>1, <1>2, <2>1
<1>4. 0 \in S
  BY <1>1, <1>2
<1>5. 0 .. n \subseteq S
  <2>. HIDE DEF S
  <2>. QED
    BY <1>1, <1>3, <1>4, UpTo
<1>. QED
  BY <1>1, <1>5 DEF HasNoLoops

\* What dominates all reachable predecessors dominates a block.
LEMMA DomFromPreds ==
  ASSUME NEW h, IsGraph(h), NEW b \in Reachable(h), b # 0, NEW a \in Blocks(h),
         \A p \in Reachable(h) : b \in Succs(h, p) => a \in Dom(h, p)
  PROVE  a \in Dom(h, b)
<1>. SUFFICES ASSUME b \in ReachAvoiding(h, a)
              PROVE  FALSE
  BY DomMembers
<1>1. PICK q \in ReachAvoiding(h, a) : b \in Succs(h, q)
  BY ReachedFrom
<1>2. -1 \notin ReachAvoiding(h, a)
  <2>1. ReachAvoiding(h, a) \subseteq Blocks(h)
    BY ReachTypes
  <2>. QED
    BY <2>1 DEF Blocks, IsGraph
<1>3. q \in Reachable(h)
  BY <1>2, AvoidingBoth DEF Reachable
<1>. QED
  BY <1>1, <1>3, DomMembers

\* The path up from a block goes on as that from the one above it.
LEMMA PathShifts ==
  ASSUME N \in Nat, NEW V, \A x \in V : Above(idom, x) \in V, NEW b \in V, NEW j \in 0 .. N - 1
  PROVE  Ancestors(idom, b)[j + 1] = Ancestors(idom, Above(idom, b))[j]
<1>. DEFINE up == Ancestors(idom, b)
            next == Ancestors(idom, Above(idom, b))
            n == N - 1
            S == {k \in 0 .. n : up[k + 1] = next[k]}
<1>1. n \in Nat
  OBVIOUS
<1>2. /\ up[0] = b /\ next[0] = Above(idom, b)
      /\ \A k \in 1 .. N : up[k] = Above(idom, up[k - 1]) /\ next[k] = Above(idom, next[k - 1])
  BY PathUnfolds
<1>3. \A k \in 0 .. n : k + 1 \in 1 .. N /\ (k + 1) - 1 = k
  BY <1>1
<1>4. \A k \in 1 .. n : k \in 1 .. N /\ k \in 0 .. n /\ (k - 1) + 1 = k
  BY <1>1
<1>. HIDE DEF up, next
<1>5. 0 \in S
  BY <1>1, <1>2, <1>3
<1>6. ASSUME NEW k \in 1 .. n, k - 1 \in S
      PROVE  k \in S
  <2>1. up[k] = next[k - 1]
    BY <1>4, <1>6
  <2>2. up[k + 1] = Above(idom, up[k]) /\ next[k] = Above(idom, next[k - 1])
    BY <1>2, <1>3, <1>4
  <2>. QED
    BY <1>4, <2>1, <2>2
<1>7. 0 .. n \subseteq S
  <2>. HIDE DEF S, n
  <2>. QED
    BY <1>1, <1>5, <1>6, UpTo
<1>. QED
  BY <1>7 DEF up, next

\* The path of a block holds its dominators, in k steps, and what is recorded
\* of it is its immediate dominator.
PathIsExact(b, k) ==
  /\ \A x \in Dom(g, b) : \E j \in 0 .. k - 1 : Ancestors(idom, b)[j] = x
  /\ \A j \in 0 .. N : Ancestors(idom, b)[j] \in Dom(g, b)
  /\ b # 0 => idom[b] \in Dom(g, b) \ {b} /\ Dom(g, b) \ {b} \subseteq Dom(g, idom[b])

LEMMA SettledPaths ==
  ASSUME IsGraph(g), N = g.n, HasNoLoops(g), Settled, NEW k \in 1 .. N, NEW b \in Reachable(g),
         b \notin WalkEnds(g)[k],
         \A c \in Reachable(g) : c \notin WalkEnds(g)[k - 1] => PathIsExact(c, k - 1)
  PROVE  PathIsExact(b, k)
<1>. DEFINE V == Blocks(g) \cup {None}
            up == Ancestors(idom, b)
            a == idom[b]
<1>1. /\ N \in Nat \ {0} /\ Blocks(g) = 0 .. N - 1 /\ Reachable(g) \subseteq Blocks(g)
      /\ 0 \in Reachable(g) /\ None \notin Blocks(g)
  BY ReachTypes DEF IsGraph, Blocks, Reachable, None
<1>2. \A x \in V : Above(idom, x) \in V
  BY <1>1 DEF Settled, Shared, Above
<1>3. b \in V /\ Above(idom, b) = a
  BY <1>1 DEF Above
<1>4. up[0] = b /\ \A j \in 1 .. N : up[j] = Above(idom, up[j - 1])
  BY <1>1, <1>2, <1>3, PathUnfolds
<1>5. CASE b = 0
  <2>. DEFINE S == {j \in 0 .. N : up[j] = 0}
  <2>1. 0 \in S /\ \A j \in 1 .. N : j - 1 \in S => j \in S
    BY <1>1, <1>4, <1>5 DEF Settled, Above, None
  <2>2. 0 .. N \subseteq S
    <3>. HIDE DEF S
    <3>. QED
      BY <1>1, <2>1, UpTo
  <2>3. \A x \in Dom(g, b) : x = 0
    BY <1>1, <1>5, DomUp, DomMembers, DomAntisymmetric
  <2>4. 0 \in Dom(g, b) /\ 0 \in 0 .. k - 1
    BY <1>1, DomMembers
  <2>. QED
    BY <1>4, <1>5, <2>2, <2>3, <2>4 DEF PathIsExact
<1>6. CASE b # 0
  <2>1. a \in Shared(b) /\ Shared(b) \subseteq OnPath(idom, a)
    BY <1>1, <1>6 DEF Settled
  <2>2. ASSUME NEW p \in Reachable(g), b \in Succs(g, p)
        PROVE  PathIsExact(p, k - 1) /\ p \notin WalkEnds(g)[k - 1]
    BY <1>1, <2>2, WalksUnfold
  <2>3. PICK p \in Reachable(g) : b \in Succs(g, p)
    BY <1>6, ReachedFrom DEF Reachable
  <2>4. ASSUME NEW q \in Reachable(g), NEW m, PathIsExact(q, m), m \in 0 .. N, NEW x
        PROVE  x \in OnPath(idom, q) <=> x \in Dom(g, q)
    <3>1. q \in V
      BY <1>1
    <3>2. Ancestors(idom, q) \in [0 .. N -> V]
      BY <1>1, <1>2, <3>1, PathUnfolds
    <3>3. Dom(g, q) \subseteq Blocks(g)
      BY DomMembers
    <3>4. \A j \in 0 .. m - 1 : j \in 0 .. N
      BY <1>1, <2>4
    <3>5. x \in OnPath(idom, q) <=> x # None /\ \E j \in 0 .. N : Ancestors(idom, q)[j] = x
      <4>1. DOMAIN Ancestors(idom, q) = 0 .. N
        BY <3>2
      <4>2. x \in OnPath(idom, q) <=> x \in Range(Ancestors(idom, q)) /\ x # None
        BY DEF OnPath
      <4>3. x \in Range(Ancestors(idom, q)) <=> \E j \in 0 .. N : Ancestors(idom, q)[j] = x
        BY <4>1 DEF Range
      <4>. QED
        BY <4>2, <4>3
    <3>. HIDE DEF V
    <3>. QED
      BY <1>1, <2>4, <3>3, <3>4, <3>5 DEF PathIsExact
  <2>5. k - 1 \in 0 .. N
    BY <1>1
  <2>6. \A q \in Reachable(g) : b \in Succs(g, q) => a \in Dom(g, q)
    BY <2>1, <2>2, <2>4, <2>5 DEF Shared
  <2>7. a \in Dom(g, b) /\ a \in Reachable(g) /\ a # b
    <3>1. a \in Blocks(g)
      BY <2>1 DEF Shared
    <3>2. a \in Dom(g, b)
      BY <1>6, <2>6, <3>1, DomFromPreds
    <3>. QED
      BY <2>3, <2>6, <3>2, DomUp, NoWayBack
  <2>8. a \notin WalkEnds(g)[k - 1]
    BY <1>1, <2>2, <2>3, <2>6, WalksGoOn
  <2>9. PathIsExact(a, k - 1)
    BY <2>7, <2>8
  <2>10. ASSUME NEW x \in Dom(g, b), x # b
         PROVE  x \in Dom(g, a)
    <3>1. \A q \in Reachable(g) : b \in Succs(g, q) => x \in Dom(g, q)
      BY <2>10, DomPreds
    <3>2. \A q \in Reachable(g) : b \in Succs(g, q) => x \in OnPath(idom, q)
      BY <2>2, <2>4, <2>5, <3>1
    <3>3. x \in Shared(b)
      BY <3>2, DomMembers DEF Shared
    <3>. QED
      BY <2>1, <2>4, <2>5, <2>7, <2>9, <3>3
  <2>11. \A j \in 0 .. N - 1 : up[j + 1] = Ancestors(idom, a)[j]
    BY <1>1, <1>2, <1>3, PathShifts
  <2>. HIDE DEF up, a
  <2>12. ASSUME NEW x \in Dom(g, b)
         PROVE  \E j \in 0 .. k - 1 : up[j] = x
    <3>1. CASE x = b
      BY <1>1, <1>4, <3>1
    <3>2. CASE x # b
      <4>1. PICK j \in 0 .. (k - 1) - 1 : Ancestors(idom, a)[j] = x
        BY <2>9, <2>10, <3>2 DEF PathIsExact
      <4>2. j \in 0 .. N - 1 /\ j + 1 \in 0 .. k - 1
        BY <1>1
      <4>. QED
        BY <2>11, <4>1, <4>2
    <3>. QED
      BY <3>1, <3>2
  <2>13. ASSUME NEW j \in 0 .. N
         PROVE  up[j] \in Dom(g, b)
    <3>1. CASE j = 0
      BY <1>4, <3>1, DomMembers
    <3>2. CASE j # 0
      <4>1. j - 1 \in 0 .. N - 1 /\ j - 1 \in 0 .. N /\ (j - 1) + 1 = j
        BY <1>1, <3>2
      <4>2. up[j] = Ancestors(idom, a)[j - 1]
        BY <2>11, <4>1
      <4>3. up[j] \in Dom(g, a)
        BY <2>9, <4>1, <4>2 DEF PathIsExact
      <4>. QED
        BY <2>7, <4>3, DomUp
    <3>. QED
      BY <3>1, <3>2
  <2>. QED
    BY <2>7, <2>10, <2>12, <2>13 DEF PathIsExact, up, a
<1>. QED
  BY <1>5, <1>6

LEMMA SettledIsTree ==
  ASSUME IsGraph(g), N = g.n, HasNoLoops(g), Settled
  PROVE  TreeIsExact
<1>. DEFINE S == {k \in 0 .. N : \A b \in Reachable(g) : b \notin WalkEnds(g)[k] => PathIsExact(b, k)}
<1>1. N \in Nat /\ Reachable(g) \subseteq Blocks(g) /\ Blocks(g) = 0 .. N - 1
  BY ReachTypes DEF IsGraph, Blocks, Reachable
<1>2. 0 \in S
  BY <1>1, WalksUnfold
<1>3. ASSUME NEW k \in 1 .. N, k - 1 \in S
      PROVE  k \in S
  <2>1. k \in 0 .. N
    BY <1>1
  <2>. QED
    BY <1>3, <2>1, SettledPaths
<1>4. 0 .. N \subseteq S
  <2>. HIDE DEF S
  <2>. QED
    BY <1>1, <1>2, <1>3, UpTo
<1>5. N \in S /\ WalkEnds(g)[N] = {}
  BY <1>1, <1>4 DEF HasNoLoops
<1>6. \A b \in Reachable(g) : PathIsExact(b, N)
  BY <1>5
<1>7. DOMAIN DominatorSets(g) = Reachable(g)
  BY DEF DominatorSets
<1>8. ASSUME NEW b \in 1 .. N - 1
      PROVE  IF b \in DOMAIN DominatorSets(g)
             THEN IsImmediateDominator(DominatorSets(g), idom[b], b) ELSE idom[b] = None
  <2>1. b \in Blocks(g) \ {0}
    BY <1>1
  <2>. QED
    BY <1>6, <1>7, <2>1 DEF Settled, PathIsExact, IsImmediateDominator, Dom
<1>. QED
  BY <1>8 DEF TreeIsExact, Settled

\* ir_opt_mem2reg_cfg.c:53-54, meet without "block index ordering": in a
\* function without loops, in any order of its blocks, what compute_doms
\* records is the dominator tree unless some block has not the one where the
\* paths from its predecessors meet.  So nothing but a meet that is misled by
\* marks of another sweep can make it wrong there.
THEOREM SettledIsExact == Spec => [](Settled => ImmediateDominators)
<1>1. DominatorsInvariant => (Settled => ImmediateDominators)
  <2>1. DominatorsInvariant /\ WithinLimits => IsGraph(g) /\ N = g.n
    BY AllHavePlaces DEF DominatorsInvariant
  <2>. QED
    BY <2>1, SettledIsTree DEF ImmediateDominators
<1>. QED
  BY <1>1, Invariance, PTL
=============================================================================

-------------------------- MODULE DominatorsProofs --------------------------
(***************************************************************************)
(* compute_doms finds the immediate dominators of every function whose     *)
(* edges lead to later blocks; what compute_df lists comes from the paths  *)
(* of its runners.                                                         *)
(***************************************************************************)
EXTENDS Mem2Reg, LeastElement, FiniteSetTheorems

(***************************************************************************)
(* Induction and recursion over an interval.                               *)
(***************************************************************************)

LEMMA UpTo ==
  ASSUME NEW n \in Nat, NEW S, 0 \in S, \A k \in 1 .. n : k - 1 \in S => k \in S
  PROVE  0 .. n \subseteq S
<1>. DEFINE Out == {k \in 0 .. n : k \notin S}
<1>1. SUFFICES ASSUME Out # {}
               PROVE  FALSE
  OBVIOUS
<1>2. Out \in SUBSET Nat
  OBVIOUS
<1>3. PICK k \in Out : \A j \in Out : k <= j
  BY <1>1, <1>2, LeastExists
<1>4. k \in 1 .. n /\ k - 1 \in 0 .. n /\ k - 1 < k
  BY <1>3
<1>5. k - 1 \in S
  BY <1>3, <1>4
<1>. QED
  BY <1>3, <1>4, <1>5

\* The same with all that comes before.
LEMMA UpToStrong ==
  ASSUME NEW n \in Nat, NEW S, \A k \in 0 .. n : (\A j \in 0 .. k - 1 : j \in S) => k \in S
  PROVE  0 .. n \subseteq S
<1>. DEFINE Out == {k \in 0 .. n : k \notin S}
<1>1. SUFFICES ASSUME Out # {}
               PROVE  FALSE
  OBVIOUS
<1>2. Out \in SUBSET Nat
  OBVIOUS
<1>3. PICK k \in Out : \A j \in Out : k <= j
  BY <1>1, <1>2, LeastExists
<1>4. ASSUME NEW j \in 0 .. k - 1
      PROVE  j \in S
  <2>1. j \in 0 .. n /\ ~ (k <= j)
    BY <1>3
  <2>. QED
    BY <1>3, <2>1
<1>. QED
  BY <1>3, <1>4

\* A sequence of values, each made from the one before, exists.
Turns(V, n, turn) == turn \in [1 .. n -> [V -> V]]
IsRun(V, v, n, turn, r) ==
  r \in [0 .. n -> V] /\ r[0] = v /\ \A k \in 1 .. n : r[k] = turn[k][r[k - 1]]

LEMMA RunExists ==
  ASSUME NEW V, NEW v \in V, NEW n \in Nat, NEW turn, Turns(V, n, turn)
  PROVE  \E r : IsRun(V, v, n, turn, r)
<1>. DEFINE S == {m \in 0 .. n : \E r : IsRun(V, v, m, turn, r)}
<1>1. 0 \in S
  <2>1. IsRun(V, v, 0, turn, [k \in 0 .. 0 |-> v])
    BY DEF IsRun
  <2>. QED
    BY <2>1
<1>2. ASSUME NEW m \in 1 .. n, m - 1 \in S
      PROVE  m \in S
  <2>1. PICK r : IsRun(V, v, m - 1, turn, r)
    BY <1>2
  <2>. DEFINE next == turn[m][r[m - 1]]
              q == [k \in 0 .. m |-> IF k = m THEN next ELSE r[k]]
  <2>2. m - 1 \in 0 .. m - 1 /\ r[m - 1] \in V
    BY <2>1 DEF IsRun
  <2>3. next \in V
    BY <2>2 DEF Turns
  <2>. HIDE DEF next
  <2>4. q \in [0 .. m -> V]
    BY <2>1, <2>3 DEF IsRun
  <2>5. q[0] = v
    BY <2>1 DEF IsRun
  <2>6. ASSUME NEW k \in 1 .. m
        PROVE  q[k] = turn[k][q[k - 1]]
    <3>1. k - 1 \in 0 .. m /\ k - 1 # m /\ k \in 0 .. m
      OBVIOUS
    <3>2. q[k - 1] = r[k - 1]
      BY <3>1
    <3>3. CASE k = m
      <4>1. q[k] = next
        BY <3>1, <3>3
      <4>. QED
        BY <3>2, <3>3, <4>1 DEF next
    <3>4. CASE k # m
      <4>1. k \in 1 .. m - 1 /\ q[k] = r[k]
        BY <3>1, <3>4
      <4>. QED
        BY <2>1, <3>2, <4>1 DEF IsRun
    <3>. QED
      BY <3>3, <3>4
  <2>7. IsRun(V, v, m, turn, q)
    BY <2>4, <2>5, <2>6 DEF IsRun
  <2>. QED
    BY <2>7
<1>3. n \in S
  <2>. HIDE DEF S
  <2>1. 0 .. n \subseteq S
    BY <1>1, <1>2, UpTo
  <2>. QED
    BY <2>1
<1>. QED
  BY <1>3

(***************************************************************************)
(* What is reached without a block.                                        *)
(***************************************************************************)
Forward(h) == \A p \in Blocks(h) : \A b \in Succs(h, p) : b > p

\* The blocks are listed in the order of their edges.  The generator lists the
\* merge block of a branch before the blocks of a branch inside it, so its
\* functions with nested branches are not among these.
ListedForward == \A p \in Blocks(g) : \A b \in Succs(g, p) : b > p

LEMMA SuccTypes ==
  ASSUME NEW h, IsGraph(h), NEW p \in Blocks(h)
  PROVE  /\ Succs(h, p) \subseteq Blocks(h)
         /\ \E k \in 0 .. 2 : h.succ[p] \in [1 .. k -> Blocks(h)]
BY DEF IsGraph, Succs, Range

LEMMA GrownMembers ==
  ASSUME NEW h, NEW a, NEW B, NEW b
  PROVE  b \in Grown(h, a, B) <=> b \in B \/ (b # a /\ \E p \in B : b \in Succs(h, p))
<1>1. b \in Further(h, B) <=> \E p \in B : b \in Succs(h, p)
  BY DEF Further
<1>. QED
  BY <1>1 DEF Grown

\* The blocks at most k edges away.
LEMMA ReachUnfolds ==
  ASSUME NEW h, IsGraph(h), NEW a
  PROVE  \E r \in [0 .. h.n -> SUBSET Blocks(h)] :
           /\ r[0] = {0} \ {a}
           /\ \A k \in 1 .. h.n : \A b :
                b \in r[k] <=> b \in r[k - 1] \/ (b # a /\ \E p \in r[k - 1] : b \in Succs(h, p))
           /\ ReachAvoiding(h, a) = r[h.n]
<1>. DEFINE V == SUBSET Blocks(h)
            n == h.n
            turn == [k \in 1 .. n |-> [B \in V |-> Grown(h, a, B)]]
            Def(r) == r = [k \in 0 .. n |-> IF k = 0 THEN {0} \ {a} ELSE Grown(h, a, r[k - 1])]
<1>1. n \in Nat /\ {0} \ {a} \in V
  BY DEF IsGraph, Blocks
<1>2. \A B \in V : Grown(h, a, B) \in V
  BY SuccTypes DEF Grown, Further
<1>3. Turns(V, n, turn)
  BY <1>2 DEF Turns
<1>4. \E r : Def(r)
  <2>1. PICK r : IsRun(V, {0} \ {a}, n, turn, r)
    <3>. HIDE DEF V, n, turn
    <3>. QED
      BY <1>1, <1>3, RunExists
  <2>. HIDE DEF V, n
  <2>2. \A k \in 0 .. n : r[k] = IF k = 0 THEN {0} \ {a} ELSE Grown(h, a, r[k - 1])
    <3>1. ASSUME NEW k \in 0 .. n, k # 0
          PROVE  r[k] = Grown(h, a, r[k - 1])
      <4>1. k \in 1 .. n /\ k - 1 \in 0 .. n
        BY <1>1, <3>1
      <4>2. r[k - 1] \in V /\ r[k] = turn[k][r[k - 1]]
        BY <2>1, <4>1 DEF IsRun
      <4>. QED
        BY <4>1, <4>2
    <3>. QED
      BY <2>1, <3>1 DEF IsRun
  <2>3. r = [k \in 0 .. n |-> r[k]]
    BY <2>1 DEF IsRun
  <2>. QED
    BY <2>2, <2>3
<1>5. PICK f : Def(f) /\ ReachAvoiding(h, a) = f[n]
  BY <1>4 DEF ReachAvoiding
<1>6. \A k \in 0 .. n : f[k] \in V
  <2>. DEFINE S == {k \in 0 .. n : f[k] \in V}
  <2>. HIDE DEF V
  <2>1. 0 \in S
    BY <1>1, <1>5
  <2>2. ASSUME NEW k \in 1 .. n, k - 1 \in S
        PROVE  k \in S
    <3>1. k \in 0 .. n /\ k # 0
      BY <1>1
    <3>2. f[k] = Grown(h, a, f[k - 1])
      BY <1>5, <3>1
    <3>. QED
      BY <1>2, <2>2, <3>1, <3>2
  <2>3. 0 .. n \subseteq S
    <3>. HIDE DEF S
    <3>. QED
      BY <1>1, <2>1, <2>2, UpTo
  <2>. QED
    BY <2>3
<1>7. f \in [0 .. n -> V]
  BY <1>5, <1>6
<1>8. f[0] = {0} \ {a} /\ \A k \in 1 .. n : f[k] = Grown(h, a, f[k - 1])
  <2>1. \A k \in 0 .. n : f[k] = IF k = 0 THEN {0} \ {a} ELSE Grown(h, a, f[k - 1])
    BY <1>5
  <2>2. 0 \in 0 .. n /\ \A k \in 1 .. n : k \in 0 .. n /\ k # 0
    BY <1>1
  <2>. QED
    BY <2>1, <2>2
<1>9. ASSUME NEW k \in 1 .. n, NEW b
      PROVE  b \in f[k] <=> b \in f[k - 1] \/ (b # a /\ \E p \in f[k - 1] : b \in Succs(h, p))
  <2>1. f[k] = Grown(h, a, f[k - 1])
    BY <1>8
  <2>. QED
    BY <2>1, GrownMembers
<1>. QED
  BY <1>5, <1>7, <1>8, <1>9

\* Which blocks are reached is known from those before each, if no edge leads
\* back: the path to a block has passed all blocks of lower number.
LEMMA ReachedThrough ==
  ASSUME NEW h, IsGraph(h), Forward(h), NEW a
  PROVE  /\ ReachAvoiding(h, a) \subseteq Blocks(h)
         /\ 0 \in ReachAvoiding(h, a) <=> a # 0
         /\ \A b \in Blocks(h) \ {0} :
              b \in ReachAvoiding(h, a)
                <=> b # a /\ \E p \in ReachAvoiding(h, a) : b \in Succs(h, p)
<1>. DEFINE n == h.n
            R == ReachAvoiding(h, a)
<1>1. n \in Nat \ {0} /\ Blocks(h) = 0 .. n - 1 /\ 0 \in 0 .. n
  BY DEF IsGraph, Blocks
<1>2. PICK r \in [0 .. n -> SUBSET Blocks(h)] :
             /\ r[0] = {0} \ {a}
             /\ \A k \in 1 .. n : \A b :
                  b \in r[k] <=> b \in r[k - 1] \/ (b # a /\ \E p \in r[k - 1] : b \in Succs(h, p))
             /\ R = r[n]
  BY ReachUnfolds
<1>. HIDE DEF n, R
<1>3. \A k \in 1 .. n : k - 1 \in 0 .. n /\ k \in 0 .. n
  BY <1>1
<1>4. \A k \in 0 .. n : \A j \in 0 .. k : r[j] \subseteq r[k]
  <2>. DEFINE S == {k \in 0 .. n : \A j \in 0 .. k : r[j] \subseteq r[k]}
  <2>1. 0 \in S
    BY <1>1
  <2>2. ASSUME NEW k \in 1 .. n, k - 1 \in S
        PROVE  k \in S
    <3>1. k \in 0 .. n /\ r[k - 1] \subseteq r[k]
      BY <1>2, <1>3
    <3>2. ASSUME NEW j \in 0 .. k, j # k
          PROVE  r[j] \subseteq r[k]
      <4>1. j \in 0 .. k - 1
        BY <1>1, <3>2
      <4>. QED
        BY <2>2, <3>1, <4>1
    <3>. QED
      BY <3>1, <3>2
  <2>3. 0 .. n \subseteq S
    <3>. HIDE DEF S
    <3>. QED
      BY <1>1, <2>1, <2>2, UpTo
  <2>. QED
    BY <2>3
<1>5. \A k \in 0 .. n : \A b \in r[k] :
        b # a /\ (b = 0 \/ \E j \in 0 .. n : \E p \in r[j] : b \in Succs(h, p))
  <2>. DEFINE Entered(b) == b # a /\ (b = 0 \/ \E j \in 0 .. n : \E p \in r[j] : b \in Succs(h, p))
              S == {k \in 0 .. n : \A b \in r[k] : Entered(b)}
  <2>1. 0 \in S
    BY <1>1, <1>2
  <2>2. ASSUME NEW k \in 1 .. n, k - 1 \in S
        PROVE  k \in S
    <3>1. k \in 0 .. n /\ k - 1 \in 0 .. n
      BY <1>3
    <3>2. ASSUME NEW b \in r[k], b \notin r[k - 1]
          PROVE  Entered(b)
      <4>1. b # a /\ \E p \in r[k - 1] : b \in Succs(h, p)
        BY <1>2, <3>2
      <4>. QED
        BY <3>1, <4>1
    <3>. HIDE DEF Entered
    <3>. QED
      BY <2>2, <3>1, <3>2
  <2>3. 0 .. n \subseteq S
    <3>. HIDE DEF S
    <3>. QED
      BY <1>1, <2>1, <2>2, UpTo
  <2>. QED
    BY <2>3
<1>6. ASSUME NEW b \in Blocks(h), NEW p \in Blocks(h), b \in Succs(h, p)
      PROVE  p < b /\ b \in 1 .. n /\ b - 1 \in 0 .. n /\ p \in 0 .. b - 1 /\ p + 1 \in 1 .. n
  <2>1. p < b /\ b \in 0 .. n - 1 /\ p \in 0 .. n - 1
    BY <1>1, <1>6 DEF Forward
  <2>. QED
    BY <1>1, <2>1
<1>7. \A b \in 0 .. n - 1 : \A k \in 0 .. n : b \in r[k] => b \in r[b]
  <2>. DEFINE S == {b \in 0 .. n - 1 : \A k \in 0 .. n : b \in r[k] => b \in r[b]}
  <2>1. ASSUME NEW b \in 0 .. n - 1, \A j \in 0 .. b - 1 : j \in S
        PROVE  b \in S
    <3>1. ASSUME NEW k \in 0 .. n, b \in r[k]
          PROVE  b \in r[b]
      <4>1. CASE b = 0
        BY <1>2, <1>5, <3>1, <4>1
      <4>2. CASE b # 0
        <5>0. PICK j \in 0 .. n : \E p \in r[j] : b \in Succs(h, p)
          BY <1>5, <3>1, <4>2
        <5>1. PICK p \in r[j] : b \in Succs(h, p)
          BY <5>0
        <5>2. p \in Blocks(h) /\ b \in Blocks(h) /\ b # a
          BY <1>1, <1>2, <1>5, <3>1
        <5>3. p \in 0 .. b - 1 /\ b \in 1 .. n /\ b - 1 \in 0 .. n
          BY <1>6, <5>1, <5>2
        <5>4. p \in r[p]
          BY <2>1, <5>1, <5>3
        <5>5. p \in r[b - 1]
          BY <1>4, <5>3, <5>4
        <5>. QED
          BY <1>2, <5>1, <5>2, <5>3, <5>5
      <4>. QED
        BY <4>1, <4>2
    <3>. QED
      BY <3>1
  <2>2. 0 .. n - 1 \subseteq S
    <3>. HIDE DEF S
    <3>1. n - 1 \in Nat
      BY <1>1
    <3>. QED
      BY <2>1, <3>1, UpToStrong
  <2>. QED
    BY <2>2
<1>8. n \in 0 .. n /\ R = r[n] /\ R \subseteq Blocks(h) /\ \A k \in 0 .. n : r[k] \subseteq R
  BY <1>1, <1>2, <1>4
<1>9. 0 \in R <=> a # 0
  <2>1. ASSUME a # 0
        PROVE  0 \in R
    BY <1>1, <1>2, <1>8, <2>1
  <2>2. ASSUME 0 \in R
        PROVE  a # 0
    BY <1>5, <1>8, <2>2
  <2>. QED
    BY <2>1, <2>2
<1>10. ASSUME NEW b \in Blocks(h) \ {0}
       PROVE  b \in R <=> b # a /\ \E p \in R : b \in Succs(h, p)
  <2>1. ASSUME b \in R
        PROVE  b # a /\ \E p \in R : b \in Succs(h, p)
    <3>1. b # a /\ \E j \in 0 .. n : \E p \in r[j] : b \in Succs(h, p)
      BY <1>5, <1>8, <1>10, <2>1
    <3>. QED
      BY <1>8, <3>1
  <2>2. ASSUME b # a, NEW p \in R, b \in Succs(h, p)
        PROVE  b \in R
    <3>1. p \in Blocks(h) /\ p \in 0 .. n - 1
      BY <1>1, <1>8
    <3>2. p \in r[p] /\ p + 1 \in 1 .. n
      BY <1>6, <1>7, <1>8, <2>2, <3>1
    <3>3. (p + 1) - 1 = p /\ p + 1 \in 0 .. n
      BY <3>1, <3>2
    <3>4. b \in r[p + 1]
      BY <1>2, <2>2, <3>2, <3>3
    <3>. QED
      BY <1>8, <3>3, <3>4
  <2>. QED
    BY <2>1, <2>2
<1>. QED
  BY <1>8, <1>9, <1>10 DEF R

(***************************************************************************)
(* Dominators of a graph without loops.                                    *)
(***************************************************************************)
Into(h, b) == {p \in Reachable(h) : b \in Succs(h, p)}

\* A block that avoids another is reached.
LEMMA AvoidingIsReached ==
  ASSUME NEW h, IsGraph(h), Forward(h), NEW a
  PROVE  ReachAvoiding(h, a) \subseteq Reachable(h)
<1>. DEFINE n == h.n
            S == {b \in 0 .. n - 1 : b \in ReachAvoiding(h, a) => b \in Reachable(h)}
<1>1. n - 1 \in Nat /\ Blocks(h) = 0 .. n - 1
  BY DEF IsGraph, Blocks
<1>2. ASSUME NEW b \in 0 .. n - 1, \A j \in 0 .. b - 1 : j \in S
      PROVE  b \in S
  <2>1. CASE b = 0
    BY <2>1, ReachedThrough DEF Reachable
  <2>2. ASSUME b # 0, b \in ReachAvoiding(h, a)
        PROVE  b \in Reachable(h)
    <3>1. b \in Blocks(h) \ {0}
      BY <1>1, <2>2
    <3>2. PICK p \in ReachAvoiding(h, a) : b \in Succs(h, p)
      BY <2>2, <3>1, ReachedThrough
    <3>3. p \in Blocks(h) /\ p < b
      BY <3>2, ReachedThrough DEF Forward
    <3>4. p \in 0 .. b - 1
      BY <1>1, <3>3
    <3>5. p \in Reachable(h)
      BY <1>2, <3>2, <3>4
    <3>6. b # -1
      BY <1>1
    <3>. QED
      BY <3>1, <3>2, <3>5, <3>6, ReachedThrough DEF Reachable
  <2>. QED
    BY <2>1, <2>2
<1>3. 0 .. n - 1 \subseteq S
  <2>. HIDE DEF S
  <2>. QED
    BY <1>1, <1>2, UpToStrong
<1>. QED
  BY <1>1, <1>3, ReachedThrough

\* What dominates a block dominates every reached block before it.
LEMMA DominatorsThrough ==
  ASSUME NEW h, IsGraph(h), Forward(h)
  PROVE  /\ Reachable(h) \subseteq Blocks(h) /\ 0 \in Reachable(h)
         /\ DOMAIN DominatorSets(h) = Reachable(h)
         /\ DominatorSets(h)[0] = {0}
         /\ \A b \in Reachable(h) \ {0} :
              /\ Into(h, b) # {} /\ \A p \in Into(h, b) : p < b
              /\ \A a : a \in DominatorSets(h)[b]
                          <=> a = b \/ \A p \in Into(h, b) : a \in DominatorSets(h)[p]
<1>. DEFINE D == DominatorSets(h)
            R == Reachable(h)
<1>1. /\ h.n \in Nat \ {0} /\ Blocks(h) = 0 .. h.n - 1 /\ 0 \in Blocks(h) /\ -1 \notin Blocks(h)
      /\ \A b \in Blocks(h) : b # -1
  BY DEF IsGraph, Blocks
<1>2. /\ R \subseteq Blocks(h) /\ 0 \in R
      /\ \A b \in Blocks(h) \ {0} : b \in R <=> \E p \in R : b \in Succs(h, p)
  BY <1>1, ReachedThrough DEF Reachable
<1>3. \A b \in R : D[b] = {a \in Blocks(h) : b \notin ReachAvoiding(h, a)}
  BY DEF DominatorSets
<1>4. DOMAIN D = R
  BY DEF DominatorSets
<1>5. D[0] = {0}
  <2>1. \A a \in Blocks(h) : 0 \notin ReachAvoiding(h, a) <=> a = 0
    BY ReachedThrough
  <2>. QED
    BY <1>1, <1>2, <1>3, <2>1
<1>6. ASSUME NEW b \in R \ {0}
      PROVE  /\ Into(h, b) # {} /\ \A p \in Into(h, b) : p < b
             /\ \A a : a \in D[b] <=> a = b \/ \A p \in Into(h, b) : a \in D[p]
  <2>1. b \in Blocks(h) \ {0} /\ Into(h, b) # {}
    BY <1>2 DEF Into
  <2>2. \A p \in Into(h, b) : p \in R /\ p \in Blocks(h) /\ b \in Succs(h, p) /\ p < b
    BY <1>2 DEF Into, Forward
  <2>3. ASSUME NEW a \in Blocks(h)
        PROVE  a \in D[b] <=> a = b \/ \A p \in Into(h, b) : a \in D[p]
    <3>1. b \in ReachAvoiding(h, a) <=> b # a /\ \E p \in ReachAvoiding(h, a) : b \in Succs(h, p)
      BY <2>1, ReachedThrough
    <3>2. \A p : p \in ReachAvoiding(h, a) /\ b \in Succs(h, p)
                   <=> p \in Into(h, b) /\ p \in ReachAvoiding(h, a)
      BY <2>2, AvoidingIsReached DEF Into
    <3>3. \A p \in Into(h, b) : a \in D[p] <=> p \notin ReachAvoiding(h, a)
      <4>. HIDE DEF D
      <4>. QED
        BY <1>3, <2>2, <2>3
    <3>4. a \in D[b] <=> b \notin ReachAvoiding(h, a)
      <4>. HIDE DEF D
      <4>. QED
        BY <1>3, <2>3
    <3>. HIDE DEF D
    <3>. QED
      BY <3>1, <3>2, <3>3, <3>4
  <2>4. ASSUME NEW a, a \notin Blocks(h)
        PROVE  a \notin D[b] /\ a # b /\ \E p \in Into(h, b) : a \notin D[p]
    <3>. HIDE DEF D
    <3>. QED
      BY <1>3, <2>1, <2>2, <2>4
  <2>. QED
    BY <2>1, <2>2, <2>3, <2>4
<1>. QED
  BY <1>2, <1>4, <1>5, <1>6

Dom(h, b) == DominatorSets(h)[b]

\* Dominators are reached, they are listed above what they dominate, and they
\* form a chain.
LEMMA DominatorsBelow ==
  ASSUME NEW h, IsGraph(h), Forward(h), NEW b \in Reachable(h)
  PROVE  b \in Dom(h, b) /\ Dom(h, b) \subseteq Reachable(h) /\ \A a \in Dom(h, b) : a <= b
<1>. DEFINE n == h.n
            R == Reachable(h)
            S == {x \in 0 .. n - 1 : x \in R => Dom(h, x) \subseteq R /\ \A a \in Dom(h, x) : a <= x}
<1>1. n - 1 \in Nat /\ R \subseteq 0 .. n - 1
  BY DominatorsThrough DEF IsGraph, Blocks
<1>2. ASSUME NEW x \in 0 .. n - 1, \A j \in 0 .. x - 1 : j \in S
      PROVE  x \in S
  <2>. SUFFICES ASSUME x \in R, NEW a \in Dom(h, x)
                PROVE  a \in R /\ a <= x
    OBVIOUS
  <2>1. CASE x = 0
    BY <1>1, <2>1, DominatorsThrough DEF Dom
  <2>2. CASE x # 0 /\ a = x
    BY <1>1, <2>2
  <2>3. CASE x # 0 /\ a # x
    <3>1. PICK p \in Into(h, x) : p < x /\ a \in Dom(h, p)
      BY <2>3, DominatorsThrough DEF Dom
    <3>2. p \in R /\ p \in 0 .. x - 1
      BY <1>1, <3>1 DEF Into
    <3>3. a \in R /\ a <= p
      BY <1>2, <3>1, <3>2
    <3>. QED
      BY <1>1, <3>1, <3>2, <3>3
  <2>. QED
    BY <2>1, <2>2, <2>3
<1>3. 0 .. n - 1 \subseteq S
  <2>. HIDE DEF S
  <2>. QED
    BY <1>1, <1>2, UpToStrong
<1>4. b \in S
  <2>. HIDE DEF S
  <2>. QED
    BY <1>1, <1>3
<1>5. b \in Dom(h, b)
  BY DominatorsThrough DEF Dom
<1>. QED
  BY <1>4, <1>5

LEMMA DominanceIsTransitive ==
  ASSUME NEW h, IsGraph(h), Forward(h), NEW b \in Reachable(h), NEW a \in Dom(h, b)
  PROVE  Dom(h, a) \subseteq Dom(h, b)
<1>. DEFINE n == h.n
            R == Reachable(h)
            S == {x \in 0 .. n - 1 : x \in R => \A y \in Dom(h, x) : Dom(h, y) \subseteq Dom(h, x)}
<1>1. n - 1 \in Nat /\ R \subseteq 0 .. n - 1
  BY DominatorsThrough DEF IsGraph, Blocks
<1>2. ASSUME NEW x \in 0 .. n - 1, \A j \in 0 .. x - 1 : j \in S
      PROVE  x \in S
  <2>. SUFFICES ASSUME x \in R, NEW y \in Dom(h, x), NEW z \in Dom(h, y)
                PROVE  z \in Dom(h, x)
    OBVIOUS
  <2>1. CASE x = 0
    BY <2>1, DominatorsThrough DEF Dom
  <2>2. CASE y = x
    BY <2>2
  <2>3. CASE x # 0 /\ y # x
    <3>1. ASSUME NEW p \in Into(h, x)
          PROVE  z \in Dom(h, p)
      <4>1. p \in R /\ p < x /\ y \in Dom(h, p)
        BY <2>3, DominatorsThrough DEF Dom, Into
      <4>2. p \in 0 .. x - 1
        BY <1>1, <4>1
      <4>. QED
        BY <1>2, <4>1, <4>2
    <3>. QED
      BY <2>3, <3>1, DominatorsThrough DEF Dom
  <2>. QED
    BY <2>1, <2>2, <2>3
<1>3. 0 .. n - 1 \subseteq S
  <2>. HIDE DEF S
  <2>. QED
    BY <1>1, <1>2, UpToStrong
<1>4. b \in S
  <2>. HIDE DEF S
  <2>. QED
    BY <1>1, <1>3
<1>. QED
  BY <1>4

(***************************************************************************)
(* The invariant.  lists are the lists of predecessors, tree what is       *)
(* recorded of each block, marks the array of meet.                        *)
(***************************************************************************)
ListsAreEdges(h, lists) ==
  \A b \in Blocks(h) : \A p : (\E i \in DOMAIN lists[b] : lists[b][i] = p)
                                <=> p \in Blocks(h) /\ b \in Succs(h, p)

ShortLists(h, lists) ==
  lists \in [Blocks(h) -> Seq(Blocks(h))] /\ \A b \in Blocks(h) : Len(lists[b]) <= MAX_PRE

\* Nothing is recorded of a block, or its immediate dominator.
TreeIsRight(h, tree) ==
  /\ tree \in [Blocks(h) -> Blocks(h) \cup {None}]
  /\ tree[0] = 0
  /\ \A b \in Blocks(h) \ {0} : tree[b] # None =>
       /\ b \in Reachable(h) /\ tree[b] \in Reachable(h) /\ tree[b] < b
       /\ tree[tree[b]] # None
       /\ \A x : x \in Dom(h, b) <=> x = b \/ x \in Dom(h, tree[b])

\* The meets of a sweep: block b with its i-th predecessor, if that is reached.
IsMeet(h, lists, b, i) ==
  b \in 1 .. h.n - 1 /\ i \in DOMAIN lists[b] /\ lists[b][i] \in Reachable(h)

\* The meets that a sweep makes before it comes to that one, and its stamp.
MeetsBefore(h, lists, b, i) ==
  {m \in (1 .. h.n - 1) \X (1 .. MAX_PRE) :
     IsMeet(h, lists, m[1], m[2]) /\ (m[1] < b \/ (m[1] = b /\ m[2] < i))}
StampOf(h, lists, b, i) == 1 + Cardinality(MeetsBefore(h, lists, b, i))

\* The dominators of the block that is met there with the i-th predecessor.
IsFirst(h, lists, b, i) ==
  IsMeet(h, lists, b, i) /\ \A j \in 1 .. i - 1 : ~ IsMeet(h, lists, b, j)
Common(h, lists, b, i, x) ==
  \A j \in DOMAIN lists[b] :
    IsMeet(h, lists, b, j) /\ (j < i \/ IsFirst(h, lists, b, j)) => x \in Dom(h, lists[b][j])

\* A mark is the stamp of a meet whose first path the block is on, in this
\* sweep or in an earlier one.
MarksAreOfPaths(h, lists, marks) ==
  /\ marks \in [Blocks(h) -> Nat]
  /\ \A x \in Blocks(h) : marks[x] # 0 =>
       \E b, i : /\ IsMeet(h, lists, b, i)
                 /\ marks[x] = StampOf(h, lists, b, i)
                 /\ Common(h, lists, b, i, x)

AnalysisIsRight ==
  /\ ListsAreEdges(g, preds) /\ ShortLists(g, preds)
  /\ TreeIsRight(g, idom)
  /\ pc = "sweep" => /\ blk \in 1 .. N
                     /\ stamp = StampOf(g, preds, blk, 1)
                     /\ MarksAreOfPaths(g, preds, mark)
                     /\ \A b \in Reachable(g) : b < blk => idom[b] # None
  /\ pc # "sweep" => \A b \in Reachable(g) : idom[b] # None

DominatorsInvariant ==
  IsGraph(g) /\ (pc # "collect" /\ ListedForward /\ WithinLimits => AnalysisIsRight)

(***************************************************************************)
(* Paths up the tree.                                                      *)
(***************************************************************************)
LEMMA AncestorsUnfold ==
  ASSUME IsGraph(g), N = g.n, NEW tree \in [Blocks(g) -> Blocks(g) \cup {None}],
         NEW b \in Blocks(g)
  PROVE  /\ Ancestors(tree, b) \in [0 .. N -> Blocks(g) \cup {None}]
         /\ Ancestors(tree, b)[0] = b
         /\ \A k \in 1 .. N : Ancestors(tree, b)[k] = Above(tree, Ancestors(tree, b)[k - 1])
<1>. DEFINE V == Blocks(g) \cup {None}
            n == N
            turn == [k \in 1 .. n |-> [x \in V |-> Above(tree, x)]]
            Def(r) == r = [k \in 0 .. n |-> IF k = 0 THEN b ELSE Above(tree, r[k - 1])]
<1>1. n \in Nat /\ b \in V
  BY DEF IsGraph, Blocks
<1>2. \A x \in V : Above(tree, x) \in V
  BY DEF Above
<1>3. Turns(V, n, turn)
  BY <1>2 DEF Turns
<1>4. \E r : Def(r)
  <2>1. PICK r : IsRun(V, b, n, turn, r)
    <3>. HIDE DEF V, n, turn
    <3>. QED
      BY <1>1, <1>3, RunExists
  <2>. HIDE DEF V, n
  <2>2. \A k \in 0 .. n : r[k] = IF k = 0 THEN b ELSE Above(tree, r[k - 1])
    <3>1. ASSUME NEW k \in 0 .. n, k # 0
          PROVE  r[k] = Above(tree, r[k - 1])
      <4>1. k \in 1 .. n /\ k - 1 \in 0 .. n
        BY <1>1, <3>1
      <4>2. r[k - 1] \in V /\ r[k] = turn[k][r[k - 1]]
        BY <2>1, <4>1 DEF IsRun
      <4>. QED
        BY <4>1, <4>2 DEF Above
    <3>. QED
      BY <2>1, <3>1 DEF IsRun
  <2>3. r = [k \in 0 .. n |-> r[k]]
    BY <2>1 DEF IsRun
  <2>4. [k \in 0 .. n |-> r[k]]
          = [k \in 0 .. n |-> IF k = 0 THEN b ELSE Above(tree, r[k - 1])]
    BY <2>2
  <2>5. Def(r)
    BY <2>3, <2>4
  <2>. QED
    BY <2>5
<1>5. PICK f : Def(f) /\ Ancestors(tree, b) = f
  BY <1>4 DEF Ancestors
<1>6. \A k \in 1 .. n : k \in 0 .. n /\ k # 0 /\ k - 1 \in 0 .. n
  BY <1>1
<1>7. \A k \in 0 .. n : f[k] = IF k = 0 THEN b ELSE Above(tree, f[k - 1])
  BY <1>5
<1>8. f[0] = b /\ \A k \in 1 .. n : f[k] = Above(tree, f[k - 1])
  BY <1>1, <1>6, <1>7 DEF Above
<1>9. \A k \in 0 .. n : f[k] \in V
  <2>. DEFINE S == {k \in 0 .. n : f[k] \in V}
  <2>. HIDE DEF V, n
  <2>1. 0 \in S
    BY <1>1, <1>8
  <2>2. ASSUME NEW k \in 1 .. n, k - 1 \in S
        PROVE  k \in S
    BY <1>2, <1>6, <1>8, <2>2
  <2>3. 0 .. n \subseteq S
    <3>. HIDE DEF S
    <3>. QED
      BY <1>1, <2>1, <2>2, UpTo
  <2>. QED
    BY <2>3
<1>10. f \in [0 .. n -> V]
  BY <1>5, <1>9
<1>. QED
  BY <1>5, <1>8, <1>10

\* The path up from a block that has a dominator consists of its dominators,
\* the nearest first, and ends at the entry.
LEMMA PathsAreDominators ==
  ASSUME IsGraph(g), Forward(g), N = g.n, NEW tree, TreeIsRight(g, tree),
         NEW b \in Blocks(g), tree[b] # None
  PROVE  /\ b \in Reachable(g)
         /\ \A k \in 0 .. N : /\ Ancestors(tree, b)[k] \in Dom(g, b)
                              /\ tree[Ancestors(tree, b)[k]] # None
                              /\ \A j \in 0 .. k : Ancestors(tree, b)[k] \in Dom(g, Ancestors(tree, b)[j])
         /\ \A x \in Dom(g, b) : \E k \in 0 .. N : Ancestors(tree, b)[k] = x
         /\ Ancestors(tree, b)[N] = 0
<1>. DEFINE up == Ancestors(tree, b)
            R == Reachable(g)
<1>1. /\ N \in Nat \ {0} /\ Blocks(g) = 0 .. N - 1 /\ None \notin Blocks(g)
      /\ N \in 0 .. N /\ 0 \in 0 .. N
  BY DEF IsGraph, Blocks, None
<1>2. tree \in [Blocks(g) -> Blocks(g) \cup {None}] /\ tree[0] = 0
  BY DEF TreeIsRight
<1>3. /\ up \in [0 .. N -> Blocks(g) \cup {None}] /\ up[0] = b
      /\ \A k \in 1 .. N : up[k] = Above(tree, up[k - 1])
  BY <1>2, AncestorsUnfold
<1>. HIDE DEF up
<1>4. 0 \in R /\ R \subseteq Blocks(g) /\ Dom(g, 0) = {0}
  BY DominatorsThrough DEF Dom
<1>5. \A x \in Blocks(g) : tree[x] # None => x \in R
  BY <1>4 DEF TreeIsRight
<1>6. ASSUME NEW x \in R, tree[x] # None
      PROVE  /\ tree[x] \in R /\ tree[x] \in Dom(g, x) /\ tree[tree[x]] # None
             /\ x = 0 \/ tree[x] < x
             /\ \A y \in Dom(g, x) : y = x \/ y \in Dom(g, tree[x])
  <2>1. CASE x = 0
    BY <1>1, <1>2, <1>4, <2>1
  <2>2. CASE x # 0
    <3>1. /\ tree[x] \in R /\ tree[x] < x /\ tree[tree[x]] # None
          /\ \A y : y \in Dom(g, x) <=> y = x \/ y \in Dom(g, tree[x])
      BY <1>4, <1>6, <2>2 DEF TreeIsRight
    <3>2. tree[x] \in Dom(g, tree[x])
      BY <3>1, DominatorsBelow
    <3>. QED
      BY <3>1, <3>2
  <2>. QED
    BY <2>1, <2>2
<1>7. \A k \in 1 .. N : k \in 0 .. N /\ k - 1 \in 0 .. N
  BY <1>1
<1>8. \A k \in 0 .. N : up[k] \in R /\ tree[up[k]] # None
  <2>. DEFINE S == {k \in 0 .. N : up[k] \in R /\ tree[up[k]] # None}
  <2>1. 0 \in S
    BY <1>1, <1>3, <1>5
  <2>2. ASSUME NEW k \in 1 .. N, k - 1 \in S
        PROVE  k \in S
    <3>1. up[k] = tree[up[k - 1]]
      BY <1>1, <1>3, <1>4, <2>2 DEF Above
    <3>. QED
      BY <1>6, <1>7, <2>2, <3>1
  <2>3. 0 .. N \subseteq S
    <3>. HIDE DEF S
    <3>. QED
      BY <1>1, <2>1, <2>2, UpTo
  <2>. QED
    BY <2>3
<1>9. \A k \in 1 .. N : up[k] = tree[up[k - 1]]
  <2>. TAKE k \in 1 .. N
  <2>1. up[k - 1] # None
    BY <1>1, <1>4, <1>7, <1>8
  <2>. QED
    BY <1>3, <2>1 DEF Above
<1>10. \A k \in 0 .. N : \A j \in 0 .. k : up[k] \in Dom(g, up[j])
  <2>. DEFINE S == {k \in 0 .. N : \A j \in 0 .. k : up[k] \in Dom(g, up[j])}
  <2>1. 0 \in S
    BY <1>1, <1>8, DominatorsBelow
  <2>2. ASSUME NEW k \in 1 .. N, k - 1 \in S
        PROVE  k \in S
    <3>1. ASSUME NEW j \in 0 .. k
          PROVE  up[k] \in Dom(g, up[j])
      <4>1. CASE j = k
        BY <1>7, <1>8, <4>1, DominatorsBelow
      <4>2. CASE j # k
        <5>1. j \in 0 .. k - 1 /\ j \in 0 .. N
          BY <1>1, <4>2
        <5>2. up[k] \in Dom(g, up[k - 1])
          BY <1>6, <1>7, <1>8, <1>9
        <5>3. up[k - 1] \in Dom(g, up[j])
          BY <2>2, <5>1
        <5>4. Dom(g, up[k - 1]) \subseteq Dom(g, up[j])
          BY <1>8, <5>1, <5>3, DominanceIsTransitive
        <5>. QED
          BY <5>2, <5>4
      <4>. QED
        BY <4>1, <4>2
    <3>. QED
      BY <1>7, <3>1
  <2>3. 0 .. N \subseteq S
    <3>. HIDE DEF S
    <3>. QED
      BY <1>1, <2>1, <2>2, UpTo
  <2>. QED
    BY <2>3
<1>11. up[N] = 0
  <2>. DEFINE S == {k \in 0 .. N : up[k] = 0 \/ up[k] + k < N}
  <2>1. 0 \in S
    BY <1>1, <1>3
  <2>2. ASSUME NEW k \in 1 .. N, k - 1 \in S
        PROVE  k \in S
    <3>1. up[k - 1] \in 0 .. N - 1 /\ up[k] \in 0 .. N - 1
      BY <1>1, <1>4, <1>7, <1>8
    <3>2. CASE up[k - 1] = 0
      BY <1>2, <1>7, <1>9, <3>2
    <3>3. CASE up[k - 1] # 0
      <4>1. up[k] < up[k - 1]
        BY <1>6, <1>7, <1>8, <1>9, <3>3
      <4>. QED
        BY <1>1, <1>7, <2>2, <3>1, <3>3, <4>1
    <3>. QED
      BY <3>2, <3>3
  <2>3. 0 .. N \subseteq S
    <3>. HIDE DEF S
    <3>. QED
      BY <1>1, <2>1, <2>2, UpTo
  <2>4. up[N] = 0 \/ up[N] + N < N
    BY <1>1, <2>3
  <2>5. up[N] \in 0 .. N - 1
    BY <1>1, <1>4, <1>8
  <2>. QED
    BY <1>1, <2>4, <2>5
<1>12. ASSUME NEW x \in Dom(g, b)
       PROVE  \E k \in 0 .. N : up[k] = x
  <2>. SUFFICES ASSUME \A k \in 0 .. N : up[k] # x
                PROVE  FALSE
    OBVIOUS
  <2>. DEFINE S == {k \in 0 .. N : x \in Dom(g, up[k])}
  <2>1. 0 \in S
    BY <1>1, <1>3
  <2>2. ASSUME NEW k \in 1 .. N, k - 1 \in S
        PROVE  k \in S
    BY <1>6, <1>7, <1>8, <1>9, <2>2
  <2>3. 0 .. N \subseteq S
    <3>. HIDE DEF S
    <3>. QED
      BY <1>1, <2>1, <2>2, UpTo
  <2>4. x \in Dom(g, up[N])
    BY <1>1, <2>3
  <2>. QED
    BY <1>1, <1>4, <1>11, <2>4
<1>13. \A k \in 0 .. N : up[k] \in Dom(g, b)
  BY <1>1, <1>3, <1>10
<1>. QED
  BY <1>5, <1>8, <1>10, <1>11, <1>12, <1>13 DEF up

LEMMA OnPathMembers ==
  ASSUME NEW tree, NEW b, NEW x
  PROVE  x \in OnPath(tree, b)
           <=> x # None /\ \E k \in DOMAIN Ancestors(tree, b) : Ancestors(tree, b)[k] = x
BY DEF OnPath, Range

\* meet finds the common dominators of two blocks, if the stamp is only on
\* dominators of the first.
LEMMA MeetsInDominators ==
  ASSUME IsGraph(g), Forward(g), N = g.n, NEW tree, TreeIsRight(g, tree),
         NEW marks \in [Blocks(g) -> Nat], NEW st \in Nat,
         NEW a \in Blocks(g), tree[a] # None, NEW b \in Blocks(g), tree[b] # None,
         \A x \in Blocks(g) : marks[x] = st => x \in Dom(g, a),
         NEW r, r = meet(tree, marks, a, b, st)
  PROVE  /\ r.marks \in [Blocks(g) -> Nat]
         /\ \A x \in Blocks(g) : r.marks[x] = IF x \in Dom(g, a) THEN st ELSE marks[x]
         /\ r.node \in Reachable(g) /\ tree[r.node] # None
         /\ \A x : x \in Dom(g, r.node) <=> x \in Dom(g, a) /\ x \in Dom(g, b)
<1>. DEFINE path == OnPath(tree, a)
            m    == [x \in Blocks(g) |-> IF x \in path THEN st ELSE marks[x]]
            upA  == Ancestors(tree, a)
            up   == Ancestors(tree, b)
            hits == {k \in 0 .. N : up[k] # None /\ m[up[k]] = st}
<1>1. /\ N \in Nat /\ None \notin Blocks(g) /\ 0 \in Blocks(g) /\ N \in 0 .. N
      /\ Reachable(g) \subseteq Blocks(g)
  BY DominatorsThrough DEF IsGraph, Blocks, None
<1>2. tree \in [Blocks(g) -> Blocks(g) \cup {None}]
  BY DEF TreeIsRight
<1>3. DOMAIN upA = 0 .. N /\ DOMAIN up = 0 .. N
  BY <1>2, AncestorsUnfold
<1>4. /\ a \in Reachable(g) /\ b \in Reachable(g)
      /\ \A k \in 0 .. N : upA[k] \in Dom(g, a)
      /\ \A x \in Dom(g, a) : \E k \in 0 .. N : upA[k] = x
      /\ \A k \in 0 .. N : up[k] \in Dom(g, b) /\ tree[up[k]] # None
      /\ \A k \in 0 .. N : \A j \in 0 .. k : up[k] \in Dom(g, up[j])
      /\ \A x \in Dom(g, b) : \E k \in 0 .. N : up[k] = x
      /\ upA[N] = 0 /\ up[N] = 0
  BY PathsAreDominators
<1>5. Dom(g, a) \subseteq Reachable(g) /\ Dom(g, b) \subseteq Reachable(g)
  BY <1>4, DominatorsBelow
<1>6. \A x : x \in path <=> x \in Dom(g, a)
  <2>1. \A x : x \in path <=> x # None /\ \E k \in DOMAIN upA : upA[k] = x
    BY OnPathMembers
  <2>. HIDE DEF path, upA, up
  <2>2. \A k \in 0 .. N : upA[k] # None
    BY <1>1, <1>4, <1>5
  <2>3. \A x : x \in path <=> \E k \in 0 .. N : upA[k] = x
    BY <1>3, <2>1, <2>2
  <2>. QED
    BY <1>4, <2>3
<1>7. r.marks = m /\ r.node = IF hits = {} THEN 0 ELSE up[Min(hits)]
  <2>1. DOMAIN marks = Blocks(g)
    OBVIOUS
  <2>. QED
    BY <2>1 DEF meet
<1>. HIDE DEF path
<1>8. m \in [Blocks(g) -> Nat] /\ \A x \in Blocks(g) : m[x] = IF x \in Dom(g, a) THEN st ELSE marks[x]
  BY <1>6
<1>9. \A x \in Blocks(g) : m[x] = st <=> x \in Dom(g, a)
  BY <1>8
<1>. HIDE DEF upA, up, m
<1>10. \A k \in 0 .. N : k \in hits <=> up[k] \in Dom(g, a)
  BY <1>1, <1>4, <1>5, <1>9
<1>11. N \in hits
  BY <1>1, <1>4, <1>10
<1>12. hits \in SUBSET Nat /\ hits \subseteq 0 .. N
  BY <1>1
<1>. HIDE DEF hits
<1>13. Min(hits) \in hits /\ \A j \in hits : Min(hits) <= j
  <2>1. \E i \in hits : \A j \in hits : i <= j
    BY <1>11, <1>12, LeastExists
  <2>. QED
    BY <2>1 DEF Min
<1>14. PICK k \in hits : k = Min(hits) /\ r.node = up[k]
  BY <1>7, <1>11, <1>13
<1>15. k \in 0 .. N /\ up[k] \in Dom(g, a) /\ up[k] \in Dom(g, b)
  BY <1>4, <1>10, <1>12
<1>16. ASSUME NEW x, x \in Dom(g, a), x \in Dom(g, b)
       PROVE  x \in Dom(g, up[k])
  <2>1. PICK j \in 0 .. N : up[j] = x
    BY <1>4, <1>16
  <2>2. j \in hits /\ k <= j
    BY <1>10, <1>13, <1>14, <1>16, <2>1
  <2>3. k \in 0 .. j
    BY <1>1, <1>15, <2>1, <2>2
  <2>. QED
    BY <1>4, <2>1, <2>3
<1>17. Dom(g, up[k]) \subseteq Dom(g, a) /\ Dom(g, up[k]) \subseteq Dom(g, b)
  BY <1>4, <1>15, DominanceIsTransitive
<1>. QED
  BY <1>4, <1>5, <1>7, <1>8, <1>14, <1>15, <1>16, <1>17

(***************************************************************************)
(* Stamps: one for each meet of a sweep.                                   *)
(***************************************************************************)
LEMMA MeetsAreFew ==
  ASSUME NEW h, IsGraph(h), NEW lists, NEW b, NEW i
  PROVE  /\ IsFiniteSet(MeetsBefore(h, lists, b, i))
         /\ Cardinality(MeetsBefore(h, lists, b, i)) \in Nat
         /\ StampOf(h, lists, b, i) \in Nat \ {0}
<1>1. h.n - 1 \in Nat /\ MAX_PRE \in Nat
  BY LimitsAssumption DEF IsGraph
<1>2. IsFiniteSet(1 .. h.n - 1) /\ IsFiniteSet(1 .. MAX_PRE)
  BY <1>1, FS_Interval
<1>3. IsFiniteSet((1 .. h.n - 1) \X (1 .. MAX_PRE))
  BY <1>2, FS_Product
<1>4. MeetsBefore(h, lists, b, i) \subseteq (1 .. h.n - 1) \X (1 .. MAX_PRE)
  BY DEF MeetsBefore
<1>5. IsFiniteSet(MeetsBefore(h, lists, b, i))
  BY <1>3, <1>4, FS_Subset
<1>6. Cardinality(MeetsBefore(h, lists, b, i)) \in Nat
  BY <1>5, FS_CardinalityType
<1>. QED
  BY <1>5, <1>6 DEF StampOf

LEMMA MeetTypes ==
  ASSUME NEW h, IsGraph(h), NEW lists, ShortLists(h, lists), NEW b, NEW i, IsMeet(h, lists, b, i)
  PROVE  /\ b \in 1 .. h.n - 1 /\ b \in Blocks(h) /\ i \in 1 .. MAX_PRE /\ i \in 1 .. Len(lists[b])
         /\ lists[b][i] \in Blocks(h)
<1>1. b \in 1 .. h.n - 1 /\ i \in DOMAIN lists[b] /\ h.n \in Nat
  BY DEF IsMeet, IsGraph
<1>2. b \in Blocks(h)
  BY <1>1 DEF Blocks
<1>3. lists[b] \in Seq(Blocks(h)) /\ Len(lists[b]) <= MAX_PRE
  BY <1>2 DEF ShortLists
<1>. QED
  BY <1>1, <1>2, <1>3, LimitsAssumption

LEMMA MeetsBeforeMembers ==
  ASSUME NEW h, IsGraph(h), NEW lists, ShortLists(h, lists), NEW b, NEW i
  PROVE  /\ \A m \in MeetsBefore(h, lists, b, i) : m = <<m[1], m[2]>>
         /\ \A c, j : <<c, j>> \in MeetsBefore(h, lists, b, i)
                        <=> IsMeet(h, lists, c, j) /\ (c < b \/ (c = b /\ j < i))
<1>1. \A m \in MeetsBefore(h, lists, b, i) : m = <<m[1], m[2]>>
  BY DEF MeetsBefore
<1>2. ASSUME NEW c, NEW j
      PROVE  <<c, j>> \in MeetsBefore(h, lists, b, i)
               <=> IsMeet(h, lists, c, j) /\ (c < b \/ (c = b /\ j < i))
  <2>1. IsMeet(h, lists, c, j) => c \in 1 .. h.n - 1 /\ j \in 1 .. MAX_PRE
    BY MeetTypes
  <2>2. <<c, j>> \in (1 .. h.n - 1) \X (1 .. MAX_PRE) <=> c \in 1 .. h.n - 1 /\ j \in 1 .. MAX_PRE
    OBVIOUS
  <2>. QED
    BY <2>1, <2>2 DEF MeetsBefore
<1>. QED
  BY <1>1, <1>2

LEMMA MeetsAdvance ==
  ASSUME NEW h, IsGraph(h), NEW lists, ShortLists(h, lists),
         NEW b \in 1 .. h.n - 1, NEW i \in Nat
  PROVE  /\ IsMeet(h, lists, b, i) => StampOf(h, lists, b, i + 1) = StampOf(h, lists, b, i) + 1
         /\ ~ IsMeet(h, lists, b, i) => StampOf(h, lists, b, i + 1) = StampOf(h, lists, b, i)
<1>. DEFINE A == MeetsBefore(h, lists, b, i)
            B == MeetsBefore(h, lists, b, i + 1)
<1>1. /\ \A m \in A : m = <<m[1], m[2]>>
      /\ \A c, j : <<c, j>> \in A <=> IsMeet(h, lists, c, j) /\ (c < b \/ (c = b /\ j < i))
  BY MeetsBeforeMembers
<1>2. /\ \A m \in B : m = <<m[1], m[2]>>
      /\ \A c, j : <<c, j>> \in B <=> IsMeet(h, lists, c, j) /\ (c < b \/ (c = b /\ j < i + 1))
  BY MeetsBeforeMembers
<1>3. IsFiniteSet(A) /\ Cardinality(A) \in Nat
  BY MeetsAreFew
<1>. HIDE DEF A, B
<1>4. \A c, j : IsMeet(h, lists, c, j) => c \in Nat /\ j \in Nat
  BY MeetTypes, LimitsAssumption DEF IsGraph
<1>5. ASSUME NEW c, NEW j
      PROVE  <<c, j>> \in B <=> <<c, j>> \in A \/ (c = b /\ j = i /\ IsMeet(h, lists, b, i))
  <2>1. CASE IsMeet(h, lists, c, j)
    <3>1. c \in Nat /\ j \in Nat
      BY <1>4, <2>1
    <3>2. j < i + 1 <=> j < i \/ j = i
      BY <3>1
    <3>. QED
      BY <1>1, <1>2, <2>1, <3>2
  <2>2. CASE ~ IsMeet(h, lists, c, j)
    BY <1>1, <1>2, <2>2
  <2>. QED
    BY <2>1, <2>2
<1>6. ASSUME IsMeet(h, lists, b, i)
      PROVE  Cardinality(B) = Cardinality(A) + 1
  <2>1. <<b, i>> \notin A
    BY <1>1
  <2>2. B = A \cup {<<b, i>>}
    BY <1>1, <1>2, <1>5, <1>6
  <2>. QED
    BY <1>3, <2>1, <2>2, FS_AddElement
<1>7. ASSUME ~ IsMeet(h, lists, b, i)
      PROVE  B = A
  BY <1>1, <1>2, <1>5, <1>7
<1>. QED
  BY <1>3, <1>6, <1>7 DEF StampOf, A, B

LEMMA FirstStamp ==
  ASSUME NEW h, IsGraph(h), NEW lists, ShortLists(h, lists)
  PROVE  StampOf(h, lists, 1, 1) = 1
<1>. DEFINE M == MeetsBefore(h, lists, 1, 1)
<1>1. /\ \A m \in M : m = <<m[1], m[2]>>
      /\ \A c, j : <<c, j>> \in M <=> IsMeet(h, lists, c, j) /\ (c < 1 \/ (c = 1 /\ j < 1))
  BY MeetsBeforeMembers
<1>2. \A c, j : IsMeet(h, lists, c, j) => ~ (c < 1 \/ (c = 1 /\ j < 1))
  <2>1. \A c, j : IsMeet(h, lists, c, j) => c \in 1 .. h.n - 1 /\ j \in 1 .. MAX_PRE
    BY MeetTypes
  <2>. QED
    BY <2>1, LimitsAssumption DEF IsGraph
<1>. HIDE DEF M
<1>3. M = {}
  BY <1>1, <1>2
<1>4. Cardinality(M) = 0
  BY <1>3, FS_EmptySet
<1>. QED
  BY <1>4 DEF StampOf, M

LEMMA MeetsPassOn ==
  ASSUME NEW h, IsGraph(h), NEW lists, ShortLists(h, lists),
         NEW b \in 1 .. h.n - 1
  PROVE  StampOf(h, lists, b + 1, 1) = StampOf(h, lists, b, Len(lists[b]) + 1)
<1>. DEFINE l == Len(lists[b]) + 1
            A == MeetsBefore(h, lists, b, l)
            B == MeetsBefore(h, lists, b + 1, 1)
<1>1. /\ \A m \in A : m = <<m[1], m[2]>>
      /\ \A c, j : <<c, j>> \in A <=> IsMeet(h, lists, c, j) /\ (c < b \/ (c = b /\ j < l))
  BY MeetsBeforeMembers
<1>2. /\ \A m \in B : m = <<m[1], m[2]>>
      /\ \A c, j : <<c, j>> \in B <=> IsMeet(h, lists, c, j) /\ (c < b + 1 \/ (c = b + 1 /\ j < 1))
  BY MeetsBeforeMembers
<1>3. \A c, j : IsMeet(h, lists, c, j) =>
        c \in 1 .. h.n - 1 /\ j \in 1 .. Len(lists[c]) /\ j \in 1 .. MAX_PRE
  BY MeetTypes
<1>4. h.n \in Nat /\ MAX_PRE \in Nat
  BY LimitsAssumption DEF IsGraph
<1>5. Len(lists[b]) \in Nat
  <2>1. b \in Blocks(h)
    BY <1>4 DEF Blocks
  <2>. QED
    BY <2>1 DEF ShortLists
<1>. HIDE DEF A, B
<1>6. \A c, j : IsMeet(h, lists, c, j) =>
        ((c < b \/ (c = b /\ j < l)) <=> (c < b + 1 \/ (c = b + 1 /\ j < 1)))
  BY <1>3, <1>4, <1>5
<1>7. A = B
  <2>1. \A c, j : <<c, j>> \in A <=> <<c, j>> \in B
    BY <1>1, <1>2, <1>6
  <2>2. ASSUME NEW m \in A
        PROVE  m \in B
    <3>1. m = <<m[1], m[2]>>
      BY <1>1
    <3>2. <<m[1], m[2]>> \in B
      BY <2>1, <3>1
    <3>. QED
      BY <3>1, <3>2
  <2>3. ASSUME NEW m \in B
        PROVE  m \in A
    <3>1. m = <<m[1], m[2]>>
      BY <1>2
    <3>2. <<m[1], m[2]>> \in A
      BY <2>1, <3>1
    <3>. QED
      BY <3>1, <3>2
  <2>. QED
    BY <2>2, <2>3
<1>. QED
  BY <1>7 DEF StampOf, A, B

\* Two meets of a sweep have two stamps.
LEMMA StampsDiffer ==
  ASSUME NEW h, IsGraph(h), NEW lists, ShortLists(h, lists),
         NEW b, NEW i, IsMeet(h, lists, b, i), NEW c, NEW j, IsMeet(h, lists, c, j),
         StampOf(h, lists, b, i) = StampOf(h, lists, c, j)
  PROVE  b = c /\ i = j
<1>1. ASSUME NEW x, NEW k, IsMeet(h, lists, x, k), NEW y, NEW l, IsMeet(h, lists, y, l),
             x < y \/ (x = y /\ k < l)
      PROVE  StampOf(h, lists, x, k) < StampOf(h, lists, y, l)
  <2>. DEFINE A == MeetsBefore(h, lists, x, k)
              B == MeetsBefore(h, lists, y, l)
  <2>1. /\ \A m \in A : m = <<m[1], m[2]>>
        /\ \A p, q : <<p, q>> \in A <=> IsMeet(h, lists, p, q) /\ (p < x \/ (p = x /\ q < k))
    BY MeetsBeforeMembers
  <2>2. /\ \A m \in B : m = <<m[1], m[2]>>
        /\ \A p, q : <<p, q>> \in B <=> IsMeet(h, lists, p, q) /\ (p < y \/ (p = y /\ q < l))
    BY MeetsBeforeMembers
  <2>3. \A p, q : IsMeet(h, lists, p, q) => p \in Nat /\ q \in Nat
    BY MeetTypes, LimitsAssumption DEF IsGraph
  <2>4. IsFiniteSet(A) /\ Cardinality(A) \in Nat /\ IsFiniteSet(B) /\ Cardinality(B) \in Nat
    BY MeetsAreFew
  <2>. HIDE DEF A, B
  <2>5. <<x, k>> \notin A /\ <<x, k>> \in B
    BY <1>1, <2>1, <2>2, <2>3
  <2>6. \A p, q : <<p, q>> \in A => <<p, q>> \in B
    BY <1>1, <2>1, <2>2, <2>3
  <2>7. A \cup {<<x, k>>} \subseteq B
    BY <2>1, <2>5, <2>6
  <2>8. Cardinality(A \cup {<<x, k>>}) = Cardinality(A) + 1
    BY <2>4, <2>5, FS_AddElement
  <2>9. Cardinality(A \cup {<<x, k>>}) <= Cardinality(B)
    BY <2>4, <2>7, FS_Subset
  <2>. QED
    BY <2>4, <2>8, <2>9 DEF StampOf, A, B
<1>2. b \in Nat /\ i \in Nat /\ c \in Nat /\ j \in Nat
  BY MeetTypes, LimitsAssumption DEF IsGraph
<1>3. StampOf(h, lists, b, i) \in Nat /\ StampOf(h, lists, c, j) \in Nat
  BY MeetsAreFew
<1>4. ~ (b < c \/ (b = c /\ i < j))
  BY <1>1, <1>3
<1>5. ~ (c < b \/ (c = b /\ j < i))
  BY <1>1, <1>3
<1>. QED
  BY <1>2, <1>4, <1>5

(***************************************************************************)
(* The intersection over the predecessors of a block.                      *)
(***************************************************************************)
Totals == [node : Blocks(g), marks : [Blocks(g) -> Nat], stamp : Nat]

\* The total after the i-th predecessor of block b.
Met(b, i, x) ==
  IF idom[preds[b][i]] = None THEN x
  ELSE LET r == meet(idom, x.marks, x.node, preds[b][i], x.stamp)
       IN  [node |-> r.node, marks |-> r.marks, stamp |-> x.stamp + 1]

LEMMA MeetReturns ==
  ASSUME IsGraph(g), N = g.n, NEW tree \in [Blocks(g) -> Blocks(g) \cup {None}],
         NEW marks \in [Blocks(g) -> Nat], NEW st \in Nat,
         NEW a \in Blocks(g), NEW b \in Blocks(g)
  PROVE  /\ meet(tree, marks, a, b, st).node \in Blocks(g)
         /\ meet(tree, marks, a, b, st).marks \in [Blocks(g) -> Nat]
<1>. DEFINE path == OnPath(tree, a)
            m    == [x \in Blocks(g) |-> IF x \in path THEN st ELSE marks[x]]
            up   == Ancestors(tree, b)
            hits == {k \in 0 .. N : up[k] # None /\ m[up[k]] = st}
            r    == meet(tree, marks, a, b, st)
<1>1. 0 \in Blocks(g) /\ N \in Nat
  BY DEF IsGraph, Blocks
<1>2. up \in [0 .. N -> Blocks(g) \cup {None}]
  BY AncestorsUnfold
<1>3. r.marks = m /\ r.node = IF hits = {} THEN 0 ELSE up[Min(hits)]
  <2>1. DOMAIN marks = Blocks(g)
    OBVIOUS
  <2>. QED
    BY <2>1 DEF meet
<1>4. m \in [Blocks(g) -> Nat]
  OBVIOUS
<1>5. ASSUME hits # {}
      PROVE  up[Min(hits)] \in Blocks(g)
  <2>1. hits \in SUBSET Nat
    BY <1>1
  <2>2. \E i \in hits : \A j \in hits : i <= j
    BY <1>5, <2>1, LeastExists
  <2>3. Min(hits) \in hits
    BY <2>2 DEF Min
  <2>. QED
    BY <1>2, <2>3
<1>. QED
  BY <1>1, <1>3, <1>4, <1>5

LEMMA IntersectUnfolds ==
  ASSUME IsGraph(g), N = g.n, idom \in [Blocks(g) -> Blocks(g) \cup {None}],
         mark \in [Blocks(g) -> Nat], stamp \in Nat,
         preds \in [Blocks(g) -> Seq(Blocks(g))],
         NEW b \in Blocks(g), NEW some \in DOMAIN preds[b], idom[preds[b][some]] # None
  PROVE  \E r \in [0 .. Len(preds[b]) -> Totals] :
         \E first \in DOMAIN preds[b] :
           /\ idom[preds[b][first]] # None
           /\ \A i \in 1 .. first - 1 : idom[preds[b][i]] = None
           /\ r[0] = [node |-> preds[b][first], marks |-> mark, stamp |-> stamp]
           /\ \A i \in 1 .. Len(preds[b]) : r[i] = Met(b, i, r[i - 1])
           /\ Intersect(b) = r[Len(preds[b])]
<1>. DEFINE n == Len(preds[b])
            known == {i \in DOMAIN preds[b] : idom[preds[b][i]] # None}
            first == Min(known)
            v == [node |-> preds[b][first], marks |-> mark, stamp |-> stamp]
            turn == [i \in 1 .. n |-> [x \in Totals |-> Met(b, i, x)]]
            Def(r) == r = [i \in 0 .. n |->
                             IF i = 0 THEN v
                             ELSE IF idom[preds[b][i]] = None THEN r[i - 1]
                             ELSE LET q == meet(idom, r[i - 1].marks, r[i - 1].node, preds[b][i], r[i - 1].stamp)
                                  IN  [node |-> q.node, marks |-> q.marks, stamp |-> r[i - 1].stamp + 1]]
<1>1. n \in Nat /\ DOMAIN preds[b] = 1 .. n /\ \A i \in 1 .. n : preds[b][i] \in Blocks(g)
  OBVIOUS
<1>2. first \in DOMAIN preds[b] /\ idom[preds[b][first]] # None /\ \A i \in known : first <= i
  <2>. HIDE DEF n
  <2>1. known \in SUBSET Nat /\ known # {}
    BY <1>1
  <2>2. \E i \in known : \A j \in known : i <= j
    BY <2>1, LeastExists
  <2>3. Min(known) \in known /\ \A j \in known : Min(known) <= j
    BY <2>2 DEF Min
  <2>. QED
    BY <2>3
<1>3. \A i \in 1 .. first - 1 : idom[preds[b][i]] = None
  <2>. HIDE DEF first, n
  <2>. SUFFICES ASSUME NEW i \in 1 .. first - 1, idom[preds[b][i]] # None
                PROVE  FALSE
    OBVIOUS
  <2>1. first \in 1 .. n
    BY <1>1, <1>2
  <2>2. i \in 1 .. n /\ i < first
    BY <1>1, <2>1
  <2>3. i \in known
    BY <1>1, <2>2
  <2>. QED
    BY <1>2, <2>1, <2>2, <2>3
<1>. HIDE DEF n, first, known
<1>4. v \in Totals
  BY <1>1, <1>2 DEF Totals
<1>5. ASSUME NEW i \in 1 .. n, NEW x \in Totals
      PROVE  Met(b, i, x) \in Totals
  <2>1. CASE idom[preds[b][i]] = None
    BY <2>1 DEF Met
  <2>2. CASE idom[preds[b][i]] # None
    <3>. DEFINE q == meet(idom, x.marks, x.node, preds[b][i], x.stamp)
    <3>1. x.node \in Blocks(g) /\ x.marks \in [Blocks(g) -> Nat] /\ x.stamp \in Nat
      BY DEF Totals
    <3>2. q.node \in Blocks(g) /\ q.marks \in [Blocks(g) -> Nat]
      BY <1>1, <3>1, MeetReturns
    <3>. HIDE DEF q
    <3>3. Met(b, i, x) = [node |-> q.node, marks |-> q.marks, stamp |-> x.stamp + 1]
      BY <2>2 DEF Met, q
    <3>4. x.stamp + 1 \in Nat
      <4>1. \A s \in Nat : s + 1 \in Nat
        OBVIOUS
      <4>. QED
        BY <3>1, <4>1, Zenon
    <3>5. [node |-> q.node, marks |-> q.marks, stamp |-> x.stamp + 1] \in Totals
      BY <3>2, <3>4 DEF Totals
    <3>. QED
      BY <3>3, <3>5
  <2>. QED
    BY <2>1, <2>2
<1>. HIDE DEF v
<1>6. Turns(Totals, n, turn)
  BY <1>5 DEF Turns
<1>7. PICK f : IsRun(Totals, v, n, turn, f)
  <2>. HIDE DEF turn
  <2>. QED
    BY <1>1, <1>4, <1>6, RunExists
<1>8. \A i \in 1 .. n : f[i - 1] \in Totals /\ f[i] = Met(b, i, f[i - 1])
  <2>. TAKE i \in 1 .. n
  <2>1. i - 1 \in 0 .. n
    BY <1>1
  <2>2. f[i - 1] \in Totals /\ f[i] = turn[i][f[i - 1]]
    BY <1>7, <2>1 DEF IsRun
  <2>. QED
    BY <2>2
<1>9. Def(f)
  <2>1. \A i \in 0 .. n : f[i] = IF i = 0 THEN v
                             ELSE IF idom[preds[b][i]] = None THEN f[i - 1]
                             ELSE LET q == meet(idom, f[i - 1].marks, f[i - 1].node, preds[b][i], f[i - 1].stamp)
                                  IN  [node |-> q.node, marks |-> q.marks, stamp |-> f[i - 1].stamp + 1]
    <3>. TAKE i \in 0 .. n
    <3>1. CASE i = 0
      BY <1>7, <3>1 DEF IsRun
    <3>2. CASE i # 0
      <4>1. i \in 1 .. n
        BY <1>1, <3>2
      <4>2. f[i] = Met(b, i, f[i - 1])
        BY <1>8, <4>1
      <4>. QED
        BY <3>2, <4>2 DEF Met
    <3>. QED
      BY <3>1, <3>2
  <2>2. f = [i \in 0 .. n |-> f[i]]
    BY <1>7 DEF IsRun
  <2>3. [i \in 0 .. n |-> f[i]] =
          [i \in 0 .. n |->
             IF i = 0 THEN v
             ELSE IF idom[preds[b][i]] = None THEN f[i - 1]
             ELSE LET q == meet(idom, f[i - 1].marks, f[i - 1].node, preds[b][i], f[i - 1].stamp)
                  IN  [node |-> q.node, marks |-> q.marks, stamp |-> f[i - 1].stamp + 1]]
    BY <2>1
  <2>. QED
    BY <2>2, <2>3
<1>10. \E r : Def(r)
  BY <1>9
<1>11. PICK r : Def(r) /\ Intersect(b) = r[n]
  BY <1>10 DEF Intersect, n, first, known, v
<1>12. r[0] = v /\ \A i \in 1 .. n : r[i] = Met(b, i, r[i - 1])
  <2>1. \A i \in 0 .. n : r[i] = IF i = 0 THEN v
                             ELSE IF idom[preds[b][i]] = None THEN r[i - 1]
                             ELSE LET q == meet(idom, r[i - 1].marks, r[i - 1].node, preds[b][i], r[i - 1].stamp)
                                  IN  [node |-> q.node, marks |-> q.marks, stamp |-> r[i - 1].stamp + 1]
    BY <1>11
  <2>2. 0 \in 0 .. n /\ \A i \in 1 .. n : i \in 0 .. n /\ i # 0
    BY <1>1
  <2>. QED
    BY <2>1, <2>2 DEF Met
<1>13. \A i \in 0 .. n : r[i] \in Totals
  <2>. DEFINE S == {i \in 0 .. n : r[i] \in Totals}
  <2>1. 0 \in S
    BY <1>1, <1>4, <1>12
  <2>2. ASSUME NEW i \in 1 .. n, i - 1 \in S
        PROVE  i \in S
    BY <1>1, <1>5, <1>12, <2>2
  <2>3. 0 .. n \subseteq S
    <3>. HIDE DEF S
    <3>. QED
      BY <1>1, <2>1, <2>2, UpTo
  <2>. QED
    BY <2>3
<1>14. r \in [0 .. n -> Totals]
  BY <1>11, <1>13
<1>. QED
  BY <1>2, <1>3, <1>11, <1>12, <1>14 DEF n, v

\* Before its i-th predecessor is looked at, the total stands for the common
\* dominators of the reached ones before it.
TotalIsRight(b, i, x) ==
  /\ MarksAreOfPaths(g, preds, x.marks)
  /\ x.stamp = StampOf(g, preds, b, i)
  /\ x.node \in Reachable(g) /\ idom[x.node] # None
  /\ \A y : y \in Dom(g, x.node) <=> Common(g, preds, b, i, y)

LEMMA MetIsRight ==
  ASSUME IsGraph(g), Forward(g), N = g.n, ShortLists(g, preds), TreeIsRight(g, idom),
         NEW b \in 1 .. N - 1, NEW i \in DOMAIN preds[b],
         IsMeet(g, preds, b, i) <=> idom[preds[b][i]] # None,
         NEW x, TotalIsRight(b, i, x)
  PROVE  TotalIsRight(b, i + 1, Met(b, i, x))
<1>1. b \in 1 .. g.n - 1 /\ b \in Blocks(g) /\ DOMAIN preds[b] = 1 .. Len(preds[b]) /\ i \in Nat \ {0}
  <2>1. b \in Blocks(g)
    BY DEF IsGraph, Blocks
  <2>. QED
    BY <2>1 DEF ShortLists
<1>2. /\ MarksAreOfPaths(g, preds, x.marks) /\ x.stamp = StampOf(g, preds, b, i)
      /\ x.node \in Reachable(g) /\ idom[x.node] # None
      /\ \A y : y \in Dom(g, x.node) <=> Common(g, preds, b, i, y)
  BY DEF TotalIsRight
<1>3. /\ IsMeet(g, preds, b, i) => StampOf(g, preds, b, i + 1) = StampOf(g, preds, b, i) + 1
      /\ ~ IsMeet(g, preds, b, i) => StampOf(g, preds, b, i + 1) = StampOf(g, preds, b, i)
  BY <1>1, MeetsAdvance
<1>4. \A j \in DOMAIN preds[b] : j < i + 1 <=> j < i \/ j = i
  BY <1>1
<1>5. CASE ~ IsMeet(g, preds, b, i)
  <2>1. Met(b, i, x) = x
    BY <1>5 DEF Met
  <2>2. \A y : Common(g, preds, b, i, y) <=> Common(g, preds, b, i + 1, y)
    BY <1>4, <1>5 DEF Common
  <2>. QED
    BY <1>2, <1>3, <1>5, <2>1, <2>2 DEF TotalIsRight
<1>6. CASE IsMeet(g, preds, b, i)
  <2>. DEFINE p == preds[b][i]
              r == meet(idom, x.marks, x.node, p, x.stamp)
              st == StampOf(g, preds, b, i)
              q == [node |-> r.node, marks |-> r.marks, stamp |-> x.stamp + 1]
  <2>1. Met(b, i, x) = q
    BY <1>6 DEF Met
  <2>2. p \in Blocks(g) /\ idom[p] # None
    BY <1>6, MeetTypes
  <2>3. x.node \in Blocks(g) /\ x.marks \in [Blocks(g) -> Nat]
    BY <1>2, DominatorsThrough DEF MarksAreOfPaths
  <2>4. st \in Nat \ {0}
    BY MeetsAreFew
  <2>5. ASSUME NEW y \in Blocks(g), x.marks[y] = st
        PROVE  y \in Dom(g, x.node)
    <3>1. x.marks[y] # 0
      BY <2>4, <2>5
    <3>2. PICK c, j : /\ IsMeet(g, preds, c, j)
                      /\ x.marks[y] = StampOf(g, preds, c, j)
                      /\ Common(g, preds, c, j, y)
      BY <1>2, <3>1 DEF MarksAreOfPaths
    <3>3. c = b /\ j = i
      <4>1. StampOf(g, preds, c, j) = StampOf(g, preds, b, i)
        BY <2>5, <3>2
      <4>2. IsMeet(g, preds, c, j)
        BY <3>2
      <4>. QED
        BY <1>6, <4>1, <4>2, StampsDiffer
    <3>. QED
      BY <1>2, <3>2, <3>3
  <2>6. /\ r.marks \in [Blocks(g) -> Nat]
        /\ \A y \in Blocks(g) : r.marks[y] = IF y \in Dom(g, x.node) THEN st ELSE x.marks[y]
        /\ r.node \in Reachable(g) /\ idom[r.node] # None
        /\ \A y : y \in Dom(g, r.node) <=> y \in Dom(g, x.node) /\ y \in Dom(g, p)
    <3>. DEFINE w == x.marks
                a == x.node
    <3>1. r = meet(idom, w, a, p, st)
      BY <1>2
    <3>2. /\ w \in [Blocks(g) -> Nat] /\ a \in Blocks(g) /\ idom[a] # None
          /\ \A y \in Blocks(g) : w[y] = st => y \in Dom(g, a)
      BY <1>2, <2>3, <2>5
    <3>. HIDE DEF r, w, a, p, st
    <3>3. /\ r.marks \in [Blocks(g) -> Nat]
          /\ \A y \in Blocks(g) : r.marks[y] = IF y \in Dom(g, a) THEN st ELSE w[y]
          /\ r.node \in Reachable(g) /\ idom[r.node] # None
          /\ \A y : y \in Dom(g, r.node) <=> y \in Dom(g, a) /\ y \in Dom(g, p)
      BY <2>2, <2>4, <3>1, <3>2, MeetsInDominators
    <3>. QED
      BY <3>3 DEF w, a
  <2>. HIDE DEF r, p
  <2>7. MarksAreOfPaths(g, preds, r.marks)
    <3>. SUFFICES ASSUME NEW y \in Blocks(g), r.marks[y] # 0
                  PROVE  \E c, j : /\ IsMeet(g, preds, c, j)
                                   /\ r.marks[y] = StampOf(g, preds, c, j)
                                   /\ Common(g, preds, c, j, y)
      BY <2>6 DEF MarksAreOfPaths
    <3>1. CASE y \in Dom(g, x.node)
      <4>1. r.marks[y] = st /\ Common(g, preds, b, i, y)
        BY <1>2, <2>6, <3>1
      <4>. QED
        BY <1>6, <4>1
    <3>2. CASE y \notin Dom(g, x.node)
      <4>1. r.marks[y] = x.marks[y]
        BY <2>6, <3>2
      <4>. QED
        BY <1>2, <4>1 DEF MarksAreOfPaths
    <3>. QED
      BY <3>1, <3>2
  <2>8. ASSUME NEW y
        PROVE  Common(g, preds, b, i + 1, y) <=> Common(g, preds, b, i, y) /\ y \in Dom(g, p)
    <3>1. ASSUME Common(g, preds, b, i, y), y \in Dom(g, p)
          PROVE  Common(g, preds, b, i + 1, y)
      BY <1>4, <3>1 DEF Common, p
    <3>2. ASSUME Common(g, preds, b, i + 1, y)
          PROVE  Common(g, preds, b, i, y) /\ y \in Dom(g, p)
      BY <1>4, <1>6, <3>2 DEF Common, p
    <3>. QED
      BY <3>1, <3>2
  <2>9. \A y : y \in Dom(g, r.node) <=> Common(g, preds, b, i + 1, y)
    BY <1>2, <2>6, <2>8
  <2>10. q.marks = r.marks /\ q.node = r.node /\ q.stamp = st + 1
    BY <1>2
  <2>. HIDE DEF q, st
  <2>11. q.stamp = StampOf(g, preds, b, i + 1)
    BY <1>3, <1>6, <2>10 DEF st
  <2>12. TotalIsRight(b, i + 1, q)
    BY <2>6, <2>7, <2>9, <2>10, <2>11 DEF TotalIsRight
  <2>. QED
    BY <2>1, <2>12
<1>. QED
  BY <1>5, <1>6

\* A visit finds the immediate dominator of a block all of whose predecessors
\* have been visited.
LEMMA VisitFindsDominator ==
  ASSUME IsGraph(g), Forward(g), N = g.n, ShortLists(g, preds), ListsAreEdges(g, preds),
         TreeIsRight(g, idom), MarksAreOfPaths(g, preds, mark),
         NEW b \in 1 .. N - 1, stamp = StampOf(g, preds, b, 1),
         \A x \in Reachable(g) : x < b => idom[x] # None,
         NEW some \in DOMAIN preds[b], idom[preds[b][some]] # None,
         NEW r, r = Intersect(b)
  PROVE  /\ b \in Reachable(g) /\ r.node \in Reachable(g) /\ r.node < b /\ idom[r.node] # None
         /\ \A x : x \in Dom(g, b) <=> x = b \/ x \in Dom(g, r.node)
         /\ r.stamp = StampOf(g, preds, b + 1, 1)
         /\ MarksAreOfPaths(g, preds, r.marks)
<1>. DEFINE R == Reachable(g)
            n == Len(preds[b])
<1>1. /\ N \in Nat /\ b \in Blocks(g) /\ b # 0 /\ b # -1 /\ Blocks(g) = 0 .. N - 1
      /\ None \notin Blocks(g) /\ 0 \in R /\ R \subseteq Blocks(g)
  BY DominatorsThrough DEF IsGraph, Blocks, None
<1>2. /\ preds \in [Blocks(g) -> Seq(Blocks(g))] /\ preds[b] \in Seq(Blocks(g))
      /\ n \in Nat /\ DOMAIN preds[b] = 1 .. n
  <2>1. preds \in [Blocks(g) -> Seq(Blocks(g))]
    BY DEF ShortLists
  <2>2. preds[b] \in Seq(Blocks(g))
    BY <1>1, <2>1
  <2>. QED
    BY <2>1, <2>2
<1>3. \A p : (\E i \in DOMAIN preds[b] : preds[b][i] = p) <=> p \in Blocks(g) /\ b \in Succs(g, p)
  BY <1>1 DEF ListsAreEdges
<1>4. /\ idom \in [Blocks(g) -> Blocks(g) \cup {None}]
      /\ \A x \in Blocks(g) : idom[x] # None => x \in R
  BY <1>1 DEF TreeIsRight
<1>5. /\ mark \in [Blocks(g) -> Nat] /\ stamp \in Nat
  BY MeetsAreFew DEF MarksAreOfPaths
<1>6. ASSUME NEW i \in DOMAIN preds[b]
      PROVE  /\ preds[b][i] \in Blocks(g) /\ b \in Succs(g, preds[b][i]) /\ preds[b][i] < b
             /\ IsMeet(g, preds, b, i) <=> idom[preds[b][i]] # None
             /\ IsMeet(g, preds, b, i) <=> preds[b][i] \in R
  <2>1. preds[b][i] \in Blocks(g) /\ b \in Succs(g, preds[b][i])
    BY <1>3
  <2>2. preds[b][i] < b
    BY <1>1, <2>1 DEF Forward
  <2>3. IsMeet(g, preds, b, i) <=> preds[b][i] \in R
    BY DEF IsMeet
  <2>4. preds[b][i] \in R <=> idom[preds[b][i]] # None
    BY <1>4, <2>1, <2>2
  <2>. QED
    BY <2>1, <2>2, <2>3, <2>4
<1>7. PICK f \in [0 .. n -> Totals] :
      \E first \in DOMAIN preds[b] :
         /\ idom[preds[b][first]] # None
         /\ \A i \in 1 .. first - 1 : idom[preds[b][i]] = None
         /\ f[0] = [node |-> preds[b][first], marks |-> mark, stamp |-> stamp]
         /\ \A i \in 1 .. n : f[i] = Met(b, i, f[i - 1])
         /\ Intersect(b) = f[n]
  BY <1>1, <1>2, <1>4, <1>5, IntersectUnfolds
<1>8. PICK first \in DOMAIN preds[b] :
         /\ idom[preds[b][first]] # None
         /\ \A i \in 1 .. first - 1 : idom[preds[b][i]] = None
         /\ f[0] = [node |-> preds[b][first], marks |-> mark, stamp |-> stamp]
         /\ \A i \in 1 .. n : f[i] = Met(b, i, f[i - 1])
         /\ r = f[n]
  BY <1>7
<1>. HIDE DEF n
<1>9. \A i \in DOMAIN preds[b] : IsFirst(g, preds, b, i) <=> i = first
  <2>. TAKE i \in DOMAIN preds[b]
  <2>1. i \in 1 .. n /\ first \in 1 .. n
    BY <1>2
  <2>2. ASSUME IsFirst(g, preds, b, i)
        PROVE  i = first
    <3>1. IsMeet(g, preds, b, i) /\ ~ (first \in 1 .. i - 1)
      BY <1>6, <1>8, <2>2 DEF IsFirst
    <3>2. ~ (i \in 1 .. first - 1)
      BY <1>6, <1>8, <3>1
    <3>. QED
      BY <1>2, <2>1, <3>1, <3>2
  <2>3. IsFirst(g, preds, b, first)
    <3>1. \A j \in 1 .. first - 1 : j \in DOMAIN preds[b]
      BY <1>2, <2>1
    <3>. QED
      BY <1>6, <1>8, <3>1 DEF IsFirst
  <2>. QED
    BY <2>2, <2>3
<1>10. TotalIsRight(b, 1, f[0])
  <2>. DEFINE p == preds[b][first]
  <2>1. p \in R /\ idom[p] # None /\ IsMeet(g, preds, b, first)
    BY <1>6, <1>8
  <2>2. \A i \in DOMAIN preds[b] : ~ (i < 1)
    BY <1>2
  <2>3. \A y : Common(g, preds, b, 1, y) <=> y \in Dom(g, p)
    BY <1>9, <2>1, <2>2 DEF Common
  <2>4. f[0].node = p /\ f[0].marks = mark /\ f[0].stamp = stamp
    BY <1>8
  <2>. HIDE DEF p
  <2>. QED
    BY <2>1, <2>3, <2>4 DEF TotalIsRight
<1>11. \A i \in 0 .. n : TotalIsRight(b, i + 1, f[i])
  <2>. DEFINE S == {i \in 0 .. n : TotalIsRight(b, i + 1, f[i])}
  <2>1. 0 \in S
    BY <1>2, <1>10
  <2>2. ASSUME NEW i \in 1 .. n, i - 1 \in S
        PROVE  i \in S
    <3>1. i \in DOMAIN preds[b] /\ (i - 1) + 1 = i /\ i \in 0 .. n
      BY <1>2
    <3>2. TotalIsRight(b, i, f[i - 1])
      BY <2>2, <3>1
    <3>3. TotalIsRight(b, i + 1, Met(b, i, f[i - 1]))
      BY <1>6, <3>1, <3>2, MetIsRight
    <3>. QED
      BY <1>8, <3>1, <3>3
  <2>3. 0 .. n \subseteq S
    <3>. HIDE DEF S
    <3>. QED
      BY <1>2, <2>1, <2>2, UpTo
  <2>. QED
    BY <2>3
<1>12. TotalIsRight(b, n + 1, r)
  BY <1>2, <1>8, <1>11
<1>13. ASSUME NEW y
       PROVE  Common(g, preds, b, n + 1, y) <=> \A p \in Into(g, b) : y \in Dom(g, p)
  <2>1. \A i \in DOMAIN preds[b] : i < n + 1
    BY <1>2
  <2>2. Common(g, preds, b, n + 1, y)
          <=> \A i \in DOMAIN preds[b] : preds[b][i] \in R => y \in Dom(g, preds[b][i])
    BY <1>6, <2>1 DEF Common
  <2>3. \A p : p \in Into(g, b) <=> p \in R /\ \E i \in DOMAIN preds[b] : preds[b][i] = p
    BY <1>1, <1>3 DEF Into
  <2>. QED
    BY <2>2, <2>3
<1>14. preds[b][first] \in R /\ preds[b][first] \in Into(g, b) /\ preds[b][first] < b
  BY <1>6, <1>8 DEF Into
<1>15. b \in R
  BY <1>1, <1>6, <1>14, ReachedThrough DEF Reachable
<1>16. \A x : x \in Dom(g, b) <=> x = b \/ x \in Dom(g, r.node)
  BY <1>1, <1>12, <1>13, <1>15, DominatorsThrough DEF Dom, TotalIsRight
<1>17. r.node \in R /\ idom[r.node] # None /\ MarksAreOfPaths(g, preds, r.marks)
  BY <1>12 DEF TotalIsRight
<1>18. r.node < b
  <2>1. r.node \in Dom(g, r.node)
    BY <1>17, DominatorsBelow
  <2>2. r.node \in Dom(g, preds[b][first])
    BY <1>12, <1>13, <1>14, <2>1 DEF TotalIsRight
  <2>3. r.node <= preds[b][first]
    BY <1>14, <2>2, DominatorsBelow
  <2>. QED
    BY <1>1, <1>14, <1>17, <2>3
<1>19. r.stamp = StampOf(g, preds, b + 1, 1)
  BY <1>12, MeetsPassOn DEF TotalIsRight, n
<1>. QED
  BY <1>15, <1>16, <1>17, <1>18, <1>19

(***************************************************************************)
(* The lists of predecessors.                                              *)
(***************************************************************************)
Lists == [Blocks(g) -> Seq(Blocks(g))]

\* The edges into b that collect_blocks has come to at successor s of block k.
EdgesUpTo(b, k, s) == {e \in EdgesInto(b) : e[1] < k \/ (e[1] = k /\ e[2] <= s)}
HasEdgesUpTo(lists, k, s) ==
  /\ lists \in Lists
  /\ \A b \in Blocks(g) :
       /\ Len(lists[b]) = Cardinality(EdgesUpTo(b, k, s))
       /\ \A p : (\E i \in DOMAIN lists[b] : lists[b][i] = p) <=> \E t : <<p, t>> \in EdgesUpTo(b, k, s)

LEMMA EdgesAreFew ==
  ASSUME IsGraph(g), NEW b
  PROVE  /\ IsFiniteSet(EdgesInto(b))
         /\ \A k, s : IsFiniteSet(EdgesUpTo(b, k, s)) /\ Cardinality(EdgesUpTo(b, k, s)) \in Nat
         /\ \A e \in EdgesInto(b) : e = <<e[1], e[2]>>
         /\ \A p, t : <<p, t>> \in EdgesInto(b)
                        <=> p \in Blocks(g) /\ t \in 1 .. 2 /\ t \in DOMAIN g.succ[p] /\ g.succ[p][t] = b
<1>1. g.n - 1 \in Nat /\ Blocks(g) = 0 .. g.n - 1 /\ {1, 2} = 1 .. 2
  BY DEF IsGraph, Blocks
<1>2. IsFiniteSet(Blocks(g)) /\ IsFiniteSet({1, 2})
  <2>1. 0 \in Int /\ g.n - 1 \in Int /\ 1 \in Int /\ 2 \in Int
    BY <1>1
  <2>2. IsFiniteSet(0 .. g.n - 1)
    BY <2>1, FS_Interval
  <2>3. IsFiniteSet(1 .. 2)
    BY <2>1, FS_Interval
  <2>. QED
    BY <1>1, <2>2, <2>3
<1>3. IsFiniteSet(Blocks(g) \X {1, 2})
  BY <1>2, FS_Product
<1>4. EdgesInto(b) \subseteq Blocks(g) \X {1, 2}
  BY DEF EdgesInto
<1>5. IsFiniteSet(EdgesInto(b))
  BY <1>3, <1>4, FS_Subset
<1>6. ASSUME NEW k, NEW s
      PROVE  IsFiniteSet(EdgesUpTo(b, k, s)) /\ Cardinality(EdgesUpTo(b, k, s)) \in Nat
  <2>1. EdgesUpTo(b, k, s) \subseteq EdgesInto(b)
    BY DEF EdgesUpTo
  <2>. QED
    BY <1>5, <2>1, FS_Subset, FS_CardinalityType
<1>7. \A e \in EdgesInto(b) : e = <<e[1], e[2]>>
  BY <1>4
<1>8. \A p, t : <<p, t>> \in EdgesInto(b)
                  <=> p \in Blocks(g) /\ t \in 1 .. 2 /\ t \in DOMAIN g.succ[p] /\ g.succ[p][t] = b
  BY DEF EdgesInto
<1>. QED
  BY <1>5, <1>6, <1>7, <1>8

LEMMA AddEdgeTypes ==
  ASSUME IsGraph(g), NEW lists \in Lists, NEW k \in Blocks(g), NEW s
  PROVE  /\ AddEdge(lists, k, s) \in Lists
         /\ s \in DOMAIN g.succ[k] => g.succ[k][s] \in Blocks(g)
<1>1. s \in DOMAIN g.succ[k] => g.succ[k][s] \in Blocks(g)
  BY SuccTypes
<1>2. \A j \in Blocks(g) : Append(lists[j], k) \in Seq(Blocks(g))
  BY DEF Lists
<1>. QED
  BY <1>1, <1>2 DEF AddEdge, Lists

LEMMA AddEdgeRecords ==
  ASSUME IsGraph(g), N = g.n, WithinLimits, NEW lists, NEW k \in Blocks(g), NEW s \in 1 .. 2,
         HasEdgesUpTo(lists, k, s - 1)
  PROVE  HasEdgesUpTo(AddEdge(lists, k, s), k, s)
<1>. DEFINE new == AddEdge(lists, k, s)
            Old(b) == EdgesUpTo(b, k, s - 1)
            Now(b) == EdgesUpTo(b, k, s)
            j == g.succ[k][s]
            is == s \in DOMAIN g.succ[k]
<1>1. lists \in Lists
  BY DEF HasEdgesUpTo
<1>2. new \in Lists /\ (is => j \in Blocks(g))
  BY <1>1, AddEdgeTypes
<1>3. g.n \in Nat /\ Blocks(g) = 0 .. g.n - 1
  BY DEF IsGraph, Blocks
<1>4. ASSUME NEW b \in Blocks(g)
      PROVE  /\ \A e \in Old(b) : e = <<e[1], e[2]>>
             /\ \A e \in Now(b) : e = <<e[1], e[2]>>
             /\ \A p, t : <<p, t>> \in Now(b) <=> <<p, t>> \in Old(b) \/ (p = k /\ t = s /\ is /\ j = b)
             /\ <<k, s>> \notin Old(b)
  <2>1. \A p, t : /\ <<p, t>> \in Old(b) <=> <<p, t>> \in EdgesInto(b) /\ (p < k \/ (p = k /\ t <= s - 1))
                  /\ <<p, t>> \in Now(b) <=> <<p, t>> \in EdgesInto(b) /\ (p < k \/ (p = k /\ t <= s))
    BY DEF EdgesUpTo
  <2>2. \A p, t : <<p, t>> \in EdgesInto(b)
                    <=> p \in Blocks(g) /\ t \in 1 .. 2 /\ t \in DOMAIN g.succ[p] /\ g.succ[p][t] = b
    BY EdgesAreFew
  <2>3. \A t \in 1 .. 2 : t <= s <=> t <= s - 1 \/ t = s
    OBVIOUS
  <2>4. \A p, t : <<p, t>> \in Now(b) <=> <<p, t>> \in Old(b) \/ (p = k /\ t = s /\ is /\ j = b)
    <3>. HIDE DEF Old, Now
    <3>. TAKE p, t
    <3>1. CASE <<p, t>> \in EdgesInto(b)
      BY <2>1, <2>2, <2>3, <3>1
    <3>2. CASE <<p, t>> \notin EdgesInto(b)
      BY <2>1, <2>2, <3>2
    <3>. QED
      BY <3>1, <3>2
  <2>5. <<k, s>> \notin Old(b)
    <3>. HIDE DEF Old, Now
    <3>1. ~ (k < k) /\ ~ (s <= s - 1)
      BY <1>3
    <3>. QED
      BY <2>1, <3>1
  <2>6. \A e \in EdgesInto(b) : e = <<e[1], e[2]>>
    BY EdgesAreFew
  <2>7. Old(b) \subseteq EdgesInto(b) /\ Now(b) \subseteq EdgesInto(b)
    BY DEF EdgesUpTo
  <2>. HIDE DEF Old, Now
  <2>. QED
    BY <2>4, <2>5, <2>6, <2>7
<1>5. \A b \in Blocks(g) :
        /\ Len(lists[b]) = Cardinality(Old(b))
        /\ \A p : (\E i \in DOMAIN lists[b] : lists[b][i] = p) <=> \E t : <<p, t>> \in Old(b)
  BY DEF HasEdgesUpTo
<1>6. \A b \in Blocks(g) : IsFiniteSet(Old(b)) /\ Cardinality(Old(b)) \in Nat
  BY EdgesAreFew
<1>7. \A b \in Blocks(g) : Now(b) \subseteq EdgesInto(b)
  BY DEF EdgesUpTo
<1>. HIDE DEF Old, Now
<1>8. ASSUME NEW b \in Blocks(g), ~ (is /\ j = b)
      PROVE  Now(b) = Old(b) /\ new[b] = lists[b]
  <2>1. Now(b) = Old(b)
    <3>1. \A e \in Now(b) : e \in Old(b)
      BY <1>4, <1>8
    <3>2. \A e \in Old(b) : e \in Now(b)
      BY <1>4, <1>8
    <3>. QED
      BY <3>1, <3>2
  <2>2. new[b] = lists[b]
    BY <1>1, <1>8 DEF AddEdge, Lists
  <2>. QED
    BY <2>1, <2>2
<1>9. ASSUME NEW b \in Blocks(g), is, j = b
      PROVE  /\ Cardinality(Now(b)) = Cardinality(Old(b)) + 1
             /\ new[b] = Append(lists[b], k)
  <2>1. <<k, s>> \notin Old(b) /\ <<k, s>> \in Now(b)
    BY <1>4, <1>9
  <2>2. Now(b) = Old(b) \cup {<<k, s>>}
    <3>1. \A e \in Now(b) : e \in Old(b) \cup {<<k, s>>}
      BY <1>4, <1>9
    <3>2. \A e \in Old(b) : e \in Now(b)
      BY <1>4, <1>9
    <3>. QED
      BY <2>1, <3>1, <3>2
  <2>3. Cardinality(Now(b)) = Cardinality(Old(b)) + 1
    BY <1>6, <2>1, <2>2, FS_AddElement
  <2>4. Cardinality(Now(b)) <= Cardinality(EdgesInto(b)) /\ Cardinality(EdgesInto(b)) \in Nat
    BY <1>7, EdgesAreFew, FS_Subset, FS_CardinalityType
  <2>5. Cardinality(EdgesInto(b)) <= MAX_PRE /\ MAX_PRE \in Nat
    BY LimitsAssumption DEF WithinLimits
  <2>6. Len(lists[b]) < MAX_PRE
    BY <1>5, <1>6, <2>3, <2>4, <2>5
  <2>7. b < N
    BY <1>3
  <2>8. new = [lists EXCEPT ![b] = Append(@, k)]
    BY <1>9, <2>6, <2>7 DEF AddEdge
  <2>. QED
    BY <1>1, <2>3, <2>8 DEF Lists
<1>10. ASSUME NEW b \in Blocks(g)
       PROVE  /\ Len(new[b]) = Cardinality(Now(b))
              /\ \A p : (\E i \in DOMAIN new[b] : new[b][i] = p) <=> \E t : <<p, t>> \in Now(b)
  <2>1. CASE ~ (is /\ j = b)
    <3>1. Now(b) = Old(b) /\ new[b] = lists[b]
      BY <1>8, <2>1
    <3>2. Len(lists[b]) = Cardinality(Old(b))
      BY <1>5
    <3>3. \A p : (\E i \in DOMAIN lists[b] : lists[b][i] = p) <=> \E t : <<p, t>> \in Old(b)
      BY <1>5
    <3>. HIDE DEF new
    <3>. QED
      BY <3>1, <3>2, <3>3, Zenon
  <2>2. CASE is /\ j = b
    <3>. DEFINE old == lists[b]
                l == Len(old)
    <3>1. old \in Seq(Blocks(g)) /\ l \in Nat /\ new[b] = Append(old, k)
      BY <1>1, <1>9, <2>2 DEF Lists
    <3>2. /\ Len(new[b]) = l + 1 /\ DOMAIN new[b] = 1 .. l + 1 /\ DOMAIN old = 1 .. l
          /\ \A i \in 1 .. l : new[b][i] = old[i]
          /\ new[b][l + 1] = k
      BY <3>1
    <3>3. \A p : (\E i \in DOMAIN new[b] : new[b][i] = p) <=> p = k \/ \E i \in DOMAIN old : old[i] = p
      <4>. HIDE DEF l
      <4>1. \A i : i \in 1 .. l + 1 <=> i \in 1 .. l \/ i = l + 1
        BY <3>1
      <4>. HIDE DEF new, old
      <4>. QED
        BY <3>2, <4>1
    <3>4. \A p : (\E t : <<p, t>> \in Now(b)) <=> p = k \/ \E t : <<p, t>> \in Old(b)
      BY <1>4, <2>2
    <3>5. \A p : (\E i \in DOMAIN old : old[i] = p) <=> \E t : <<p, t>> \in Old(b)
      BY <1>5
    <3>6. Len(new[b]) = Cardinality(Now(b))
      BY <1>5, <1>9, <2>2, <3>2
    <3>. HIDE DEF new, old, l
    <3>. QED
      BY <3>3, <3>4, <3>5, <3>6
  <2>. QED
    BY <2>1, <2>2
<1>. QED
  BY <1>2, <1>10 DEF HasEdgesUpTo, Now

LEMMA EdgesPassOn ==
  ASSUME IsGraph(g), NEW b
  PROVE  /\ EdgesUpTo(b, 0, 0) = {}
         /\ \A k \in Nat : EdgesUpTo(b, k, 2) = EdgesUpTo(b, k + 1, 0)
         /\ EdgesUpTo(b, g.n, 0) = EdgesInto(b)
<1>1. \A e \in EdgesInto(b) : e[1] \in 0 .. g.n - 1 /\ e[2] \in 1 .. 2
  BY DEF EdgesInto, Blocks
<1>2. g.n \in Nat
  BY DEF IsGraph
<1>3. EdgesUpTo(b, 0, 0) = {}
  <2>1. \A e \in EdgesInto(b) : ~ (e[1] < 0 \/ (e[1] = 0 /\ e[2] <= 0))
    BY <1>1, <1>2
  <2>. QED
    BY <2>1 DEF EdgesUpTo
<1>4. ASSUME NEW k \in Nat
      PROVE  EdgesUpTo(b, k, 2) = EdgesUpTo(b, k + 1, 0)
  <2>1. \A e \in EdgesInto(b) :
          (e[1] < k \/ (e[1] = k /\ e[2] <= 2)) <=> (e[1] < k + 1 \/ (e[1] = k + 1 /\ e[2] <= 0))
    BY <1>1, <1>2
  <2>. QED
    BY <2>1 DEF EdgesUpTo
<1>5. EdgesUpTo(b, g.n, 0) = EdgesInto(b)
  <2>1. \A e \in EdgesInto(b) : e[1] < g.n
    BY <1>1, <1>2
  <2>. QED
    BY <2>1 DEF EdgesUpTo
<1>. QED
  BY <1>3, <1>4, <1>5

LEMMA PredListsUnfold ==
  ASSUME IsGraph(g), N = g.n
  PROVE  \E r \in [0 .. N -> Lists] :
           /\ r[0] = [b \in Blocks(g) |-> << >>]
           /\ \A k \in 1 .. N : r[k] = AddEdge(AddEdge(r[k - 1], k - 1, 1), k - 1, 2)
           /\ PredLists = r[N]
<1>. DEFINE n == N
            v == [b \in 0 .. N - 1 |-> << >>]
            turn == [k \in 1 .. n |-> [x \in Lists |-> AddEdge(AddEdge(x, k - 1, 1), k - 1, 2)]]
            Def(r) == r = [k \in 0 .. n |->
                             IF k = 0 THEN v ELSE AddEdge(AddEdge(r[k - 1], k - 1, 1), k - 1, 2)]
<1>1. n \in Nat /\ Blocks(g) = 0 .. N - 1 /\ v = [b \in Blocks(g) |-> << >>]
  BY DEF IsGraph, Blocks
<1>2. v \in Lists
  <2>1. << >> \in Seq(Blocks(g))
    OBVIOUS
  <2>. QED
    BY <1>1, <2>1 DEF Lists
<1>3. \A k \in 1 .. n : k \in 0 .. n /\ k # 0 /\ k - 1 \in 0 .. n /\ k - 1 \in Blocks(g)
  BY <1>1
<1>4. ASSUME NEW k \in 1 .. n, NEW x \in Lists
      PROVE  AddEdge(AddEdge(x, k - 1, 1), k - 1, 2) \in Lists
  BY <1>3, AddEdgeTypes
<1>. HIDE DEF n, v
<1>5. Turns(Lists, n, turn)
  BY <1>4 DEF Turns
<1>6. PICK f : IsRun(Lists, v, n, turn, f)
  <2>. HIDE DEF turn
  <2>. QED
    BY <1>1, <1>2, <1>5, RunExists
<1>7. Def(f)
  <2>1. \A k \in 0 .. n : f[k] = IF k = 0 THEN v ELSE AddEdge(AddEdge(f[k - 1], k - 1, 1), k - 1, 2)
    <3>. TAKE k \in 0 .. n
    <3>1. CASE k = 0
      BY <1>6, <3>1 DEF IsRun
    <3>2. CASE k # 0
      <4>1. k \in 1 .. n
        BY <1>1, <3>2
      <4>2. f[k - 1] \in Lists /\ f[k] = turn[k][f[k - 1]]
        BY <1>3, <1>6, <4>1 DEF IsRun
      <4>. QED
        BY <3>2, <4>1, <4>2
    <3>. QED
      BY <3>1, <3>2
  <2>2. f = [k \in 0 .. n |-> f[k]]
    BY <1>6 DEF IsRun
  <2>3. [k \in 0 .. n |-> f[k]] =
          [k \in 0 .. n |-> IF k = 0 THEN v ELSE AddEdge(AddEdge(f[k - 1], k - 1, 1), k - 1, 2)]
    BY <2>1
  <2>. QED
    BY <2>2, <2>3
<1>8. \E r : Def(r)
  BY <1>7
<1>9. PICK r : Def(r) /\ PredLists = r[n]
  BY <1>8 DEF PredLists, n, v
<1>10. r[0] = v /\ \A k \in 1 .. n : r[k] = AddEdge(AddEdge(r[k - 1], k - 1, 1), k - 1, 2)
  <2>1. \A k \in 0 .. n : r[k] = IF k = 0 THEN v ELSE AddEdge(AddEdge(r[k - 1], k - 1, 1), k - 1, 2)
    BY <1>9
  <2>2. 0 \in 0 .. n
    BY <1>1
  <2>. QED
    BY <1>3, <2>1, <2>2
<1>11. \A k \in 0 .. n : r[k] \in Lists
  <2>. DEFINE S == {k \in 0 .. n : r[k] \in Lists}
  <2>1. 0 \in S
    BY <1>1, <1>2, <1>10
  <2>2. ASSUME NEW k \in 1 .. n, k - 1 \in S
        PROVE  k \in S
    BY <1>3, <1>4, <1>10, <2>2
  <2>3. 0 .. n \subseteq S
    <3>. HIDE DEF S
    <3>. QED
      BY <1>1, <2>1, <2>2, UpTo
  <2>. QED
    BY <2>3
<1>12. r \in [0 .. n -> Lists]
  BY <1>9, <1>11
<1>. QED
  BY <1>1, <1>9, <1>10, <1>12 DEF n

\* collect_blocks lists every edge, if the lists have the places.
LEMMA PredListsAreEdges ==
  ASSUME IsGraph(g), N = g.n, WithinLimits
  PROVE  ListsAreEdges(g, PredLists) /\ ShortLists(g, PredLists)
<1>1. PICK r \in [0 .. N -> Lists] :
           /\ r[0] = [b \in Blocks(g) |-> << >>]
           /\ \A k \in 1 .. N : r[k] = AddEdge(AddEdge(r[k - 1], k - 1, 1), k - 1, 2)
           /\ PredLists = r[N]
  BY PredListsUnfold
<1>2. N \in Nat /\ Blocks(g) = 0 .. N - 1
  BY DEF IsGraph, Blocks
<1>3. HasEdgesUpTo(r[0], 0, 0)
  <2>1. \A b : EdgesUpTo(b, 0, 0) = {}
    BY EdgesPassOn
  <2>2. \A b : Cardinality(EdgesUpTo(b, 0, 0)) = 0
    BY <2>1, FS_EmptySet
  <2>3. r[0] \in Lists /\ \A b \in Blocks(g) : r[0][b] = << >>
    <3>1. 0 \in 0 .. N
      BY <1>2
    <3>2. r[0] \in Lists
      BY <1>1, <3>1
    <3>. QED
      BY <1>1, <3>2
  <2>4. \A b \in Blocks(g) : Len(r[0][b]) = 0 /\ DOMAIN r[0][b] = {}
    BY <2>3
  <2>5. ASSUME NEW b \in Blocks(g), NEW p
        PROVE  (\E i \in DOMAIN r[0][b] : r[0][b][i] = p) <=> \E t : <<p, t>> \in EdgesUpTo(b, 0, 0)
    BY <2>1, <2>4
  <2>. QED
    BY <2>2, <2>3, <2>4, <2>5 DEF HasEdgesUpTo
<1>4. \A k \in 0 .. N : HasEdgesUpTo(r[k], k, 0)
  <2>. DEFINE S == {k \in 0 .. N : HasEdgesUpTo(r[k], k, 0)}
  <2>1. 0 \in S
    BY <1>2, <1>3
  <2>2. ASSUME NEW k \in 1 .. N, k - 1 \in S
        PROVE  k \in S
    <3>. DEFINE one == AddEdge(r[k - 1], k - 1, 1)
    <3>1. k - 1 \in Blocks(g) /\ 1 \in 1 .. 2 /\ 2 \in 1 .. 2 /\ 1 - 1 = 0 /\ 2 - 1 = 1
          /\ (k - 1) + 1 = k /\ k - 1 \in Nat /\ k \in 0 .. N
      BY <1>2
    <3>2. HasEdgesUpTo(r[k - 1], k - 1, 1 - 1)
      BY <2>2, <3>1
    <3>3. HasEdgesUpTo(one, k - 1, 1)
      BY <3>1, <3>2, AddEdgeRecords
    <3>. HIDE DEF one
    <3>4. HasEdgesUpTo(AddEdge(one, k - 1, 2), k - 1, 2)
      BY <3>1, <3>3, AddEdgeRecords
    <3>5. HasEdgesUpTo(r[k], k - 1, 2)
      BY <1>1, <3>4 DEF one
    <3>6. \A b : EdgesUpTo(b, k - 1, 2) = EdgesUpTo(b, k, 0)
      BY <3>1, EdgesPassOn
    <3>7. HasEdgesUpTo(r[k], k, 0)
      BY <3>5, <3>6 DEF HasEdgesUpTo
    <3>. QED
      BY <3>1, <3>7
  <2>3. 0 .. N \subseteq S
    <3>. HIDE DEF S
    <3>. QED
      BY <1>2, <2>1, <2>2, UpTo
  <2>. QED
    BY <2>3
<1>5. HasEdgesUpTo(PredLists, g.n, 0)
  BY <1>1, <1>2, <1>4
<1>. DEFINE lists == PredLists
<1>. HIDE DEF lists
<1>6. /\ lists \in [Blocks(g) -> Seq(Blocks(g))]
      /\ \A b \in Blocks(g) :
           /\ Len(lists[b]) = Cardinality(EdgesInto(b))
           /\ \A p : (\E i \in DOMAIN lists[b] : lists[b][i] = p) <=> \E t : <<p, t>> \in EdgesInto(b)
  <2>1. HasEdgesUpTo(lists, g.n, 0)
    BY <1>5 DEF lists
  <2>2. \A b : EdgesUpTo(b, g.n, 0) = EdgesInto(b)
    BY EdgesPassOn
  <2>3. /\ lists \in [Blocks(g) -> Seq(Blocks(g))]
        /\ \A b \in Blocks(g) :
             /\ Len(lists[b]) = Cardinality(EdgesUpTo(b, g.n, 0))
             /\ \A p : (\E i \in DOMAIN lists[b] : lists[b][i] = p) <=> \E t : <<p, t>> \in EdgesUpTo(b, g.n, 0)
    BY <2>1 DEF HasEdgesUpTo, Lists
  <2>4. ASSUME NEW b \in Blocks(g)
        PROVE  /\ Len(lists[b]) = Cardinality(EdgesInto(b))
               /\ \A p : (\E i \in DOMAIN lists[b] : lists[b][i] = p) <=> \E t : <<p, t>> \in EdgesInto(b)
    <3>1. EdgesUpTo(b, g.n, 0) = EdgesInto(b)
      BY <2>2
    <3>2. Len(lists[b]) = Cardinality(EdgesInto(b))
      BY <2>3, <3>1
    <3>3. ASSUME NEW p
          PROVE  (\E i \in DOMAIN lists[b] : lists[b][i] = p) <=> \E t : <<p, t>> \in EdgesInto(b)
      <4>1. (\E i \in DOMAIN lists[b] : lists[b][i] = p) <=> \E t : <<p, t>> \in EdgesUpTo(b, g.n, 0)
        BY <2>3
      <4>. QED
        BY <3>1, <4>1
    <3>. QED
      BY <3>2, <3>3
  <2>. QED
    BY <2>3, <2>4
<1>7. ASSUME NEW b \in Blocks(g), NEW p
      PROVE  (\E t : <<p, t>> \in EdgesInto(b)) <=> p \in Blocks(g) /\ b \in Succs(g, p)
  <2>1. \A t : <<p, t>> \in EdgesInto(b)
                 <=> p \in Blocks(g) /\ t \in 1 .. 2 /\ t \in DOMAIN g.succ[p] /\ g.succ[p][t] = b
    BY EdgesAreFew
  <2>2. p \in Blocks(g) => \A t \in DOMAIN g.succ[p] : t \in 1 .. 2
    BY SuccTypes
  <2>3. b \in Succs(g, p) <=> \E t \in DOMAIN g.succ[p] : g.succ[p][t] = b
    BY DEF Succs, Range
  <2>. QED
    BY <2>1, <2>2, <2>3
<1>8. \A b \in Blocks(g) : Cardinality(EdgesInto(b)) <= MAX_PRE
  BY DEF WithinLimits
<1>9. ListsAreEdges(g, lists)
  BY <1>6, <1>7 DEF ListsAreEdges
<1>10. ShortLists(g, lists)
  BY <1>6, <1>8 DEF ShortLists
<1>. QED
  BY <1>9, <1>10 DEF lists

(***************************************************************************)
(* The steps.                                                              *)
(***************************************************************************)
LEMMA LimitsStay ==
  ASSUME g' = g
  PROVE  /\ IsGraph(g)' <=> IsGraph(g)
         /\ ListedForward' <=> Forward(g)
         /\ WithinLimits' <=> WithinLimits
         /\ N' = N
BY DEF ListedForward, Forward, WithinLimits, EdgesInto, N

LEMMA AllHavePlaces ==
  ASSUME WithinLimits, IsGraph(g)
  PROVE  N = g.n
BY LimitsAssumption DEF WithinLimits, N, IsGraph

LEMMA Collected ==
  ASSUME IsGraph(g), Forward(g), WithinLimits, CollectBlocks
  PROVE  AnalysisIsRight'
<1>1. /\ preds' = PredLists /\ idom' = NoDominators /\ mark' = [b \in 0 .. N - 1 |-> 0]
      /\ pc' = "sweep" /\ blk' = 1 /\ stamp' = 1 /\ g' = g
  BY DEF CollectBlocks
<1>2. N = g.n /\ N' = N /\ N \in Nat \ {0} /\ Blocks(g) = 0 .. N - 1 /\ 0 \in Blocks(g)
  BY <1>1, AllHavePlaces, LimitsStay DEF IsGraph, Blocks
<1>3. ListsAreEdges(g, preds') /\ ShortLists(g, preds')
  BY <1>1, <1>2, PredListsAreEdges
<1>4. TreeIsRight(g, idom')
  <2>1. /\ idom' \in [Blocks(g) -> Blocks(g) \cup {None}] /\ idom'[0] = 0
        /\ \A b \in Blocks(g) \ {0} : idom'[b] = None
    BY <1>1, <1>2 DEF NoDominators
  <2>. QED
    BY <2>1 DEF TreeIsRight
<1>5. MarksAreOfPaths(g, preds', mark')
  BY <1>1, <1>2 DEF MarksAreOfPaths
<1>6. stamp' = StampOf(g, preds', 1, 1)
  BY <1>1, <1>3, FirstStamp
<1>7. \A b \in Reachable(g) : b < 1 => idom'[b] # None
  <2>1. \A b \in Reachable(g) : b < 1 => b = 0
    BY <1>2, DominatorsThrough
  <2>. QED
    BY <1>4, <1>2, <2>1 DEF TreeIsRight, None
<1>8. 1 \in 1 .. N
  BY <1>2
<1>. QED
  BY <1>1, <1>2, <1>3, <1>4, <1>5, <1>6, <1>7, <1>8 DEF AnalysisIsRight

LEMMA Visited ==
  ASSUME IsGraph(g), Forward(g), WithinLimits, AnalysisIsRight, VisitBlock
  PROVE  AnalysisIsRight'
<1>. DEFINE R == Reachable(g)
<1>1. /\ pc = "sweep" /\ blk < N /\ pc' = pc /\ g' = g /\ preds' = preds /\ blk' = blk + 1
  BY DEF VisitBlock
<1>2. /\ N = g.n /\ N' = N /\ N \in Nat \ {0} /\ Blocks(g) = 0 .. N - 1 /\ 0 \in Blocks(g)
      /\ None \notin Blocks(g)
  BY <1>1, AllHavePlaces, LimitsStay DEF IsGraph, Blocks, None
<1>3. /\ ListsAreEdges(g, preds) /\ ShortLists(g, preds) /\ TreeIsRight(g, idom)
      /\ blk \in 1 .. N /\ stamp = StampOf(g, preds, blk, 1) /\ MarksAreOfPaths(g, preds, mark)
      /\ \A b \in R : b < blk => idom[b] # None
  BY <1>1 DEF AnalysisIsRight
<1>4. blk \in 1 .. N - 1 /\ blk + 1 \in 1 .. N /\ blk \in Blocks(g) /\ blk # 0
  BY <1>1, <1>2, <1>3
<1>5. R \subseteq Blocks(g) /\ \A b \in R : b < blk + 1 => b < blk \/ b = blk
  BY <1>2, <1>4, DominatorsThrough
<1>6. idom \in [Blocks(g) -> Blocks(g) \cup {None}]
  BY <1>3 DEF TreeIsRight
<1>7. CASE \A i \in DOMAIN preds[blk] : idom[preds[blk][i]] = None
  <2>1. idom' = idom /\ mark' = mark /\ stamp' = stamp
    BY <1>7 DEF VisitBlock
  <2>2. blk \notin R
    <3>. SUFFICES ASSUME blk \in R
                  PROVE  FALSE
      OBVIOUS
    <3>1. PICK p \in Into(g, blk) : p < blk
      BY <1>4, DominatorsThrough
    <3>2. p \in R /\ p \in Blocks(g) /\ blk \in Succs(g, p)
      BY <1>5, <3>1 DEF Into
    <3>3. PICK i \in DOMAIN preds[blk] : preds[blk][i] = p
      BY <1>3, <1>4, <3>2 DEF ListsAreEdges
    <3>. QED
      BY <1>3, <1>7, <3>1, <3>2, <3>3
  <2>3. \A i : ~ IsMeet(g, preds, blk, i)
    <3>. SUFFICES ASSUME NEW i, IsMeet(g, preds, blk, i)
                  PROVE  FALSE
      OBVIOUS
    <3>1. i \in DOMAIN preds[blk] /\ preds[blk][i] \in R
      BY DEF IsMeet
    <3>2. preds[blk][i] \in Blocks(g) /\ blk \in Succs(g, preds[blk][i])
      BY <1>3, <1>4, <3>1 DEF ListsAreEdges
    <3>3. preds[blk][i] < blk
      BY <1>4, <3>2 DEF Forward
    <3>. QED
      BY <1>3, <1>7, <3>1, <3>3
  <2>4. StampOf(g, preds, blk + 1, 1) = StampOf(g, preds, blk, 1)
    <3>. DEFINE L == Len(preds[blk])
                S == {i \in 0 .. L : StampOf(g, preds, blk, i + 1) = StampOf(g, preds, blk, 1)}
    <3>1. L \in Nat
      BY <1>3, <1>4 DEF ShortLists
    <3>2. 0 \in S
      BY <3>1
    <3>3. ASSUME NEW i \in 1 .. L, i - 1 \in S
          PROVE  i \in S
      <4>1. i \in Nat /\ i \in 0 .. L /\ (i - 1) + 1 = i
        BY <3>1
      <4>2. StampOf(g, preds, blk, i + 1) = StampOf(g, preds, blk, i)
        BY <1>2, <1>3, <1>4, <2>3, <4>1, MeetsAdvance
      <4>. QED
        BY <3>3, <4>1, <4>2
    <3>4. 0 .. L \subseteq S
      <4>. HIDE DEF S
      <4>. QED
        BY <3>1, <3>2, <3>3, UpTo
    <3>5. StampOf(g, preds, blk, L + 1) = StampOf(g, preds, blk, 1)
      BY <3>1, <3>4
    <3>. QED
      BY <1>2, <1>3, <1>4, <3>5, MeetsPassOn
  <2>5. \A b \in R : b < blk + 1 => idom[b] # None
    BY <1>3, <1>5, <2>2
  <2>. QED
    BY <1>1, <1>2, <1>3, <1>4, <2>1, <2>4, <2>5 DEF AnalysisIsRight
<1>8. CASE ~ \A i \in DOMAIN preds[blk] : idom[preds[blk][i]] = None
  <2>. DEFINE r == Intersect(blk)
  <2>1. idom' = [idom EXCEPT ![blk] = r.node] /\ mark' = r.marks /\ stamp' = r.stamp
    BY <1>8 DEF VisitBlock
  <2>2. PICK some \in DOMAIN preds[blk] : idom[preds[blk][some]] # None
    BY <1>8
  <2>3. /\ blk \in R /\ r.node \in R /\ r.node < blk /\ idom[r.node] # None
        /\ \A x : x \in Dom(g, blk) <=> x = blk \/ x \in Dom(g, r.node)
        /\ r.stamp = StampOf(g, preds, blk + 1, 1)
        /\ MarksAreOfPaths(g, preds, r.marks)
    BY <1>2, <1>3, <1>4, <2>2, VisitFindsDominator
  <2>. DEFINE node == r.node
  <2>. HIDE DEF r
  <2>4. node \in Blocks(g) /\ node # blk /\ node # None
    BY <1>2, <1>3, <1>5, <2>3
  <2>. HIDE DEF node
  <2>5. /\ idom' = [idom EXCEPT ![blk] = node]
        /\ node \in R /\ node < blk /\ idom[node] # None
        /\ \A x : x \in Dom(g, blk) <=> x = blk \/ x \in Dom(g, node)
    BY <2>1, <2>3 DEF node
  <2>6. /\ idom' \in [Blocks(g) -> Blocks(g) \cup {None}]
        /\ idom'[blk] = node
        /\ \A b \in Blocks(g) : b # blk => idom'[b] = idom[b]
        /\ \A b \in Blocks(g) : idom[b] # None => idom'[b] # None
    BY <1>4, <1>6, <2>4, <2>5
  <2>7. TreeIsRight(g, idom')
    <3>1. idom'[0] = 0
      BY <1>2, <1>3, <1>4, <2>6 DEF TreeIsRight
    <3>2. ASSUME NEW b \in Blocks(g) \ {0}, idom'[b] # None
          PROVE  /\ b \in R /\ idom'[b] \in R /\ idom'[b] < b /\ idom'[idom'[b]] # None
                 /\ \A x : x \in Dom(g, b) <=> x = b \/ x \in Dom(g, idom'[b])
      <4>1. CASE b = blk
        BY <2>3, <2>4, <2>5, <2>6, <4>1
      <4>2. CASE b # blk
        <5>1. idom'[b] = idom[b]
          BY <2>6, <4>2
        <5>2. /\ b \in R /\ idom[b] \in R /\ idom[b] < b /\ idom[idom[b]] # None
              /\ \A x : x \in Dom(g, b) <=> x = b \/ x \in Dom(g, idom[b])
          BY <1>3, <3>2, <5>1 DEF TreeIsRight
        <5>3. idom'[idom[b]] # None
          BY <1>5, <2>6, <5>2
        <5>. QED
          BY <5>1, <5>2, <5>3
      <4>. QED
        BY <4>1, <4>2
    <3>. QED
      BY <2>6, <3>1, <3>2 DEF TreeIsRight
  <2>8. \A b \in R : b < blk + 1 => idom'[b] # None
    BY <1>3, <1>5, <2>4, <2>6
  <2>9. stamp' = StampOf(g, preds, blk + 1, 1) /\ MarksAreOfPaths(g, preds, mark')
    BY <2>1, <2>3
  <2>. QED
    BY <1>1, <1>2, <1>3, <1>4, <2>7, <2>8, <2>9 DEF AnalysisIsRight
<1>. QED
  BY <1>7, <1>8

LEMMA SweepEnded ==
  ASSUME IsGraph(g), Forward(g), WithinLimits, AnalysisIsRight, EndSweep
  PROVE  AnalysisIsRight'
<1>1. /\ pc = "sweep" /\ blk = N /\ g' = g /\ preds' = preds /\ idom' = idom /\ mark' = mark
  BY DEF EndSweep
<1>2. N = g.n /\ N' = N /\ N \in Nat \ {0} /\ Blocks(g) = 0 .. N - 1 /\ 0 \in Blocks(g)
  BY <1>1, AllHavePlaces, LimitsStay DEF IsGraph, Blocks
<1>3. /\ ListsAreEdges(g, preds) /\ ShortLists(g, preds) /\ TreeIsRight(g, idom)
      /\ blk \in 1 .. N /\ stamp = StampOf(g, preds, blk, 1) /\ MarksAreOfPaths(g, preds, mark)
      /\ \A b \in Reachable(g) : b < blk => idom[b] # None
  BY <1>1 DEF AnalysisIsRight
<1>4. \A b \in Reachable(g) : b < blk
  BY <1>1, <1>2, DominatorsThrough
<1>5. \A b \in Reachable(g) : idom[b] # None
  BY <1>3, <1>4
<1>6. CASE pc' = "frontier"
  BY <1>1, <1>3, <1>5, <1>6 DEF AnalysisIsRight
<1>7. CASE pc' = pc /\ blk' = 1 /\ stamp' = 1
  <2>1. StampOf(g, preds, 1, 1) = 1
    BY <1>3, FirstStamp
  <2>2. 1 \in 1 .. N
    BY <1>2
  <2>. QED
    BY <1>1, <1>2, <1>3, <1>5, <1>7, <2>1, <2>2 DEF AnalysisIsRight
<1>. QED
  BY <1>6, <1>7 DEF EndSweep

LEMMA Start == Init => DominatorsInvariant
<1>. SUFFICES ASSUME Init
              PROVE  DominatorsInvariant
  OBVIOUS
<1>1. PICK p \in Programs : g = p.cfg
  BY DEF Init
<1>2. IsGraph(g)
  BY <1>1, Mem2RegAssumption
<1>3. pc = "collect"
  BY DEF Init, AnalysisInit
<1>. QED
  BY <1>2, <1>3 DEF DominatorsInvariant

LEMMA Steps == DominatorsInvariant /\ [Next]_vars => DominatorsInvariant'
<1>. SUFFICES ASSUME DominatorsInvariant, [Next]_vars
              PROVE  DominatorsInvariant'
  OBVIOUS
<1>1. IsGraph(g) /\ (pc # "collect" /\ Forward(g) /\ WithinLimits => AnalysisIsRight)
  BY DEF DominatorsInvariant, ListedForward, Forward
<1>2. ASSUME g' = g, Forward(g) /\ WithinLimits => pc' = "collect" \/ AnalysisIsRight'
      PROVE  DominatorsInvariant'
  <2>1. /\ IsGraph(g)' <=> IsGraph(g)
        /\ ListedForward' <=> Forward(g)
        /\ WithinLimits' <=> WithinLimits
    BY <1>2, LimitsStay
  <2>. QED
    BY <1>1, <1>2, <2>1 DEF DominatorsInvariant
\* A step that leaves the analysis alone, before it starts or after it ended.
<1>3. ASSUME UNCHANGED analysis, pc # "sweep", pc' # "sweep", pc # "collect"
      PROVE  DominatorsInvariant'
  <2>1. g' = g /\ preds' = preds /\ idom' = idom
    BY <1>3 DEF analysis
  <2>2. ASSUME AnalysisIsRight
        PROVE  AnalysisIsRight'
    <3>1. /\ ListsAreEdges(g, preds) /\ ShortLists(g, preds) /\ TreeIsRight(g, idom)
          /\ \A b \in Reachable(g) : idom[b] # None
      BY <1>3, <2>2 DEF AnalysisIsRight
    <3>. QED
      BY <1>3, <2>1, <3>1 DEF AnalysisIsRight
  <2>. QED
    BY <1>1, <1>2, <1>3, <2>1, <2>2
<1>4. CASE CollectBlocks
  <2>1. g' = g
    BY <1>4 DEF CollectBlocks
  <2>. QED
    BY <1>1, <1>2, <1>4, <2>1, Collected
<1>5. CASE VisitBlock
  <2>1. g' = g /\ pc # "collect"
    BY <1>5 DEF VisitBlock
  <2>. QED
    BY <1>1, <1>2, <1>5, <2>1, Visited
<1>6. CASE EndSweep
  <2>1. g' = g /\ pc # "collect"
    BY <1>6 DEF EndSweep
  <2>. QED
    BY <1>1, <1>2, <1>6, <2>1, SweepEnded
<1>7. CASE ComputeDF
  <2>1. /\ g' = g /\ preds' = preds /\ idom' = idom
        /\ pc # "sweep" /\ pc' # "sweep" /\ pc # "collect"
    BY <1>7 DEF ComputeDF
  <2>2. ASSUME AnalysisIsRight
        PROVE  AnalysisIsRight'
    <3>1. /\ ListsAreEdges(g, preds) /\ ShortLists(g, preds) /\ TreeIsRight(g, idom)
          /\ \A b \in Reachable(g) : idom[b] # None
      BY <2>1, <2>2 DEF AnalysisIsRight
    <3>. QED
      BY <2>1, <3>1 DEF AnalysisIsRight
  <2>. QED
    BY <1>1, <1>2, <2>1, <2>2
<1>8. CASE AnalysisStep
  BY <1>4, <1>5, <1>6, <1>7, <1>8 DEF AnalysisStep, Analyse
<1>9. CASE PromoteOne
  BY <1>3, <1>9 DEF PromoteOne
<1>10. CASE PromotionEnds
  BY <1>3, <1>10 DEF PromotionEnds
<1>11. CASE RenameBlock
  BY <1>3, <1>11 DEF RenameBlock
<1>12. CASE RenameEnds
  BY <1>3, <1>12 DEF RenameEnds
<1>13. CASE RemoveDead
  BY <1>3, <1>13 DEF RemoveDead
<1>14. CASE RunBlock
  BY <1>3, <1>14 DEF RunBlock
<1>15. CASE UNCHANGED vars
  <2>1. /\ g' = g /\ preds' = preds /\ idom' = idom /\ mark' = mark /\ stamp' = stamp
        /\ blk' = blk /\ pc' = pc
    BY <1>15 DEF vars, analysis
  <2>2. N' = N
    BY <2>1, LimitsStay
  <2>3. ASSUME AnalysisIsRight
        PROVE  AnalysisIsRight'
    <3>1. /\ ListsAreEdges(g, preds) /\ ShortLists(g, preds) /\ TreeIsRight(g, idom)
          /\ pc = "sweep" => /\ blk \in 1 .. N
                             /\ stamp = StampOf(g, preds, blk, 1)
                             /\ MarksAreOfPaths(g, preds, mark)
                             /\ \A b \in Reachable(g) : b < blk => idom[b] # None
          /\ pc # "sweep" => \A b \in Reachable(g) : idom[b] # None
      BY <2>3 DEF AnalysisIsRight
    <3>. QED
      BY <2>1, <2>2, <3>1 DEF AnalysisIsRight
  <2>. QED
    BY <1>1, <1>2, <2>1, <2>3
<1>. QED
  BY <1>8, <1>9, <1>10, <1>11, <1>12, <1>13, <1>14, <1>15 DEF Next, Finished

\* When compute_doms is done.
LEMMA IdomsAreExact ==
  ASSUME DominatorsInvariant, pc \notin {"collect", "sweep"}, ListedForward, WithinLimits
  PROVE  TreeIsExact
<1>. SUFFICES /\ idom[0] = 0
              /\ \A b \in 1 .. N - 1 :
                   IF b \in DOMAIN DominatorSets(g)
                   THEN IsImmediateDominator(DominatorSets(g), idom[b], b) ELSE idom[b] = None
  BY DEF TreeIsExact
<1>. DEFINE R == Reachable(g)
<1>1. IsGraph(g) /\ Forward(g) /\ AnalysisIsRight /\ pc \notin {"collect", "sweep"}
  BY DEF DominatorsInvariant, ListedForward, Forward
<1>2. N = g.n /\ N \in Nat \ {0} /\ Blocks(g) = 0 .. N - 1
  BY <1>1, AllHavePlaces DEF IsGraph, Blocks
<1>3. TreeIsRight(g, idom) /\ \A b \in R : idom[b] # None
  BY <1>1 DEF AnalysisIsRight
<1>4. DOMAIN DominatorSets(g) = R /\ R \subseteq Blocks(g)
  BY <1>1, DominatorsThrough
<1>5. ASSUME NEW b \in 1 .. N - 1
      PROVE  IF b \in R THEN IsImmediateDominator(DominatorSets(g), idom[b], b) ELSE idom[b] = None
  <2>1. b \in Blocks(g) \ {0}
    BY <1>2
  <2>2. CASE b \notin R
    BY <1>3, <2>1, <2>2 DEF TreeIsRight
  <2>3. CASE b \in R
    <3>. DEFINE a == idom[b]
    <3>1. /\ a \in R /\ a < b
          /\ \A x : x \in Dom(g, b) <=> x = b \/ x \in Dom(g, a)
      BY <1>3, <2>1, <2>3 DEF TreeIsRight
    <3>2. a \in Dom(g, a)
      BY <1>1, <3>1, DominatorsBelow
    <3>3. a \in Dom(g, b) \ {b} /\ Dom(g, b) \ {b} \subseteq Dom(g, a)
      BY <1>2, <3>1, <3>2
    <3>. QED
      BY <2>3, <3>3 DEF IsImmediateDominator, Dom
  <2>. QED
    BY <2>2, <2>3
<1>6. idom[0] = 0
  BY <1>3 DEF TreeIsRight
<1>. QED
  BY <1>4, <1>5, <1>6

\* The predecessor lists are the edges, what is recorded of a block is its
\* immediate dominator, and the marks of meet tell the meets of a sweep apart,
\* whatever an earlier sweep has left.
THEOREM Invariance == Spec => []DominatorsInvariant
BY Start, Steps, PTL DEF Spec

\* compute_doms: in a function whose edges lead to later blocks, and that the
\* arrays have the places for, it finds the immediate dominators: no mark that
\* an earlier sweep has left misleads it.
THEOREM ForwardOrderIsExact == Spec => [](Analysed /\ ListedForward /\ WithinLimits => TreeIsExact)
<1>1. DominatorsInvariant => (Analysed /\ ListedForward /\ WithinLimits => TreeIsExact)
  BY IdomsAreExact DEF Analysed
<1>. QED
  BY <1>1, Invariance, PTL

(***************************************************************************)
(* The frontiers.                                                          *)
(***************************************************************************)
\* Block c is listed for x by a predecessor that compute_df has come to: those
\* of the joins before b, and the first i of b.
ListedBy(b, i, x, c) ==
  /\ IsJoin(c)
  /\ \E j \in DOMAIN preds[c] : /\ c < b \/ (c = b /\ j <= i)
                                /\ x \in Range(RunnerPath(preds[c][j], c))

ListsJoins(lists, b, i) ==
  /\ lists \in Lists
  /\ \A x \in Blocks(g) :
       /\ Len(lists[x]) <= MAX_DF
       /\ \A c \in Range(lists[x]) : ListedBy(b, i, x, c)
       /\ Len(lists[x]) < MAX_DF => \A c \in Blocks(g) : ListedBy(b, i, x, c) => c \in Range(lists[x])

LEMMA AppendMembers ==
  ASSUME NEW S, NEW s \in Seq(S), NEW e \in S
  PROVE  /\ Append(s, e) \in Seq(S) /\ Len(Append(s, e)) = Len(s) + 1
         /\ \A c : c \in Range(Append(s, e)) <=> c \in Range(s) \/ c = e
<1>. DEFINE t == Append(s, e)
            n == Len(s)
<1>1. /\ n \in Nat /\ DOMAIN s = 1 .. n /\ t \in Seq(S) /\ Len(t) = n + 1 /\ DOMAIN t = 1 .. n + 1
      /\ t[n + 1] = e /\ \A i \in 1 .. n : t[i] = s[i]
  OBVIOUS
<1>. HIDE DEF t, n
<1>2. \A c : c \in Range(t) <=> \E i \in 1 .. n + 1 : t[i] = c
  BY <1>1 DEF Range
<1>3. \A c : c \in Range(s) <=> \E i \in 1 .. n : s[i] = c
  BY <1>1 DEF Range
<1>4. \A i : i \in 1 .. n + 1 <=> i \in 1 .. n \/ i = n + 1
  BY <1>1
<1>5. \A c : c \in Range(t) <=> c \in Range(s) \/ c = e
  BY <1>1, <1>2, <1>3, <1>4
<1>. QED
  BY <1>1, <1>5 DEF t, n

LEMMA AddFrontierTypes ==
  ASSUME NEW lists \in Lists, NEW path, NEW b \in Blocks(g)
  PROVE  /\ AddFrontier(lists, path, b) \in Lists
         /\ \A x \in Blocks(g) :
              AddFrontier(lists, path, b)[x] =
                IF x \in Range(path) /\ Len(lists[x]) < MAX_DF THEN Append(lists[x], b) ELSE lists[x]
<1>1. DOMAIN lists = Blocks(g) /\ \A x \in Blocks(g) : lists[x] \in Seq(Blocks(g))
  BY DEF Lists
<1>2. \A x \in Blocks(g) : Append(lists[x], b) \in Seq(Blocks(g))
  BY <1>1
<1>. QED
  BY <1>1, <1>2 DEF AddFrontier, Lists

LEMMA AddFrontierLists ==
  ASSUME IsGraph(g), preds \in Lists, NEW lists,
         NEW b \in Blocks(g), NEW i \in DOMAIN preds[b], IsJoin(b), ListsJoins(lists, b, i - 1)
  PROVE  ListsJoins(AddFrontier(lists, RunnerPath(preds[b][i], b), b), b, i)
<1>. DEFINE path == RunnerPath(preds[b][i], b)
            more == AddFrontier(lists, path, b)
<1>1. /\ Blocks(g) \subseteq Int /\ MAX_DF \in Nat
      /\ \A c \in Blocks(g) : DOMAIN preds[c] \subseteq Nat
  <2>1. \A c \in Blocks(g) : preds[c] \in Seq(Blocks(g))
    BY DEF Lists
  <2>2. \A c \in Blocks(g) : DOMAIN preds[c] \subseteq Nat
    BY <2>1
  <2>. QED
    BY <2>2, LimitsAssumption DEF IsGraph, Blocks
<1>2. /\ lists \in Lists /\ more \in Lists
      /\ \A x \in Blocks(g) :
           more[x] = IF x \in Range(path) /\ Len(lists[x]) < MAX_DF THEN Append(lists[x], b) ELSE lists[x]
  BY AddFrontierTypes DEF ListsJoins
<1>. HIDE DEF path, more
<1>3. ASSUME NEW x \in Blocks(g), NEW c \in Blocks(g)
      PROVE  ListedBy(b, i, x, c) <=> ListedBy(b, i - 1, x, c) \/ (c = b /\ x \in Range(path))
  <2>1. \A j \in DOMAIN preds[c] : j <= i <=> j <= i - 1 \/ j = i
    BY <1>1
  <2>. QED
    BY <2>1 DEF ListedBy, path
<1>4. \A x \in Blocks(g) : lists[x] \in Seq(Blocks(g))
  BY <1>2 DEF Lists
<1>5. \A x \in Blocks(g) : Range(lists[x]) \subseteq Blocks(g) /\ Len(lists[x]) \in Nat
  BY <1>4 DEF Range
<1>6. ASSUME NEW x \in Blocks(g)
      PROVE  /\ Len(more[x]) <= MAX_DF
             /\ \A c \in Range(more[x]) : ListedBy(b, i, x, c)
             /\ Len(more[x]) < MAX_DF => \A c \in Blocks(g) : ListedBy(b, i, x, c) => c \in Range(more[x])
  <2>1. /\ Len(lists[x]) <= MAX_DF
        /\ \A c \in Range(lists[x]) : ListedBy(b, i - 1, x, c)
        /\ Len(lists[x]) < MAX_DF => \A c \in Blocks(g) : ListedBy(b, i - 1, x, c) => c \in Range(lists[x])
    BY DEF ListsJoins
  <2>2. CASE x \in Range(path) /\ Len(lists[x]) < MAX_DF
    <3>1. /\ more[x] = Append(lists[x], b) /\ Len(more[x]) = Len(lists[x]) + 1
          /\ \A c : c \in Range(more[x]) <=> c \in Range(lists[x]) \/ c = b
      <4>1. lists[x] \in Seq(Blocks(g)) /\ more[x] = Append(lists[x], b)
        BY <1>2, <1>4, <2>2
      <4>. QED
        BY <4>1, AppendMembers
    <3>2. Len(more[x]) <= MAX_DF
      BY <1>1, <1>5, <2>2, <3>1
    <3>3. \A c \in Range(more[x]) : ListedBy(b, i, x, c)
      BY <1>3, <1>5, <2>1, <2>2, <3>1
    <3>4. \A c \in Blocks(g) : ListedBy(b, i, x, c) => c \in Range(more[x])
      BY <1>3, <2>1, <2>2, <3>1
    <3>. QED
      BY <3>2, <3>3, <3>4
  <2>3. CASE ~ (x \in Range(path) /\ Len(lists[x]) < MAX_DF)
    <3>1. more[x] = lists[x]
      BY <1>2, <2>3
    <3>. QED
      BY <1>3, <1>5, <2>1, <2>3, <3>1
  <2>. QED
    BY <2>2, <2>3
<1>7. ListsJoins(more, b, i)
  BY <1>2, <1>6 DEF ListsJoins
<1>. QED
  BY <1>7 DEF more, path

\* After the last predecessor of a block comes the next block.
LEMMA JoinsPassOn ==
  ASSUME IsGraph(g), preds \in Lists, NEW lists, NEW b \in Blocks(g),
         ListsJoins(lists, b, IF IsJoin(b) THEN Len(preds[b]) ELSE 0)
  PROVE  ListsJoins(lists, b + 1, 0)
<1>. DEFINE i == IF IsJoin(b) THEN Len(preds[b]) ELSE 0
<1>1. /\ Blocks(g) \subseteq Int /\ b \in Int
      /\ \A c \in Blocks(g) : DOMAIN preds[c] \subseteq Nat \ {0} /\ preds[c] \in Seq(Blocks(g))
  BY DEF IsGraph, Blocks, Lists
<1>2. IsJoin(b) => \A j \in DOMAIN preds[b] : j <= i
  BY <1>1
<1>. HIDE DEF i
<1>3. ASSUME NEW x, NEW c \in Blocks(g)
      PROVE  ListedBy(b, i, x, c) <=> ListedBy(b + 1, 0, x, c)
  <2>1. \A j \in DOMAIN preds[c] : ~ (j <= 0)
    BY <1>1
  <2>2. c < b + 1 <=> c < b \/ c = b
    BY <1>1
  <2>. QED
    BY <1>2, <2>1, <2>2 DEF ListedBy
<1>4. \A x \in Blocks(g) : Range(lists[x]) \subseteq Blocks(g)
  BY DEF ListsJoins, Lists, Range
<1>5. ListsJoins(lists, b, i)
  BY DEF i
<1>. QED
  BY <1>3, <1>4, <1>5 DEF ListsJoins


LEMMA OfJoinUnfolds ==
  ASSUME preds \in Lists, NEW lists \in Lists, NEW b \in Blocks(g)
  PROVE  \E r \in [0 .. Len(preds[b]) -> Lists] :
           /\ r[0] = lists
           /\ \A i \in 1 .. Len(preds[b]) : r[i] = AddFrontier(r[i - 1], RunnerPath(preds[b][i], b), b)
           /\ OfJoin(lists, b) = r[Len(preds[b])]
<1>. DEFINE n == Len(preds[b])
            More(i, x) == AddFrontier(x, RunnerPath(preds[b][i], b), b)
            turn == [i \in 1 .. n |-> [x \in Lists |-> More(i, x)]]
            Def(r) == r = [i \in 0 .. n |->
                             IF i = 0 THEN lists ELSE AddFrontier(r[i - 1], RunnerPath(preds[b][i], b), b)]
<1>1. n \in Nat
  <2>1. preds[b] \in Seq(Blocks(g))
    BY DEF Lists
  <2>. QED
    BY <2>1
<1>2. \A i : \A x \in Lists : More(i, x) \in Lists
  BY AddFrontierTypes
<1>3. \A i \in 1 .. n : i \in 0 .. n /\ i # 0 /\ i - 1 \in 0 .. n
  BY <1>1
<1>. HIDE DEF n, More
<1>4. Turns(Lists, n, turn)
  BY <1>2 DEF Turns
<1>5. PICK f : IsRun(Lists, lists, n, turn, f)
  <2>. HIDE DEF turn
  <2>. QED
    BY <1>1, <1>4, RunExists
<1>6. \A i \in 1 .. n : f[i] = More(i, f[i - 1])
  <2>. TAKE i \in 1 .. n
  <2>1. f[i - 1] \in Lists /\ f[i] = turn[i][f[i - 1]]
    BY <1>3, <1>5 DEF IsRun
  <2>. QED
    BY <2>1
<1>7. Def(f)
  <2>1. \A i \in 0 .. n : f[i] = IF i = 0 THEN lists ELSE AddFrontier(f[i - 1], RunnerPath(preds[b][i], b), b)
    <3>. TAKE i \in 0 .. n
    <3>1. CASE i = 0
      BY <1>5, <3>1 DEF IsRun
    <3>2. CASE i # 0
      <4>1. i \in 1 .. n
        BY <1>1, <3>2
      <4>. QED
        BY <1>6, <3>2, <4>1 DEF More
    <3>. QED
      BY <3>1, <3>2
  <2>2. f = [i \in 0 .. n |-> f[i]]
    BY <1>5 DEF IsRun
  <2>3. [i \in 0 .. n |-> f[i]]
          = [i \in 0 .. n |-> IF i = 0 THEN lists ELSE AddFrontier(f[i - 1], RunnerPath(preds[b][i], b), b)]
    BY <2>1
  <2>. QED
    BY <2>2, <2>3
<1>8. \E r : Def(r)
  BY <1>7
<1>9. PICK r : Def(r) /\ OfJoin(lists, b) = r[n]
  BY <1>8 DEF OfJoin, n
<1>10. r[0] = lists /\ \A i \in 1 .. n : r[i] = More(i, r[i - 1])
  <2>1. \A i \in 0 .. n : r[i] = IF i = 0 THEN lists ELSE AddFrontier(r[i - 1], RunnerPath(preds[b][i], b), b)
    BY <1>9
  <2>2. 0 \in 0 .. n
    BY <1>1
  <2>. QED
    BY <1>3, <2>1, <2>2 DEF More
<1>11. \A i \in 0 .. n : r[i] \in Lists
  <2>. DEFINE S == {i \in 0 .. n : r[i] \in Lists}
  <2>1. 0 \in S
    BY <1>1, <1>10
  <2>2. ASSUME NEW i \in 1 .. n, i - 1 \in S
        PROVE  i \in S
    BY <1>2, <1>3, <1>10, <2>2
  <2>3. 0 .. n \subseteq S
    <3>. HIDE DEF S
    <3>. QED
      BY <1>1, <2>1, <2>2, UpTo
  <2>. QED
    BY <2>3
<1>12. r \in [0 .. n -> Lists]
  BY <1>9, <1>11
<1>. QED
  BY <1>9, <1>10, <1>12 DEF n, More

LEMMA OfJoinLists ==
  ASSUME IsGraph(g), preds \in Lists, NEW lists, NEW b \in Blocks(g), IsJoin(b), ListsJoins(lists, b, 0)
  PROVE  ListsJoins(OfJoin(lists, b), b, Len(preds[b]))
<1>. DEFINE n == Len(preds[b])
<1>1. n \in Nat /\ DOMAIN preds[b] = 1 .. n
  <2>1. preds[b] \in Seq(Blocks(g))
    BY DEF Lists
  <2>. QED
    BY <2>1
<1>2. lists \in Lists
  BY DEF ListsJoins
<1>3. PICK r \in [0 .. n -> Lists] :
        /\ r[0] = lists
        /\ \A i \in 1 .. n : r[i] = AddFrontier(r[i - 1], RunnerPath(preds[b][i], b), b)
        /\ OfJoin(lists, b) = r[n]
  BY <1>2, OfJoinUnfolds
<1>. DEFINE S == {i \in 0 .. n : ListsJoins(r[i], b, i)}
<1>4. 0 \in S
  BY <1>1, <1>3
<1>5. ASSUME NEW i \in 1 .. n, i - 1 \in S
      PROVE  i \in S
  <2>1. i \in DOMAIN preds[b] /\ ListsJoins(r[i - 1], b, i - 1) /\ i \in 0 .. n
    BY <1>1, <1>5
  <2>2. ListsJoins(AddFrontier(r[i - 1], RunnerPath(preds[b][i], b), b), b, i)
    BY <2>1, AddFrontierLists
  <2>. QED
    BY <1>3, <2>1, <2>2
<1>6. 0 .. n \subseteq S
  <2>. HIDE DEF S, n
  <2>. QED
    BY <1>1, <1>4, <1>5, UpTo
<1>. QED
  BY <1>1, <1>3, <1>6

\* The lists after a block.
AfterBlock(b, lists) == IF IsJoin(b) THEN OfJoin(lists, b) ELSE lists

LEMMA FrontiersUnfold ==
  ASSUME IsGraph(g), N = g.n, preds \in Lists
  PROVE  \E r \in [0 .. N -> Lists] :
           /\ r[0] = [b \in Blocks(g) |-> << >>]
           /\ \A k \in 1 .. N : r[k] = AfterBlock(k - 1, r[k - 1])
           /\ Frontiers = r[N]
<1>. DEFINE n == N
            v == [b \in 0 .. N - 1 |-> << >>]
            turn == [k \in 1 .. n |-> [x \in Lists |-> AfterBlock(k - 1, x)]]
            Def(r) == r = [k \in 0 .. n |->
                             IF k = 0 THEN v
                             ELSE IF IsJoin(k - 1) THEN OfJoin(r[k - 1], k - 1) ELSE r[k - 1]]
<1>1. n \in Nat /\ Blocks(g) = 0 .. N - 1 /\ v = [b \in Blocks(g) |-> << >>]
  BY DEF IsGraph, Blocks
<1>2. v \in Lists
  <2>1. << >> \in Seq(Blocks(g))
    OBVIOUS
  <2>. QED
    BY <1>1, <2>1 DEF Lists
<1>3. \A k \in 1 .. n : k \in 0 .. n /\ k # 0 /\ k - 1 \in 0 .. n /\ k - 1 \in Blocks(g)
  BY <1>1
<1>4. ASSUME NEW k \in 1 .. n, NEW x \in Lists
      PROVE  AfterBlock(k - 1, x) \in Lists
  <2>. DEFINE b == k - 1
  <2>1. b \in Blocks(g)
    BY <1>3
  <2>. HIDE DEF b
  <2>2. preds[b] \in Seq(Blocks(g))
    BY <2>1 DEF Lists
  <2>3. Len(preds[b]) \in 0 .. Len(preds[b])
    BY <2>2
  <2>4. OfJoin(x, b) \in Lists
    BY <2>1, <2>3, OfJoinUnfolds
  <2>. QED
    BY <2>4 DEF AfterBlock, b
<1>. HIDE DEF n, v
<1>5. Turns(Lists, n, turn)
  BY <1>4 DEF Turns
<1>6. PICK f : IsRun(Lists, v, n, turn, f)
  <2>. HIDE DEF turn
  <2>. QED
    BY <1>1, <1>2, <1>5, RunExists
<1>7. \A k \in 1 .. n : f[k] = AfterBlock(k - 1, f[k - 1])
  <2>. TAKE k \in 1 .. n
  <2>1. f[k - 1] \in Lists /\ f[k] = turn[k][f[k - 1]]
    BY <1>3, <1>6 DEF IsRun
  <2>. QED
    BY <2>1
<1>8. Def(f)
  <2>1. \A k \in 0 .. n : f[k] = IF k = 0 THEN v
                             ELSE IF IsJoin(k - 1) THEN OfJoin(f[k - 1], k - 1) ELSE f[k - 1]
    <3>. TAKE k \in 0 .. n
    <3>1. CASE k = 0
      BY <1>6, <3>1 DEF IsRun
    <3>2. CASE k # 0
      <4>1. k \in 1 .. n
        BY <1>1, <3>2
      <4>. QED
        BY <1>7, <3>2, <4>1 DEF AfterBlock
    <3>. QED
      BY <3>1, <3>2
  <2>2. f = [k \in 0 .. n |-> f[k]]
    BY <1>6 DEF IsRun
  <2>3. [k \in 0 .. n |-> f[k]] =
          [k \in 0 .. n |-> IF k = 0 THEN v
                             ELSE IF IsJoin(k - 1) THEN OfJoin(f[k - 1], k - 1) ELSE f[k - 1]]
    BY <2>1
  <2>. QED
    BY <2>2, <2>3
<1>9. \E r : Def(r)
  BY <1>8
<1>10. PICK r : Def(r) /\ Frontiers = r[n]
  BY <1>9 DEF Frontiers, n, v
<1>11. r[0] = v /\ \A k \in 1 .. n : r[k] = AfterBlock(k - 1, r[k - 1])
  <2>1. \A k \in 0 .. n : r[k] = IF k = 0 THEN v
                             ELSE IF IsJoin(k - 1) THEN OfJoin(r[k - 1], k - 1) ELSE r[k - 1]
    BY <1>10
  <2>2. 0 \in 0 .. n
    BY <1>1
  <2>. QED
    BY <1>3, <2>1, <2>2 DEF AfterBlock
<1>12. \A k \in 0 .. n : r[k] \in Lists
  <2>. DEFINE S == {k \in 0 .. n : r[k] \in Lists}
  <2>1. 0 \in S
    BY <1>1, <1>2, <1>11
  <2>2. ASSUME NEW k \in 1 .. n, k - 1 \in S
        PROVE  k \in S
    BY <1>3, <1>4, <1>11, <2>2
  <2>3. 0 .. n \subseteq S
    <3>. HIDE DEF S
    <3>. QED
      BY <1>1, <2>1, <2>2, UpTo
  <2>. QED
    BY <2>3
<1>13. r \in [0 .. n -> Lists]
  BY <1>10, <1>12
<1>. QED
  BY <1>1, <1>10, <1>11, <1>13 DEF n

LEMMA FrontiersListJoins ==
  ASSUME IsGraph(g), N = g.n, preds \in Lists
  PROVE  ListsJoins(Frontiers, N, 0)
<1>1. PICK r \in [0 .. N -> Lists] :
        /\ r[0] = [b \in Blocks(g) |-> << >>]
        /\ \A k \in 1 .. N : r[k] = AfterBlock(k - 1, r[k - 1])
        /\ Frontiers = r[N]
  BY FrontiersUnfold
<1>2. N \in Nat /\ Blocks(g) = 0 .. N - 1 /\ MAX_DF \in Nat
  BY LimitsAssumption DEF IsGraph, Blocks
<1>. DEFINE S == {k \in 0 .. N : ListsJoins(r[k], k, 0)}
<1>3. 0 \in S
  <2>1. 0 \in 0 .. N /\ r[0] \in Lists /\ \A x \in Blocks(g) : r[0][x] = << >>
    BY <1>1, <1>2
  <2>2. ASSUME NEW x \in Blocks(g), NEW c \in Blocks(g)
        PROVE  ~ ListedBy(0, 0, x, c)
    <3>1. \A j \in DOMAIN preds[c] : ~ (j <= 0)
      <4>1. preds[c] \in Seq(Blocks(g))
        BY DEF Lists
      <4>. QED
        BY <4>1
    <3>2. ~ (c < 0)
      BY <1>2
    <3>. QED
      BY <3>1, <3>2 DEF ListedBy
  <2>3. \A x \in Blocks(g) : Len(r[0][x]) <= MAX_DF /\ Range(r[0][x]) = {}
    <3>1. Len(<< >>) = 0 /\ Range(<< >>) = {}
      BY DEF Range
    <3>. QED
      BY <1>2, <2>1, <3>1
  <2>4. ListsJoins(r[0], 0, 0)
    BY <2>1, <2>2, <2>3 DEF ListsJoins
  <2>. QED
    BY <2>1, <2>4
<1>4. ASSUME NEW k \in 1 .. N, k - 1 \in S
      PROVE  k \in S
  <2>. DEFINE b == k - 1
  <2>1. b \in Blocks(g) /\ b + 1 = k /\ k \in 0 .. N /\ ListsJoins(r[b], b, 0)
    BY <1>2, <1>4
  <2>2. r[k] = AfterBlock(b, r[b])
    BY <1>1
  <2>. HIDE DEF b
  <2>3. ListsJoins(r[k], b, IF IsJoin(b) THEN Len(preds[b]) ELSE 0)
    BY <2>1, <2>2, OfJoinLists DEF AfterBlock
  <2>4. ListsJoins(r[k], b + 1, 0)
    BY <2>1, <2>3, JoinsPassOn
  <2>. QED
    BY <2>1, <2>4
<1>5. 0 .. N \subseteq S
  <2>. HIDE DEF S
  <2>. QED
    BY <1>2, <1>3, <1>4, UpTo
<1>. QED
  BY <1>1, <1>2, <1>5


\* Once computed the frontiers stay.
FrontiersComputed == pc \notin {"collect", "sweep", "frontier"} => df = Frontiers

LEMMA FrontiersStay ==
  ASSUME g' = g, preds' = preds, idom' = idom
  PROVE  Frontiers' = Frontiers
BY DEF Frontiers, OfJoin, AddFrontier, IsJoin, RunnerPath, Ancestors, Above, N

LEMMA FrontiersComputedInvariant == Spec => []FrontiersComputed
<1>1. Init => FrontiersComputed
  BY DEF Init, AnalysisInit, FrontiersComputed
<1>2. FrontiersComputed /\ [Next]_vars => FrontiersComputed'
  <2>. SUFFICES ASSUME FrontiersComputed, [Next]_vars
                PROVE  FrontiersComputed'
    OBVIOUS
  <2>1. ASSUME UNCHANGED analysis, pc \in {"collect", "sweep", "frontier"} => pc' = pc
        PROVE  FrontiersComputed'
    <3>1. g' = g /\ preds' = preds /\ idom' = idom /\ df' = df
      BY <2>1 DEF analysis
    <3>. QED
      BY <2>1, <3>1, FrontiersStay DEF FrontiersComputed
  <2>2. CASE CollectBlocks
    BY <2>2 DEF CollectBlocks, FrontiersComputed
  <2>3. CASE VisitBlock
    BY <2>3 DEF VisitBlock, FrontiersComputed
  <2>4. CASE EndSweep
    BY <2>4 DEF EndSweep, FrontiersComputed
  <2>5. CASE ComputeDF
    <3>1. df' = Frontiers /\ g' = g /\ preds' = preds /\ idom' = idom
      BY <2>5 DEF ComputeDF
    <3>. QED
      BY <3>1, FrontiersStay DEF FrontiersComputed
  <2>6. CASE AnalysisStep
    BY <2>2, <2>3, <2>4, <2>5, <2>6 DEF AnalysisStep, Analyse
  <2>7. CASE PromoteOne
    BY <2>1, <2>7 DEF PromoteOne
  <2>8. CASE PromotionEnds
    BY <2>1, <2>8 DEF PromotionEnds
  <2>9. CASE RenameBlock
    BY <2>1, <2>9 DEF RenameBlock
  <2>10. CASE RenameEnds
    BY <2>1, <2>10 DEF RenameEnds
  <2>11. CASE RemoveDead
    BY <2>1, <2>11 DEF RemoveDead
  <2>12. CASE RunBlock
    BY <2>1, <2>12 DEF RunBlock
  <2>13. CASE UNCHANGED vars
    BY <2>1, <2>13 DEF vars, analysis
  <2>. QED
    BY <2>6, <2>7, <2>8, <2>9, <2>10, <2>11, <2>12, <2>13 DEF Next, Finished
<1>. QED
  BY <1>1, <1>2, PTL DEF Spec

=============================================================================

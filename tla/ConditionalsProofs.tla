------------------------- MODULE ConditionalsProofs -------------------------
(***************************************************************************)
(* What the conditional stack keeps for every stack size and every nesting *)
(* of the source: the safety properties of Conditionals, proved by one     *)
(* inductive invariant.                                                    *)
(***************************************************************************)
EXTENDS Conditionals, SequenceTheorems, TLAPS

(***************************************************************************)
(* The C side of the invariant: a selected branch lies in selected ones, a *)
(* group with a selected branch is taken, a late one has ended.            *)
(***************************************************************************)
GroupsInv ==
  \A i \in 1 .. Len(groups) :
    /\ groups[i].open => groups[i].taken
    /\ groups[i].late => groups[i].taken /\ ~groups[i].open
    /\ \A j \in 1 .. i : groups[i].open => groups[j].open

\* Entry by entry, the stack agrees with the groups while none is late.
LevelsAgree ==
  ~overflow =>
    \A i \in 1 .. Len(groups) :
      (\A j \in 1 .. i : ~groups[j].late)
        => (groups[i].open <=> cs.states[i - 1] = "TAKING")

\* Dropped or not, every entry of the stack belongs to a group still open.
DepthWithinNesting == cs.depth <= Len(groups)

IInv == /\ TypeOK
        /\ DepthWithinNesting
        /\ DepthIsNesting
        /\ SkippingIsInherited
        /\ GroupsInv
        /\ LevelsAgree

(***************************************************************************)
(* The operators of pp_cond.c keep the array and its bounds.               *)
(***************************************************************************)

\* cond_push never writes outside the array.
LEMMA PushType ==
  ASSUME NEW s \in CondStacks, NEW b \in BOOLEAN
  PROVE  cond_push(s, b) \in CondStacks
BY CondStackMaxAssumption DEF cond_push, CondStacks, CondState

\* cond_else and cond_elif rewrite an entry that exists.
LEMMA BranchType ==
  ASSUME NEW s \in CondStacks, NEW b \in BOOLEAN
  PROVE  NextBranch(s, b) \in CondStacks
BY CondStackMaxAssumption DEF NextBranch, CondStacks, CondState

\* cond_endif never goes below the bottom.
LEMMA EndifType ==
  ASSUME NEW s \in CondStacks
  PROVE  cond_endif(s) \in CondStacks
BY CondStackMaxAssumption DEF cond_endif, CondStacks, CondState

(***************************************************************************)
(* The groups of the source.                                               *)
(***************************************************************************)

\* A branch line changes the innermost group only, and leaves its nesting.
LEMMA BranchGroups ==
  ASSUME NEW gs \in Seq(Group), gs # << >>, NEW c \in BOOLEAN, NEW e \in BOOLEAN
  PROVE  /\ Branch(gs, c, e) \in Seq(Group)
         /\ Len(Branch(gs, c, e)) = Len(gs)
         /\ \A i \in 1 .. Len(gs) - 1 : Branch(gs, c, e)[i] = gs[i]
         /\ LET n == Len(gs)
                g == gs[n]
                b == Branch(gs, c, e)[n]
                sel == (\A i \in 1 .. n - 1 : gs[i].open) /\ ~g.taken /\ c
            IN  /\ b.open <=> sel
                /\ b.taken <=> (g.taken \/ sel)
                /\ b.late <=> (g.late \/ (g.taken /\ ~g.open))
<1> DEFINE n == Len(gs)
           g == gs[n]
           sel == Active(Enclosing(gs)) /\ ~g.taken /\ c
           r == [taken |-> g.taken \/ sel, open |-> sel, else |-> g.else \/ e,
                 late  |-> g.late \/ (g.taken /\ ~g.open)]
<1>1. /\ n \in Nat \ {0}
      /\ g \in Group
  OBVIOUS
<1>2. Active(Enclosing(gs)) <=> \A i \in 1 .. n - 1 : gs[i].open
  BY <1>1 DEF Active, Enclosing
<1>3. r \in Group
  BY <1>1 DEF Group, Active
<1>4. Branch(gs, c, e) = [gs EXCEPT ![n] = r]
  BY DEF Branch
<1> HIDE DEF r
<1>5. /\ Branch(gs, c, e) \in Seq(Group)
      /\ Len(Branch(gs, c, e)) = n
      /\ \A i \in 1 .. n - 1 : Branch(gs, c, e)[i] = gs[i]
      /\ Branch(gs, c, e)[n] = r
  BY <1>1, <1>3, <1>4
<1>6. /\ r.open <=> sel
      /\ r.taken <=> (g.taken \/ sel)
      /\ r.late <=> (g.late \/ (g.taken /\ ~g.open))
  BY DEF r
<1> QED
  BY <1>1, <1>2, <1>5, <1>6

\* A source line that opens a group adds one record and changes no other.
LEMMA OpenGroups ==
  ASSUME NEW gs \in Seq(Group), NEW c \in BOOLEAN
  PROVE  /\ OpenGroup(gs, c) \in Seq(Group)
         /\ Len(OpenGroup(gs, c)) = Len(gs) + 1
         /\ \A i \in 1 .. Len(gs) : OpenGroup(gs, c)[i] = gs[i]
         /\ LET b == OpenGroup(gs, c)[Len(gs) + 1]
            IN  /\ b.open = ((\A i \in 1 .. Len(gs) : gs[i].open) /\ c)
                /\ b.taken = b.open
                /\ b.late = FALSE
<1> DEFINE r == [taken |-> Active(gs) /\ c, open |-> Active(gs) /\ c,
                 else  |-> FALSE, late |-> FALSE]
<1>1. r \in Group
  BY DEF Group, Active
<1>2. /\ r.open = ((\A i \in 1 .. Len(gs) : gs[i].open) /\ c)
      /\ r.taken = r.open
      /\ r.late = FALSE
  BY DEF Active
<1> HIDE DEF r
<1>3. OpenGroup(gs, c) = Append(gs, r)
  BY DEF OpenGroup, r
<1> QED
  BY <1>1, <1>2, <1>3

\* #endif forgets the innermost group and keeps the others.
LEMMA EnclosingGroups ==
  ASSUME NEW gs \in Seq(Group), gs # << >>
  PROVE  /\ Enclosing(gs) \in Seq(Group)
         /\ Len(Enclosing(gs)) = Len(gs) - 1
         /\ \A i \in 1 .. Len(gs) - 1 : Enclosing(gs)[i] = gs[i]
<1>1. Len(gs) \in Nat \ {0} /\ \A i \in 1 .. Len(gs) : gs[i] \in Group
  OBVIOUS
<1>2. \A i \in 1 .. Len(gs) - 1 : gs[i] \in Group
  BY <1>1
<1> DEFINE k == Len(gs) - 1
<1>3. /\ SubSeq(gs, 1, k) \in Seq(Group)
      /\ Len(SubSeq(gs, 1, k)) = IF 1 <= k THEN k - 1 + 1 ELSE 0
      /\ \A i \in 1 .. k - 1 + 1 : SubSeq(gs, 1, k)[i] = gs[1 + i - 1]
  <2>1. 1 \in Int /\ k \in Int
    BY <1>1
  <2>2. \A i \in 1 .. k : gs[i] \in Group
    BY <1>2
  <2> HIDE DEF k
  <2> QED
    BY <2>1, <2>2, SubSeqProperties
<1>4. k \in Nat /\ k - 1 + 1 = k /\ \A i \in 1 .. k : 1 + i - 1 = i
  BY <1>1
<1>5. (IF 1 <= k THEN k - 1 + 1 ELSE 0) = k
  BY <1>4
<1> QED
  BY <1>3, <1>4, <1>5 DEF Enclosing

(***************************************************************************)
(* Each directive keeps the invariant.                                     *)
(***************************************************************************)

\* Opening a group: recorded with the state C gives it, or dropped with
\* `overflow' set.
LEMMA IfStep ==
  ASSUME IInv, NEW c \in BOOLEAN, If(c)
  PROVE  IInv'
<1> USE CondStackMaxAssumption DEF IInv, TypeOK
<1> DEFINE n == Len(groups)
<1>1. /\ cs' = cond_push(cs, c)
      /\ groups' = OpenGroup(groups, c)
      /\ overflow' = (overflow \/ cs.depth >= CondStackMax)
  BY DEF If
<1>2. TypeOK'
  BY <1>1, PushType, OpenGroups
<1>3. /\ Len(groups') = n + 1
      /\ \A i \in 1 .. n : groups'[i] = groups[i]
      /\ groups'[n + 1].open = ((\A i \in 1 .. n : groups[i].open) /\ c)
      /\ groups'[n + 1].taken = groups'[n + 1].open
      /\ groups'[n + 1].late = FALSE
  BY <1>1, OpenGroups
<1>4. GroupsInv'
  <2>1. n \in Nat
    OBVIOUS
  <2>2. ASSUME NEW i \in 1 .. n
        PROVE  /\ groups'[i].open => groups'[i].taken
               /\ groups'[i].late => groups'[i].taken /\ ~groups'[i].open
               /\ \A j \in 1 .. i : groups'[i].open => groups'[j].open
    BY <1>3, <2>1, <2>2 DEF GroupsInv
  <2>3. ASSUME NEW j \in 1 .. n + 1
        PROVE  groups'[n + 1].open => groups'[j].open
    <3>1. CASE j = n + 1
      BY <3>1
    <3>2. CASE j \in 1 .. n
      BY <1>3, <3>2
    <3> QED
      BY <2>1, <3>1, <3>2
  <2> QED
    BY <1>3, <2>1, <2>2, <2>3 DEF GroupsInv
<1>5. CASE cs.depth >= CondStackMax
  <2>1. cs' = cs /\ overflow'
    BY <1>1, <1>5 DEF cond_push
  <2> QED
    BY <1>2, <1>3, <1>4, <2>1
       DEF DepthWithinNesting, DepthIsNesting, SkippingIsInherited, LevelsAgree, CondStacks
<1>6. CASE ~(cs.depth >= CondStackMax)
  <2>1. /\ cs'.depth = cs.depth + 1
        /\ \A i \in 0 .. cs.depth - 1 : cs'.states[i] = cs.states[i]
        /\ cs'.states[cs.depth] = IF cond_is_skipping(cs) \/ ~c THEN "SKIPPING" ELSE "TAKING"
        /\ overflow' = overflow
    BY <1>1, <1>6 DEF cond_push, CondStacks
  <2>2. cs.depth \in Nat /\ \A i \in 0 .. cs.depth - 1 : cs.states[i] \in CondState
    BY DEF CondStacks
  <2>3. DepthIsNesting' /\ DepthWithinNesting'
    BY <1>3, <2>1, <2>2 DEF DepthIsNesting, DepthWithinNesting
  <2>4. SkippingIsInherited'
    BY <2>1, <2>2 DEF SkippingIsInherited, cond_is_skipping
  <2>5. ASSUME ~overflow, NEW i \in 1 .. n + 1, \A j \in 1 .. i : ~(groups'[j].late)
        PROVE  groups'[i].open <=> cs'.states[i - 1] = "TAKING"
    <3>1. cs.depth = n /\ n \in Nat
      BY <2>5 DEF DepthIsNesting
    <3>2. CASE i \in 1 .. n
      BY <1>3, <2>1, <2>5, <3>1, <3>2 DEF LevelsAgree
    <3>3. CASE i = n + 1
      <4>1. \A k \in 1 .. n : groups[k].open <=> cs.states[k - 1] = "TAKING"
        <5>1. \A k \in 1 .. n : ~groups[k].late
          BY <1>3, <2>5, <3>1, <3>3
        <5> QED
          BY <2>5, <5>1, <3>1 DEF LevelsAgree
      <4>2. cond_is_skipping(cs) <=> \E k \in 1 .. n : ~groups[k].open
        <5>1. ASSUME NEW k \in 0 .. n - 1
              PROVE  cs.states[k] = "SKIPPING" <=> ~groups[k + 1].open
          BY <2>2, <3>1, <4>1 DEF CondState
        <5>2. ASSUME NEW k \in 1 .. n
              PROVE  cs.states[k - 1] = "SKIPPING" <=> ~groups[k].open
          BY <2>2, <3>1, <4>1 DEF CondState
        <5> QED
          BY <3>1, <5>1, <5>2 DEF cond_is_skipping
      <4>3. groups'[i].open <=> ~cond_is_skipping(cs) /\ c
        BY <1>3, <3>3, <4>2
      <4>4. cs'.states[i - 1] = IF cond_is_skipping(cs) \/ ~c THEN "SKIPPING" ELSE "TAKING"
        BY <2>1, <3>1, <3>3
      <4> QED
        BY <4>3, <4>4
    <3> QED
      BY <3>1, <3>2, <3>3
  <2>6. LevelsAgree'
    BY <1>3, <2>1, <2>5 DEF LevelsAgree
  <2> QED
    BY <1>2, <1>4, <2>3, <2>4, <2>6
<1> QED
  BY <1>5, <1>6

\* #endif: entry and group go together, and what was below them stays.
LEMMA EndifStep ==
  ASSUME IInv, Endif
  PROVE  IInv'
<1> USE CondStackMaxAssumption DEF IInv, TypeOK
<1>1. /\ cs' = cond_endif(cs)
      /\ cs'.states = cs.states
      /\ cs.depth \in Nat
      /\ cs'.depth = IF cs.depth = 0 THEN 0 ELSE cs.depth - 1
  BY DEF Endif, cond_endif, CondStacks
<1>2. SkippingIsInherited'
  BY <1>1 DEF SkippingIsInherited
<1>3. overflow' = (overflow /\ Len(groups) > 1)
  BY DEF Endif
<1>4. CASE groups = << >>
  <2>1. groups' = groups /\ cs.depth = 0
    BY <1>1, <1>4 DEF Endif, DepthWithinNesting
  <2>2. TypeOK'
    BY <1>1, <1>3, <2>1, EndifType
  <2>3. Len(groups') = 0
    BY <1>4, <2>1
  <2> QED
    BY <1>1, <1>2, <2>1, <2>2, <2>3
       DEF GroupsInv, DepthWithinNesting, DepthIsNesting, LevelsAgree
<1>5. CASE groups # << >>
  <2> DEFINE n == Len(groups)
  <2>1. groups' = Enclosing(groups)
    BY <1>5 DEF Endif
  <2>2. /\ n \in Nat \ {0}
        /\ Len(groups') = n - 1
        /\ \A i \in 1 .. n - 1 : groups'[i] = groups[i]
    BY <1>5, <2>1, EnclosingGroups
  <2>3. TypeOK'
    BY <1>1, <1>3, <1>5, <2>1, EndifType, EnclosingGroups
  <2>4. GroupsInv'
    BY <2>2 DEF GroupsInv
  <2>5. DepthWithinNesting' /\ DepthIsNesting'
    BY <1>1, <1>3, <2>2 DEF DepthWithinNesting, DepthIsNesting
  <2>6. LevelsAgree'
    <3>1. CASE n = 1
      BY <2>2, <3>1 DEF LevelsAgree
    <3>2. CASE n > 1
      <4> SUFFICES ASSUME ~overflow', NEW i \in 1 .. n - 1,
                          \A j \in 1 .. i : ~(groups'[j].late)
                   PROVE  groups'[i].open <=> cs'.states[i - 1] = "TAKING"
        BY <2>2 DEF LevelsAgree
      <4>1. ~overflow /\ i \in 1 .. n
        BY <1>3, <2>2, <3>2
      <4>2. \A j \in 1 .. i : ~groups[j].late
        BY <2>2
      <4>3. groups[i].open <=> cs.states[i - 1] = "TAKING"
        BY <4>1, <4>2 DEF LevelsAgree
      <4> QED
        BY <1>1, <2>2, <4>3
    <3> QED
      BY <2>2, <3>1, <3>2
  <2> QED
    BY <1>2, <2>3, <2>4, <2>5, <2>6
<1> QED
  BY <1>4, <1>5

\* #elif and #else: both sides move in the innermost group alone.
LEMMA BranchStep ==
  ASSUME IInv, NEW c \in BOOLEAN, NEW e \in BOOLEAN,
         cs' = NextBranch(cs, c),
         groups' = IF groups = << >> THEN groups ELSE Branch(groups, c, e),
         UNCHANGED overflow
  PROVE  IInv'
<1> USE CondStackMaxAssumption DEF IInv, TypeOK
<1>1. CASE groups = << >>
  <2>1. cs.depth = 0 /\ cs' = cs /\ groups' = groups
    BY <1>1 DEF DepthWithinNesting, NextBranch, CondStacks
  <2> QED
    BY <2>1 DEF DepthWithinNesting, DepthIsNesting, SkippingIsInherited, GroupsInv, LevelsAgree
<1>2. CASE groups # << >>
  <2> DEFINE n == Len(groups)
             sel == (\A i \in 1 .. n - 1 : groups[i].open) /\ ~groups[n].taken /\ c
  <2>1. groups' = Branch(groups, c, e)
    BY <1>2
  <2>2. /\ n \in Nat \ {0}
        /\ Len(groups') = n
        /\ \A i \in 1 .. n - 1 : groups'[i] = groups[i]
        /\ groups'[n].open <=> sel
        /\ groups'[n].taken <=> (groups[n].taken \/ sel)
        /\ groups'[n].late <=> (groups[n].late \/ (groups[n].taken /\ ~groups[n].open))
    <3>1. groups \in Seq(Group) /\ n \in Nat \ {0}
      BY <1>2
    <3> DEFINE b == Branch(groups, c, e)
    <3>2. /\ Len(b) = Len(groups)
          /\ \A i \in 1 .. Len(groups) - 1 : b[i] = groups[i]
          /\ LET m == Len(groups)
                 g == groups[m]
                 on == (\A i \in 1 .. m - 1 : groups[i].open) /\ ~g.taken /\ c
             IN  /\ b[m].open <=> on
                 /\ b[m].taken <=> (g.taken \/ on)
                 /\ b[m].late <=> (g.late \/ (g.taken /\ ~g.open))
      BY <1>2, <3>1, BranchGroups, ZenonT(60)
    <3> HIDE DEF b
    <3> QED
      BY <2>1, <3>1, <3>2 DEF b
  <2>3. \A i \in 1 .. n : groups[i] \in Group
    BY <2>2
  <2>4. TypeOK'
    BY <1>2, <2>1, BranchGroups, BranchType
  <2>5. GroupsInv'
    <3>1. groups[n].open \in BOOLEAN /\ groups[n].taken \in BOOLEAN
      BY <2>2, <2>3 DEF Group
    <3>2. ASSUME NEW i \in 1 .. n, i # n
          PROVE  /\ groups'[i].open => groups'[i].taken
                 /\ groups'[i].late => groups'[i].taken /\ ~groups'[i].open
                 /\ \A j \in 1 .. i : groups'[i].open => groups'[j].open
      BY <2>2, <3>2 DEF GroupsInv
    <3>3. /\ groups'[n].open => groups'[n].taken
          /\ groups'[n].late => groups'[n].taken /\ ~groups'[n].open
          /\ \A j \in 1 .. n : groups'[n].open => groups'[j].open
      <4>1. /\ groups[n].open => groups[n].taken
            /\ groups[n].late => groups[n].taken /\ ~groups[n].open
        BY <2>2 DEF GroupsInv
      <4>2. ASSUME NEW j \in 1 .. n, sel PROVE groups'[j].open
        <5>1. CASE j = n
          BY <2>2, <4>2, <5>1
        <5>2. CASE j # n
          <6>1. j \in 1 .. n - 1
            BY <2>2, <5>2
          <6>2. groups'[j] = groups[j] /\ groups[j].open
            BY <2>2, <4>2, <6>1
          <6> QED
            BY <6>2
        <5> QED
          BY <5>1, <5>2
      <4> QED
        BY <2>2, <3>1, <4>1, <4>2
    <3> QED
      BY <2>2, <3>2, <3>3 DEF GroupsInv
  <2>6. CASE cs.depth = 0
    <3>1. cs' = cs /\ overflow
      BY <2>2, <2>6 DEF NextBranch, DepthIsNesting
    <3> QED
      BY <2>2, <2>4, <2>5, <2>6, <3>1
         DEF DepthWithinNesting, DepthIsNesting, SkippingIsInherited, LevelsAgree
  <2>7. CASE cs.depth # 0
    <3> DEFINE d == cs.depth - 1
    <3>1. /\ cs'.depth = cs.depth
          /\ cs.depth \in Nat /\ d \in Nat
          /\ \A i \in 0 .. d - 1 : cs'.states[i] = cs.states[i]
          /\ cs'.states[d] = IF cs.states[d] = "TAKING" THEN "SKIPPING"
                            ELSE IF ~ancestor_skipping(cs) /\ c THEN "TAKING"
                            ELSE cs.states[d]
          /\ \A i \in 0 .. d : cs.states[i] \in CondState
      BY <2>7 DEF NextBranch, CondStacks
    <3>2. ancestor_skipping(cs) <=> \E i \in 0 .. d - 1 : cs.states[i] = "SKIPPING"
      <4>1. 0 .. cs.depth - 2 = 0 .. d - 1
        BY <3>1
      <4> QED
        BY <4>1 DEF ancestor_skipping
    <3>3. SkippingIsInherited'
      BY <3>1, <3>2 DEF SkippingIsInherited, CondState
    <3>4. DepthWithinNesting' /\ DepthIsNesting'
      BY <2>2, <3>1 DEF DepthWithinNesting, DepthIsNesting
    <3>5. ASSUME ~overflow, NEW i \in 1 .. n, \A j \in 1 .. i : ~(groups'[j].late)
          PROVE  groups'[i].open <=> cs'.states[i - 1] = "TAKING"
      <4>1. cs.depth = n /\ d = n - 1
        BY <3>5 DEF DepthIsNesting
      <4>2. \A k \in 1 .. i : groups[k].open <=> cs.states[k - 1] = "TAKING"
        <5>1. ASSUME NEW k \in 1 .. i
              PROVE  ~groups[k].late
          <6>1. k \in 1 .. n /\ ~groups'[k].late
            BY <2>2, <3>5
          <6>2. CASE k = n
            BY <2>2, <6>1, <6>2
          <6>3. CASE k # n
            BY <2>2, <6>1, <6>3
          <6> QED
            BY <6>2, <6>3
        <5> QED
          BY <2>2, <3>5, <5>1 DEF LevelsAgree
      <4>3. CASE i # n
        <5>1. i \in 1 .. n - 1 /\ i - 1 \in 0 .. d - 1
          BY <2>2, <4>1, <4>3
        <5>2. groups'[i] = groups[i]
          BY <2>2, <5>1
        <5>3. cs'.states[i - 1] = cs.states[i - 1]
          BY <3>1, <5>1
        <5> QED
          BY <4>2, <5>1, <5>2, <5>3
      <4>4. CASE i = n
        <5>1. ancestor_skipping(cs) <=> \E k \in 1 .. n - 1 : ~groups[k].open
          <6>1. ASSUME NEW k \in 1 .. n - 1
                PROVE  cs.states[k - 1] = "SKIPPING" <=> ~groups[k].open
            <7>1. k \in 1 .. i /\ k - 1 \in 0 .. d
              BY <2>2, <4>1, <4>4
            <7>2. groups[k].open <=> cs.states[k - 1] = "TAKING"
              BY <4>2, <7>1
            <7>3. cs.states[k - 1] \in CondState
              BY <3>1, <7>1
            <7> QED
              BY <7>2, <7>3 DEF CondState
          <6>2. ASSUME NEW k \in 0 .. n - 2
                PROVE  cs.states[k] = "SKIPPING" <=> ~groups[k + 1].open
            <7>1. k + 1 \in 1 .. n - 1 /\ (k + 1) - 1 = k
              BY <2>2
            <7> QED
              BY <6>1, <7>1
          <6> QED
            BY <2>2, <3>2, <4>1, <6>1, <6>2
        <5>2. groups[n].open => groups[n].taken
          BY <2>2 DEF GroupsInv
        <5>3. groups[n].taken => groups[n].open
          BY <2>2, <3>5, <4>4
        <5> QED
          BY <2>2, <3>1, <4>1, <4>2, <4>4, <5>1, <5>2, <5>3 DEF CondState
      <4> QED
        BY <4>3, <4>4
    <3>6. LevelsAgree'
      BY <2>2, <3>5 DEF LevelsAgree
    <3> QED
      BY <2>4, <2>5, <3>3, <3>4, <3>6
  <2> QED
    BY <2>6, <2>7
<1> QED
  BY <1>1, <1>2

(***************************************************************************)
(* The theorems.                                                           *)
(***************************************************************************)

\* The invariant is inductive.
LEMMA Inductive == Spec => []IInv
<1>1. Init => IInv
  <2> SUFFICES ASSUME Init PROVE IInv
    OBVIOUS
  <2>1. cs.depth = 0 /\ cs \in CondStacks /\ groups = << >> /\ Len(groups) = 0
        /\ overflow = FALSE
    BY CondStackMaxAssumption DEF Init, cond_init, CondStacks, CondState
  <2>2. TypeOK
    <3>1. << >> \in Seq(Group)
      OBVIOUS
    <3> QED
      BY <2>1, <3>1 DEF TypeOK
  <2> QED
    BY <2>1, <2>2 DEF IInv, DepthWithinNesting, DepthIsNesting,
                     SkippingIsInherited, GroupsInv, LevelsAgree
<1>2. IInv /\ [Next]_vars => IInv'
  <2> SUFFICES ASSUME IInv, [Next]_vars PROVE IInv'
    OBVIOUS
  <2>1. ASSUME NEW c \in BOOLEAN, If(c) PROVE IInv'
    BY <2>1, IfStep
  <2>2. ASSUME NEW c \in BOOLEAN, Elif(c) PROVE IInv'
    BY <2>2, BranchStep DEF Elif, cond_elif
  <2>3. CASE Else
    BY <2>3, BranchStep DEF Else, cond_else
  <2>4. CASE Endif
    BY <2>4, EndifStep
  <2>5. CASE UNCHANGED vars
    BY <2>5 DEF vars, IInv, TypeOK, DepthWithinNesting, DepthIsNesting,
                SkippingIsInherited, GroupsInv, LevelsAgree
  <2> QED
    BY <2>1, <2>2, <2>3, <2>4, <2>5 DEF Next
<1> QED
  BY <1>1, <1>2, PTL DEF Spec

\* Whatever directives a source holds, in whatever order, the depth stays
\* inside the array of pp_cond.c.
THEOREM StackTypeCorrect == Spec => []TypeOK
BY Inductive, PTL DEF IInv

\* No #else or #elif of any source reopens a region inside a skipped one.
THEOREM SkippedStaysSkipped == Spec => []SkippingIsInherited
BY Inductive, PTL DEF IInv

\* Entries and open groups correspond one to one until a group is dropped.
THEOREM OneEntryPerGroup == Spec => []DepthIsNesting
BY Inductive, PTL DEF IInv

\* A state of the invariant emits what C selects while no group is late.
LEMMA SimpleGroupsAgreeNow == IInv => AgreesOnSimpleGroups
<1> SUFFICES ASSUME IInv, ~overflow, \A i \in 1 .. Len(groups) : ~groups[i].late
             PROVE  cond_is_skipping(cs) <=> ~Active(groups)
  BY DEF AgreesOnSimpleGroups
<1> USE DEF IInv, TypeOK
<1>1. cs.depth = Len(groups) /\ Len(groups) \in Nat
  BY DEF DepthIsNesting
<1>2. \A i \in 0 .. cs.depth - 1 : cs.states[i] \in CondState
  BY CondStackMaxAssumption DEF CondStacks
<1>3. ASSUME NEW k \in 1 .. Len(groups)
      PROVE  cs.states[k - 1] = "SKIPPING" <=> ~groups[k].open
  BY <1>1, <1>2 DEF LevelsAgree, CondState
<1>4. ASSUME NEW k \in 0 .. cs.depth - 1
      PROVE  cs.states[k] = "SKIPPING" <=> ~groups[k + 1].open
  BY <1>1, <1>2, <1>3 DEF LevelsAgree, CondState
<1> QED
  BY <1>1, <1>3, <1>4 DEF cond_is_skipping, Active

\* The program emits the lines C selects while no open group is late, for
\* every stack size and every nesting.
THEOREM SimpleGroupsAgree == Spec => []AgreesOnSimpleGroups
BY SimpleGroupsAgreeNow, Inductive, PTL

\* Late or not, a line that C selects is never skipped.
THEOREM SelectedLinesAreEmitted == Spec => []NeverLosesSelectedLines
<1>1. IInv => NeverLosesSelectedLines
  <2> SUFFICES ASSUME IInv, ~overflow, Active(groups)
               PROVE  ~cond_is_skipping(cs)
    BY DEF NeverLosesSelectedLines
  <2>1. \A i \in 1 .. Len(groups) : ~groups[i].late
    BY DEF IInv, GroupsInv, Active
  <2> QED
    BY <2>1, SimpleGroupsAgreeNow DEF AgreesOnSimpleGroups
<1> QED
  BY <1>1, Inductive, PTL
=============================================================================

------------------------------ MODULE CondStack ------------------------------
(***************************************************************************)
(* The conditional-inclusion stack of the preprocessor: pp/pp_cond.c and   *)
(* the type CondStack of pp/pp.h.                                          *)
(*                                                                         *)
(* A stack is a record [states, depth].  `states' is the whole C array, so *)
(* the entries at and above `depth' keep the value they had when they were *)
(* popped: the include cache moves `depth' without writing them.           *)
(***************************************************************************)
EXTENDS Naturals

CONSTANT CondStackMax          \* COND_STACK_MAX, 32 in the code

ASSUME CondStackMaxAssumption == CondStackMax \in Nat \ {0}

CondState == {"TAKING", "SKIPPING"}

CondStacks == [states : [0 .. CondStackMax - 1 -> CondState],
               depth  : 0 .. CondStackMax]

\* cond_init on a context that pp_ctx_init has zeroed: COND_TAKING is 0.
cond_init == [states |-> [i \in 0 .. CondStackMax - 1 |-> "TAKING"],
              depth  |-> 0]

cond_is_skipping(cs) == \E i \in 0 .. cs.depth - 1 : cs.states[i] = "SKIPPING"

\* Mutant: the loop bound of cond_is_skipping, one too far for this one.
ancestor_skipping_top(cs) ==
  \E i \in 0 .. cs.depth - 1 : cs.states[i] = "SKIPPING"

ancestor_skipping(cs) == \E i \in 0 .. cs.depth - 2 : cs.states[i] = "SKIPPING"

\* A group opened on a full stack is not recorded at all.
cond_push(cs, taking) ==
  IF cs.depth >= CondStackMax THEN cs
  ELSE [states |-> [cs.states EXCEPT ![cs.depth] =
                      IF cond_is_skipping(cs) \/ ~taking THEN "SKIPPING"
                                                         ELSE "TAKING"],
        depth  |-> cs.depth + 1]

\* Mutant: the enclosing groups are not asked.
NextBranchAlone(cs, taking) ==
  IF cs.depth = 0 THEN cs
  ELSE [cs EXCEPT !.states[cs.depth - 1] =
          IF @ = "TAKING" THEN "SKIPPING" ELSE IF taking THEN "TAKING" ELSE @]

\* Mutant: an open branch stays open.
NextBranchStays(cs, taking) ==
  IF cs.depth = 0 THEN cs
  ELSE [cs EXCEPT !.states[cs.depth - 1] =
          IF ~ancestor_skipping(cs) /\ taking THEN "TAKING" ELSE @]

\* The step that cond_else and cond_elif share: an open branch closes, a
\* closed one opens when `taking' holds and no enclosing group is skipping.
\* Nothing remembers whether an earlier branch of the group was open.
NextBranch(cs, taking) ==
  IF cs.depth = 0 THEN cs
  ELSE [cs EXCEPT !.states[cs.depth - 1] =
          IF @ = "TAKING" THEN "SKIPPING"
          ELSE IF ~ancestor_skipping(cs) /\ taking THEN "TAKING" ELSE @]

cond_elif(cs, taking) == NextBranch(cs, taking)

cond_else(cs) == NextBranch(cs, TRUE)

\* Mutant: #endif handled like any directive of a skipped region.
cond_endif_taking(cs) ==
  IF cs.depth = 0 \/ cond_is_skipping(cs) THEN cs ELSE [cs EXCEPT !.depth = @ - 1]

cond_endif(cs) == IF cs.depth = 0 THEN cs ELSE [cs EXCEPT !.depth = @ - 1]
=============================================================================

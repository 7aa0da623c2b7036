---------------------------- MODULE Conditionals ----------------------------
(***************************************************************************)
(* Conditional inclusion as handle_directive (pp/pp_directive.c) and the   *)
(* handlers of pp/pp_if.c drive it, one directive per step, beside the     *)
(* groups of the source as the C standard reads them (C11 6.10.1).         *)
(*                                                                         *)
(* `cs' is the program's state.  `groups' is the specification: one record *)
(* per #if that is open in the source, innermost last.                     *)
(***************************************************************************)
EXTENDS CondStack, Sequences

CONSTANT MaxNesting     \* bound on the #if groups a source keeps open

ASSUME MaxNestingAssumption == MaxNesting \in Nat

VARIABLES cs,           \* ctx->cond
          groups,       \* the open groups of the source, as C reads them
          overflow      \* a group now or formerly enclosing was not recorded

vars == <<cs, groups, overflow>>

(***************************************************************************)
(* The C reading.  A group knows whether one of its branches has been      *)
(* selected (taken), whether the current one is selected (open), whether   *)
(* its #else has been seen, and whether a branch line came after the       *)
(* selected branch had ended (late).                                       *)
(***************************************************************************)
Group == [taken : BOOLEAN, open : BOOLEAN, else : BOOLEAN, late : BOOLEAN]

Active(gs) == \A i \in 1 .. Len(gs) : gs[i].open

Enclosing(gs) == SubSeq(gs, 1, Len(gs) - 1)

OpenGroup(gs, c) ==
  Append(gs, [taken |-> Active(gs) /\ c, open |-> Active(gs) /\ c,
              else  |-> FALSE, late |-> FALSE])

\* The next branch of the innermost group is selected when its condition
\* holds, no earlier branch was, and the enclosing groups are selected.
Branch(gs, c, isElse) ==
  LET n   == Len(gs)
      g   == gs[n]
      sel == Active(Enclosing(gs)) /\ ~g.taken /\ c
  IN  [gs EXCEPT ![n] =
         [taken |-> g.taken \/ sel, open |-> sel, else |-> g.else \/ isElse,
          late  |-> g.late \/ (g.taken /\ ~g.open)]]

(***************************************************************************)
(* The directives.  Their conditions are inputs.                           *)
(***************************************************************************)
Init == /\ cs = cond_init
        /\ groups = << >>
        /\ overflow = FALSE

\* handle_if, handle_ifdef
If(c) ==
  /\ Len(groups) < MaxNesting
  /\ cs' = cond_push(cs, c)
  /\ groups' = OpenGroup(groups, c)
  /\ overflow' = (overflow \/ cs.depth >= CondStackMax)

\* handle_elif.  On an empty stack the program warns and skips the line.
Elif(c) ==
  /\ cs' = cond_elif(cs, c)
  /\ groups' = IF groups = << >> THEN groups ELSE Branch(groups, c, FALSE)
  /\ UNCHANGED overflow

\* handle_else
Else ==
  /\ cs' = cond_else(cs)
  /\ groups' = IF groups = << >> THEN groups ELSE Branch(groups, TRUE, TRUE)
  /\ UNCHANGED overflow

\* handle_endif
Endif ==
  /\ cs' = cond_endif(cs)
  /\ groups' = IF groups = << >> THEN groups ELSE Enclosing(groups)
  /\ overflow' = (overflow /\ Len(groups) > 1)

Next == \/ \E c \in BOOLEAN : If(c)
        \/ \E c \in BOOLEAN : Elif(c)
        \/ Else
        \/ Endif

Spec == Init /\ [][Next]_vars

(***************************************************************************)
(* Properties                                                              *)
(***************************************************************************)

\* The stack stays inside its array and the groups are well-formed.
TypeOK == /\ cs \in CondStacks
          /\ groups \in Seq(Group)
          /\ overflow \in BOOLEAN

\* Under a skipping group every deeper group is skipping: no sequence of
\* #else and #elif can reopen a region inside a skipped one.
SkippingIsInherited ==
  \A i, j \in 0 .. cs.depth - 1 :
    i < j /\ cs.states[i] = "SKIPPING" => cs.states[j] = "SKIPPING"

\* Until a group is dropped on a full stack, the stack has one entry per
\* open #if: no #endif ever closes a group of another level.
DepthIsNesting == ~overflow => cs.depth = Len(groups)

\* Lines are emitted exactly when C selects them, as long as no group that is
\* open now has had a branch line after its selected branch ended.  A group
\* that goes wrong does so alone: agreement is back after its #endif.
AgreesOnSimpleGroups ==
  ~overflow /\ (\A i \in 1 .. Len(groups) : ~groups[i].late)
    => (cond_is_skipping(cs) <=> ~Active(groups))

\* However badly a group goes wrong, the program never emits less than C
\* selects: what is lost is the exclusion of later branches, never a branch.
NeverLosesSelectedLines ==
  ~overflow /\ Active(groups) => ~cond_is_skipping(cs)

=============================================================================

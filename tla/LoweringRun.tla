----------------------------- MODULE LoweringRun -----------------------------
(***************************************************************************)
(* A function as written and as lowered, run side by side.  Both stop at   *)
(* each observable step (an instruction, the evaluation of a condition),   *)
(* take it together when it is the same one, and see the same outcome.     *)
(* As written, what is left to do is a stack of statements and of the      *)
(* loops and switches being executed.                                      *)
(***************************************************************************)
EXTENDS Lowering

CONSTANTS Programs,     \* function bodies, sequences of statements
          Labels        \* the case labels of the program

VARIABLES prog,     \* the body
          blocks,   \* as lowered, << >> before
          todo,     \* what is left to do of it as written
          pos,      \* the block and the index of the next instruction
          reg       \* what each condition last evaluated to

vars == <<prog, blocks, todo, pos, reg>>

Init == /\ prog \in Programs
        /\ blocks = << >> /\ todo = << >> /\ pos = <<0, 1>> /\ reg = << >>

Generate ==
  /\ blocks = << >>
  /\ blocks' = ir_gen_function(prog)
  /\ todo' = prog
  /\ UNCHANGED <<prog, pos, reg>>

(***************************************************************************)
(* C's meaning of a statement.                                             *)
(***************************************************************************)
Holds(c) ==
  CASE c[1] = "none" -> TRUE
    [] c[1] = "test" -> reg[c[2]] = "yes"
    [] c[1] = "and"  -> reg[c[2]] = "yes" /\ reg[c[3]] = "yes"
    [] c[1] = "or"   -> reg[c[2]] = "yes" \/ reg[c[3]] = "yes"
    [] c[1] = "case" -> reg[c[2]] = c[3]

\* The steps that evaluate a condition.
Evaluating(c) ==
  CASE c[1] = "none" -> << >>
    [] c[1] = "test" -> <<<<"eval", c[2]>>>>
    [] OTHER         -> <<<<"eval", c[2]>>, <<"rest", c>>>>

Choose(c, yes, no) == Evaluating(c) \o <<<<"choose", c, yes, no>>>>

\* The statements from the one a switch selects on.
Selected(cases) ==
  LET hits == {i \in DOMAIN cases : cases[i].label = reg.s}
      defs == {i \in DOMAIN cases : cases[i].label = "default"}
      from(S) == FlattenSeq([i \in 1 .. Len(cases) - Min(S) + 1 |-> cases[Min(S) + i - 1].body])
  IN  IF hits # {} THEN from(hits) ELSE IF defs # {} THEN from(defs) ELSE << >>

Loops   == {"while", "do", "for"}
\* What is left after leaving the innermost enclosing statement of the kinds.
From(kinds) ==
  LET at == {i \in DOMAIN todo : todo[i][1] \in kinds}
  IN  IF at = {} THEN None ELSE Min(at)

Unroll(s) ==      \* what a loop does next, when its body is done
  CASE s[1] = "while" -> Choose(s[2], <<s[3], <<"loop", s>>>>, << >>)
    [] s[1] = "do"    -> Choose(s[2], <<s[3], <<"loop", s>>>>, << >>)
    [] s[1] = "for"   -> <<<<"instr", s[3]>>>> \o Choose(s[2], <<s[4], <<"loop", s>>>>, << >>)

\* The first entry into a loop.
EnterLoop(s) ==
  CASE s[1] = "while" -> Unroll(s)
    [] s[1] = "do"    -> <<s[3], <<"loop", s>>>>
    [] s[1] = "for"   -> Tail(Unroll(s))

\* The statement a label of the function is at, and the ones after it.
AtLabel(l) ==
  LET i == CHOOSE k \in DOMAIN prog : prog[k] = <<"label", l>>
  IN  SubSeq(prog, i, Len(prog))

Observable(k) == k[1] \in {"instr", "eval"}

Silent(s) ==
  LET rest == Tail(todo)
      brk  == From({"loop", "end"})
      cnt  == From({"loop"})
  IN  CASE s[1] = "block"  -> s[2] \o rest
        [] s[1] = "if"     -> Choose(s[2], <<s[3]>>, << >>) \o rest
        [] s[1] = "ifelse" -> Choose(s[2], <<s[3]>>, <<s[4]>>) \o rest
        [] s[1] = "choose" -> (IF Holds(s[2]) THEN s[3] ELSE s[4]) \o rest
        [] s[1] = "rest"   -> IF (s[2][1] = "and") = (reg[s[2][2]] = "yes")
                              THEN <<<<"eval", s[2][3]>>>> \o rest ELSE rest
        [] s[1] \in Loops  -> EnterLoop(s) \o rest
        [] s[1] = "loop"   -> Unroll(s[2]) \o rest
        [] s[1] = "switch" -> <<<<"eval", s[2]>>, <<"select", s[3]>>, <<"end">>>> \o rest
        [] s[1] = "select" -> Selected(s[2]) \o rest
        [] s[1] = "break"  -> IF brk = None THEN rest ELSE SubSeq(todo, brk + 1, Len(todo))
        [] s[1] = "continue" -> IF cnt = None THEN rest ELSE SubSeq(todo, cnt, Len(todo))
        [] s[1] = "return" -> << >>
        [] s[1] = "goto"   -> AtLabel(s[2])
        [] s[1] \in {"end", "label"} -> rest

AsWritten ==
  /\ blocks # << >> /\ todo # << >> /\ ~Observable(Head(todo))
  /\ todo' = Silent(Head(todo))
  /\ UNCHANGED <<prog, blocks, pos, reg>>

(***************************************************************************)
(* The lowered function: control leaves a block at its first terminator.   *)
(***************************************************************************)
At == blocks[pos[1] + 1][pos[2]]

AsLowered ==
  /\ blocks # << >> /\ At.op \in {"br", "condbr"}
  /\ pos' = <<IF At.op = "br" THEN At.to[1] ELSE IF Holds(At.on) THEN At.to[1] ELSE At.to[2], 1>>
  /\ UNCHANGED <<prog, blocks, todo, reg>>

(***************************************************************************)
(* A step of both.                                                         *)
(***************************************************************************)
Written == IF todo = << >> THEN <<"returns">>
           ELSE IF Head(todo)[1] = "instr" THEN <<"instr", Head(todo)[2]>>
           ELSE Head(todo)
Lowered == IF At.op = "ret" THEN <<"returns">>
           ELSE IF At.op = "test" THEN <<"eval", At.id>> ELSE <<"instr", At>>

BothStop == /\ blocks # << >>
            /\ todo # << >> => Observable(Head(todo))
            /\ At.op \notin {"br", "condbr"}

Outcomes(id) == IF id = "s" THEN Labels \cup {"none"} ELSE {"yes", "no"}

StepTogether ==
  /\ BothStop /\ Written = Lowered /\ todo # << >>
  /\ todo' = Tail(todo)
  /\ pos' = <<pos[1], pos[2] + 1>>
  /\ IF Written[1] = "eval"
     THEN \E v \in Outcomes(Written[2]) : reg' = (Written[2] :> v) @@ reg
     ELSE UNCHANGED reg
  /\ UNCHANGED <<prog, blocks>>

Returned == BothStop /\ todo = << >> /\ UNCHANGED vars

Next == Generate \/ AsWritten \/ AsLowered \/ StepTogether \/ Returned

Spec == Init /\ [][Next]_vars

(***************************************************************************)
(* Properties                                                              *)
(***************************************************************************)

\* The lowered function does what the function says: the same instructions and
\* the same conditions in the same order, and it returns when the function does.
DoesWhatIsWritten == BothStop => Written = Lowered

\* ir_gen_stmt.c:18: nothing follows a terminator in its block, every block has
\* one when the function is finished, and what it goes to is a block.
NothingFollowsTerminator ==
  \A b \in DOMAIN blocks :
    /\ Terminated(blocks[b])
    /\ \A i \in DOMAIN blocks[b] :
         ir_is_terminator(blocks[b][i]) => /\ i = Len(blocks[b])
                                           /\ Range(blocks[b][i].to) \subseteq 0 .. Len(blocks) - 1

(***************************************************************************)
(* The bodies that are run.                                                *)
(***************************************************************************)
S == INSTANCE SmallBodies

Leaves == {S!Do("a"), S!Do("b")} \cup S!Jumps

Simple == S!Ifs(Leaves, S!Test("p")) \cup S!Loops(Leaves, S!Test("p"), S!Do("step"))
          \cup S!Switches(Leaves)

\* Two conditional statements in a row in a loop.
Rows == {<<"while", S!Test("q"), s>> :
           s \in S!Pairs(S!Ifs({<<"break">>, <<"continue">>, S!Do("a")}, S!Test("p")),
                         S!Ifs({<<"break">>, <<"continue">>, S!Do("b")}, S!Test("r")))}

\* Labels, reached forwards and backwards.
Gotos == {<<S!Do("a"), <<"label", "L">>,
            <<"ifelse", S!Test("p"), <<"goto", l>>, S!Do("b")>>, S!Do("c"),
            <<"label", "M">>, <<"if", S!Test("q"), <<"goto", m>>>>, S!Do("d")>> :
              l, m \in {"L", "M"}}

Bodies == Gotos \cup
  {<<s, S!Do("end")>> :
     s \in Simple \cup Rows \cup S!AroundAll(Simple \cup S!Pairs(Leaves, Leaves), S!Do("c"))
           \cup {S!Unordered(S!Do("c"))}}
=============================================================================

------------------------------ MODULE Lowering ------------------------------
(***************************************************************************)
(* From statements to basic blocks: gen_stmt and the generators it calls   *)
(* (ir/gen/ir_gen_stmt.c, ir_gen_stmt_ctrl.c, ir_gen_stmt_jump.c and the   *)
(* short-circuit operators of expr/ir_gen_logical.c), as functions on the  *)
(* generator's context.  Blocks are numbered in the order in which they    *)
(* are linked into the function, 0 is the entry.                           *)
(*                                                                         *)
(* A statement is one of                                                   *)
(*   <<"instr", i>>               an expression statement                  *)
(*   <<"block", <<s1, ...>>>>                                              *)
(*   <<"if", c, s>>   <<"ifelse", c, s, t>>                                *)
(*   <<"while", c, s>>   <<"do", c, s>>   <<"for", c, i, s>>               *)
(*   <<"switch", id, <<[label, body], ...>>>>                              *)
(*   <<"break">>   <<"continue">>   <<"return">>                           *)
(*   <<"goto", l>>   <<"label", l>>                                        *)
(* and a condition is <<"test", id>>, <<"and", id1, id2>>, <<"or", id1,    *)
(* id2>> or, in a for statement, <<"none">>.                               *)
(***************************************************************************)
EXTENDS Integers, SequencesExt, TLC

CONSTANT MAX_CASES       \* cases of one switch (64)

None == -1

(***************************************************************************)
(* The context: the blocks, each a sequence of instructions, the block     *)
(* being filled, the targets of break and continue, the labels' blocks.    *)
(***************************************************************************)
Evaluate(id)         == [op |-> "test", id |-> id]
Br(b)                == [op |-> "br", to |-> <<b>>]
CondBr(c, b1, b2)    == [op |-> "condbr", on |-> c, to |-> <<b1, b2>>]
Ret                  == [op |-> "ret", to |-> << >>]

ir_is_terminator(i) == i.op \in {"br", "condbr", "ret"}

Entry == [blocks |-> << << >> >>, cur |-> 0, brk |-> None, cnt |-> None, labels |-> << >>]

Count(ctx) == Len(ctx.blocks)

\* ir_builder_new_block and link_blocks, k times.
LinkBlocks(ctx, k) == [ctx EXCEPT !.blocks = @ \o [i \in 1 .. k |-> << >>]]

SetBlock(ctx, b) == [ctx EXCEPT !.cur = b]

append_instr(ctx, i) == [ctx EXCEPT !.blocks[ctx.cur + 1] = Append(@, i)]

Terminated(block) == block # << >> /\ ir_is_terminator(Last(block))

\* Mutant: control always gets there.
FallToAlways(ctx, b) == append_instr(ctx, Br(b))

\* A branch from the end of a statement, if control gets there.
FallTo(ctx, b) ==
  IF Terminated(ctx.blocks[ctx.cur + 1]) THEN ctx ELSE append_instr(ctx, Br(b))

\* The value of a condition.  The blocks of a short circuit are linked before
\* its left side is evaluated.
gen_logical(ctx, c) ==
  LET rhs == Count(ctx)
      end == rhs + 1
      lhs == append_instr(LinkBlocks(ctx, 2), Evaluate(c[2]))
      br  == append_instr(lhs, IF c[1] = "and" THEN CondBr(<<"test", c[2]>>, rhs, end)
                                               ELSE CondBr(<<"test", c[2]>>, end, rhs))
  IN  SetBlock(append_instr(append_instr(SetBlock(br, rhs), Evaluate(c[3])), Br(end)), end)

GenCond(ctx, c) ==
  CASE c[1] = "none" -> ctx
    [] c[1] = "test" -> append_instr(ctx, Evaluate(c[2]))
    [] OTHER         -> gen_logical(ctx, c)

\* get-or-create the block of a label.
label_block(ctx, l) ==
  IF l \in DOMAIN ctx.labels THEN ctx
  ELSE [LinkBlocks(ctx, 1) EXCEPT !.labels = @ @@ (l :> Count(ctx))]

(***************************************************************************)
(* The statements.                                                         *)
(***************************************************************************)
RECURSIVE gen_stmt(_, _)

GenAll(ctx, stmts) == FoldLeft(LAMBDA c, s : gen_stmt(c, s), ctx, stmts)

\* Mutant: the targets outlive the body.
GenBodyLeaky(ctx, stmts, brk, cnt) == GenAll([ctx EXCEPT !.brk = brk, !.cnt = cnt], stmts)

\* A body with its own targets of break and continue.
GenBody(ctx, stmts, brk, cnt) ==
  [GenAll([ctx EXCEPT !.brk = brk, !.cnt = cnt], stmts) EXCEPT !.brk = ctx.brk, !.cnt = ctx.cnt]

gen_stmt_if(ctx0, s) ==
  LET ctx  == GenCond(ctx0, s[2])
      then == Count(ctx)
      els  == IF s[1] = "ifelse" THEN then + 1 ELSE None
      end  == IF els = None THEN then + 1 ELSE els + 1
      br   == append_instr(LinkBlocks(ctx, end - then + 1),
                           CondBr(s[2], then, IF els = None THEN end ELSE els))
      yes  == FallTo(gen_stmt(SetBlock(br, then), s[3]), end)
      no   == IF els = None THEN yes ELSE FallTo(gen_stmt(SetBlock(yes, els), s[4]), end)
  IN  SetBlock(no, end)

gen_stmt_while(ctx, s) ==
  LET cond == Count(ctx)
      body == cond + 1
      end  == cond + 2
      test == GenCond(SetBlock(append_instr(LinkBlocks(ctx, 3), Br(cond)), cond), s[2])
      br   == SetBlock(append_instr(test, CondBr(s[2], body, end)), body)
  IN  SetBlock(FallTo(GenBody(br, <<s[3]>>, end, cond), cond), end)

gen_stmt_do_while(ctx, s) ==
  LET body == Count(ctx)
      cond == body + 1
      end  == body + 2
      br   == SetBlock(append_instr(LinkBlocks(ctx, 3), Br(body)), body)
      test == GenCond(SetBlock(FallTo(GenBody(br, <<s[3]>>, end, cond), cond), cond), s[2])
  IN  SetBlock(append_instr(test, CondBr(s[2], body, end)), end)

gen_stmt_for(ctx, s) ==
  LET cond   == Count(ctx)
      body   == cond + 1
      update == cond + 2
      end    == cond + 3
      test == GenCond(SetBlock(append_instr(LinkBlocks(ctx, 4), Br(cond)), cond), s[2])
      br   == append_instr(test, IF s[2] = <<"none">> THEN Br(body) ELSE CondBr(s[2], body, end))
      done == FallTo(GenBody(SetBlock(br, body), <<s[4]>>, end, update), update)
  IN  SetBlock(append_instr(append_instr(SetBlock(done, update), s[3]), Br(cond)), end)

IsCase(c) == c.label # "default"

\* A test block and a body block for each of the first MAX_CASES cases, then
\* the default and the end; the bodies are generated in that order.
gen_stmt_switch(ctx0, s) ==
  LET ctx   == append_instr(ctx0, Evaluate(s[2]))
      all   == SelectSeq(s[3], IsCase)
      cases == SubSeq(all, 1, IF Len(all) < MAX_CASES THEN Len(all) ELSE MAX_CASES)
      rest  == SelectSeq(s[3], LAMBDA c : ~IsCase(c))      \* the default, if any
      n     == Len(cases)
      test(i) == Count(ctx) + 2 * (i - 1)
      body(i) == test(i) + 1
      def   == IF rest = << >> THEN None ELSE Count(ctx) + 2 * n
      end   == Count(ctx) + 2 * n + Len(rest)
      past  == IF def = None THEN end ELSE def              \* after the last case
      linked == LinkBlocks(ctx, end - Count(ctx) + 1)
      entered == IF n > 0 THEN append_instr(linked, Br(test(1)))
                 ELSE IF def # None THEN append_instr(linked, Br(def)) ELSE linked
      Dispatch(c, i) ==
        append_instr(SetBlock(c, test(i)),
                     CondBr(<<"case", s[2], cases[i].label>>, body(i),
                            IF i < n THEN test(i + 1) ELSE past))
      Body(c, i) == FallTo(GenBody(SetBlock(c, body(i)), cases[i].body, end, ctx.cnt),
                           IF i < n THEN body(i + 1) ELSE past)
      bodies == FoldLeft(Body, FoldLeft(Dispatch, entered, [i \in 1 .. n |-> i]), [i \in 1 .. n |-> i])
      last   == IF def = None THEN bodies
                ELSE FallTo(GenBody(SetBlock(bodies, def), rest[1].body, end, ctx.cnt), end)
  IN  SetBlock(last, end)

gen_stmt_goto(ctx, s) ==
  LET c == label_block(ctx, s[2]) IN append_instr(c, Br(c.labels[s[2]]))

gen_stmt_label(ctx, s) ==
  LET c == label_block(ctx, s[2]) IN SetBlock(FallTo(c, c.labels[s[2]]), c.labels[s[2]])

gen_stmt(ctx, s) ==
  CASE s[1] = "instr"    -> append_instr(ctx, s[2])
    [] s[1] = "block"    -> GenAll(ctx, s[2])
    [] s[1] \in {"if", "ifelse"} -> gen_stmt_if(ctx, s)
    [] s[1] = "while"    -> gen_stmt_while(ctx, s)
    [] s[1] = "do"       -> gen_stmt_do_while(ctx, s)
    [] s[1] = "for"      -> gen_stmt_for(ctx, s)
    [] s[1] = "switch"   -> gen_stmt_switch(ctx, s)
    [] s[1] = "break"    -> IF ctx.brk # None THEN append_instr(ctx, Br(ctx.brk)) ELSE ctx
    [] s[1] = "continue" -> IF ctx.cnt # None THEN append_instr(ctx, Br(ctx.cnt)) ELSE ctx
    [] s[1] = "return"   -> append_instr(ctx, Ret)
    [] s[1] = "goto"     -> gen_stmt_goto(ctx, s)
    [] s[1] = "label"    -> gen_stmt_label(ctx, s)

\* Blocks without a terminator return.
gen_func_terminators(blocks) ==
  [i \in DOMAIN blocks |-> IF Terminated(blocks[i]) THEN blocks[i] ELSE Append(blocks[i], Ret)]

\* ir_gen_function: the blocks of a function with that body.
ir_gen_function(stmts) == gen_func_terminators(GenAll(Entry, stmts).blocks)

(***************************************************************************)
(* The function as the optimizer sees it: the last instruction of a block  *)
(* says where it goes.                                                     *)
(***************************************************************************)
CfgOf(blocks) == [n |-> Len(blocks), succ |-> [b \in 0 .. Len(blocks) - 1 |-> Last(blocks[b + 1]).to]]

CodeOf(blocks) ==
  [b \in 0 .. Len(blocks) - 1 |->
     SelectSeq(blocks[b + 1], LAMBDA i : ~ir_is_terminator(i) /\ i.op # "test")]
=============================================================================

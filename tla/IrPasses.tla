------------------------------- MODULE IrPasses -------------------------------
(***************************************************************************)
(* The passes of the IR optimizer that follow mem2reg: dead code, constant *)
(* folding, simplification of the control flow, value numbering inside a   *)
(* block, and inlining of device functions (src/ir-opt).                   *)
(*                                                                         *)
(* A module has functions and a heap of values.  Values are shared: folding*)
(* the instruction that defines one changes it under every user.  A value  *)
(* is a result ("instr"), a parameter or a constant, and knows the         *)
(* instruction it was made with.  An int has INT_BITS; the compiler keeps  *)
(* constants in LONG_BITS.                                                 *)
(***************************************************************************)
EXTENDS CArithmetic, SequencesExt

CONSTANT MAX_INLINE_SIZE

Value(kind, v, def) == [kind |-> kind, v |-> v, def |-> def]
NoValue == Value("none", 0, 0)

\* n tells instructions apart.  args are the operands, the arguments of a call
\* or the incoming values of a phi; blks the targets or the incoming blocks;
\* name is the condition of an icmp or the callee of a call.  array tells apart
\* the arrays that hold the arguments of calls: a copy of a call shares one.
Instr(n, op, name, res, args, blks) ==
  [n |-> n, op |-> op, name |-> name, res |-> res, args |-> args, array |-> n, blks |-> blks]

Instrs(f) == FlattenSeq([b \in DOMAIN f.blocks |-> f.blocks[b].ins])
BlockAt(f, id) == CHOOSE b \in DOMAIN f.blocks : f.blocks[b].id = id
Term(b) == Last(b.ins)
IsConst(x) == x.kind = "const"

\* Rewrites every instruction of a function.
EachInstr(f, R(_)) ==
  [f EXCEPT !.blocks = [b \in DOMAIN @ |-> [@[b] EXCEPT !.ins = [k \in DOMAIN @ |-> R(@[k])]]]]

\* A pass over the functions, one after the other; one of them takes and
\* returns [f, val, changed].
OnFunctions(m, Pass(_, _)) ==
  FoldLeft(LAMBDA s, k : LET r == Pass(s.mod.funcs[k], s.mod.val)
                         IN [mod |-> [s.mod EXCEPT !.funcs[k] = r.f, !.val = r.val],
                             changed |-> s.changed \/ r.changed],
           [mod |-> m, changed |-> FALSE], [k \in DOMAIN m.funcs |-> k])
Done(f, val, changed) == [f |-> f, val |-> val, changed |-> changed]

----------------------------------------------------------------------------
(* Use lists.                                                              *)

visit_users(i) == ToSet(i.args)
build_use_lists(f, val) ==
  [v \in {w \in DOMAIN val : val[w].kind = "instr"} |->
     {i.n : i \in {j \in ToSet(Instrs(f)) : v \in visit_users(j)}}]
redirect_users(f, uses, old, new) ==
  IF old \notin DOMAIN uses THEN f
  ELSE EachInstr(f, LAMBDA i : IF i.n \notin uses[old] THEN i
                               ELSE [i EXCEPT !.args = [k \in DOMAIN @ |-> IF @[k] = old THEN new ELSE @[k]]])

----------------------------------------------------------------------------
(* Dead code.                                                              *)

has_side_effects(i) == i.op \in {"store", "call", "ret", "br", "condbr", "unreachable", "alloca"}

\* What the operands were made with, over and over, as far as it is in the
\* function.
RECURSIVE mark_live(_, _, _)
mark_live(instrs, val, marked) ==
  LET defs == {val[a].def : a \in UNION {visit_users(i) : i \in {j \in instrs : j.n \in marked}}}
      more == marked \cup (defs \cap {i.n : i \in instrs})
  IN IF more = marked THEN marked ELSE mark_live(instrs, val, more)

dce_func(f, val) ==
  LET instrs == ToSet(Instrs(f))
      marked == mark_live(instrs, val, {i.n : i \in {j \in instrs : has_side_effects(j)}})
      left == [f EXCEPT !.blocks = [b \in DOMAIN @ |->
                 [@[b] EXCEPT !.ins = SelectSeq(@, LAMBDA i : i.n \in marked)]]]
  IN Done(left, val, left # f)
opt_dce(m) == OnFunctions(m, dce_func)

----------------------------------------------------------------------------
(* Constant folding.                                                       *)

Kept(v) == Wrap2(LONG_BITS, v)
FoldedOps == {"add", "sub", "mul", "sdiv", "srem", "and", "or", "xor", "shl", "lshr", "ashr"}
fold_binary(op, l, r) ==
  IF ~IsConst(l) \/ ~IsConst(r) \/ (op \in {"sdiv", "srem"} /\ r.v = 0) THEN NoValue
  ELSE Value("const",
             Kept(CASE op = "add" -> l.v + r.v [] op = "sub" -> l.v - r.v [] op = "mul" -> l.v * r.v
                    [] op = "sdiv" -> Quotient(l.v, r.v) [] op = "srem" -> l.v - r.v * Quotient(l.v, r.v)
                    [] op = "and" -> AndBits(LONG_BITS, l.v, r.v) [] op = "or" -> OrBits(LONG_BITS, l.v, r.v)
                    [] op = "xor" -> XorBits(LONG_BITS, l.v, r.v)
                    [] op = "shl" -> l.v * 2^(r.v % LONG_BITS)
                    [] op = "lshr" -> (l.v % 2^LONG_BITS) \div 2^(r.v % LONG_BITS)
                    [] OTHER -> l.v \div 2^(r.v % LONG_BITS)),
             0)

\* x + 0, x * 0, ...: one of the operands.
simplify(op, l, r) ==
  LET Is(x, c) == IsConst(x) /\ x.v = c
  IN CASE op \in {"add", "sub", "or", "xor"} /\ Is(r, 0) -> l
       [] op \in {"add", "or", "xor"} /\ Is(l, 0) -> r
       [] op \in {"mul", "and"} /\ Is(r, 0) -> r
       [] op \in {"mul", "and"} /\ Is(l, 0) -> l
       [] op \in {"mul", "sdiv"} /\ Is(r, 1) -> l
       [] op = "mul" /\ Is(l, 1) -> r
       [] OTHER -> NoValue

\* The result takes kind and body, not the identity, of what was found.
Becomes(s, res, x) ==
  IF x = NoValue THEN s ELSE [val |-> [s.val EXCEPT ![res].kind = x.kind, ![res].v = x.v], changed |-> TRUE]

fold_arith(s, i) ==
  LET l == s.val[i.args[1]]
      r == s.val[i.args[2]]
      same == simplify(i.op, l, r)
  IN Becomes(s, i.res, IF same # NoValue THEN same ELSE fold_binary(i.op, l, r))

Conds == ("eq" :> "==") @@ ("ne" :> "!=") @@ ("slt" :> "<") @@ ("sgt" :> ">") @@ ("sle" :> "<=") @@ ("sge" :> ">=")
         @@ ("ult" :> "<") @@ ("ugt" :> ">") @@ ("ule" :> "<=") @@ ("uge" :> ">=")
CompareWords(name, a, b) ==
  LET word(v) == IF name \in {"slt", "sgt", "sle", "sge"} THEN Wrap2(INT_BITS, v) ELSE v % 2^INT_BITS
  IN Truth(Compare(Conds[name], word(a), word(b)))
fold_icmp(s, i) ==
  LET l == s.val[i.args[1]]
      r == s.val[i.args[2]]
  IN Becomes(s, i.res, IF IsConst(l) /\ IsConst(r) THEN Value("const", CompareWords(i.name, l.v, r.v), 0)
                       ELSE NoValue)

fold_instr(s, i) == CASE i.op \in FoldedOps -> fold_arith(s, i)
                      [] i.op = "icmp" -> fold_icmp(s, i)
                      [] OTHER -> s
fold_func(f, val) == LET s == FoldLeft(fold_instr, [val |-> val, changed |-> FALSE], Instrs(f))
                     IN Done(f, s.val, s.changed)
opt_const_fold(m) == OnFunctions(m, fold_func)

----------------------------------------------------------------------------
(* Simplification of the control flow.  s is [f, val, preds, changed].     *)

Count(q, x) == Len(SelectSeq(q, LAMBDA y : y = x))
Targets(b) == IF Term(b).op \in {"br", "condbr"} THEN Term(b).blks ELSE << >>
build_pred_counts(f) ==
  LET all == FlattenSeq([b \in DOMAIN f.blocks |-> Targets(f.blocks[b])])
  IN [id \in {f.blocks[b].id : b \in DOMAIN f.blocks} |-> Count(all, id)]

OnlyBranches(b) == Len(b.ins) = 1 /\ Term(b).op = "br"
seed_worklist(f) ==
  LET candidates == SelectSeq(Tail(f.blocks), OnlyBranches)
  IN [k \in DOMAIN candidates |-> candidates[k].id]

\* The phis of one block, rewritten.
OnPhis(f, id, R(_)) ==
  [f EXCEPT !.blocks[BlockAt(f, id)].ins = [k \in DOMAIN @ |-> IF @[k].op = "phi" THEN R(@[k]) ELSE @[k]]]
redirect_brs(f, old, new) ==
  FoldLeft(LAMBDA g, t : IF t = old.id THEN g
                         ELSE OnPhis(g, t, LAMBDA i : [i EXCEPT !.blks = [k \in DOMAIN @ |->
                                                         IF @[k] = old.id THEN new ELSE @[k]]]),
           f, Targets(old))

merge_block(s, id) ==
  LET b == BlockAt(s.f, id)
      succ == s.f.blocks[BlockAt(s.f, Targets(s.f.blocks[b])[1])]
      joined == [s.f EXCEPT !.blocks[b].ins = Front(@) \o succ.ins]
      without == [joined EXCEPT !.blocks = SelectSeq(@, LAMBDA c : c.id # succ.id)]
  IN [s EXCEPT !.f = redirect_brs(without, succ, id), !.changed = TRUE]

Merges(s, id) ==
  /\ \E b \in DOMAIN s.f.blocks : s.f.blocks[b].id = id     \* else a tombstone
  /\ LET b == s.f.blocks[BlockAt(s.f, id)]
     IN OnlyBranches(b) /\ Targets(b)[1] # id /\ s.preds[Targets(b)[1]] = 1

RECURSIVE drain_worklist(_, _)
drain_worklist(s, stack) ==
  IF stack = << >> THEN s
  ELSE LET id == Last(stack)
       IN IF ~Merges(s, id) THEN drain_worklist(s, Front(stack))
          ELSE LET t == merge_block(s, id)
               IN drain_worklist(t, IF OnlyBranches(t.f.blocks[BlockAt(t.f, id)]) THEN stack ELSE Front(stack))

\* Mutant: the phis of the block that is left keep the branch.
KeepIncoming(i, id) == i
phi_remove_incoming(i, id) ==
  IF id \notin ToSet(i.blks) THEN i
  ELSE LET p == Min({k \in DOMAIN i.blks : i.blks[k] = id})
       IN [i EXCEPT !.blks = RemoveAt(@, p), !.args = RemoveAt(@, p)]

\* The branch keeps its condition as an operand: what computes it stays alive.
simplify_cond_br(s, id) ==
  LET b == BlockAt(s.f, id)
      t == Term(s.f.blocks[b])
      cond == s.val[t.args[1]]
      target == IF cond.v # 0 THEN t.blks[1] ELSE t.blks[2]
      dead == IF target = t.blks[1] THEN t.blks[2] ELSE t.blks[1]
      left == IF dead = target THEN s.f ELSE OnPhis(s.f, dead, LAMBDA i : phi_remove_incoming(i, id))
  IN IF t.op # "condbr" \/ ~IsConst(cond) THEN s
     ELSE [s EXCEPT !.preds[dead] = @ - 1, !.changed = TRUE,
                    !.f = [left EXCEPT !.blocks[b].ins =
                             Append(Front(@), [t EXCEPT !.op = "br", !.blks = <<target>>])]]
simplify_cond_brs(s) ==
  FoldLeft(simplify_cond_br, s, [b \in DOMAIN s.f.blocks |-> s.f.blocks[b].id])

RECURSIVE FoldRounds(_)
FoldRounds(s) == LET t == simplify_cond_brs(s)
                 IN IF t.f = s.f THEN s ELSE FoldRounds(drain_worklist(t, seed_worklist(t.f)))
simplify_func(f, val) ==
  LET s == [f |-> f, val |-> val, preds |-> build_pred_counts(f), changed |-> FALSE]
      t == FoldRounds(drain_worklist(s, seed_worklist(f)))
  IN Done(t.f, val, t.changed)
opt_simplify_cfg(m) == OnFunctions(m, simplify_func)

----------------------------------------------------------------------------
(* Value numbering.  s is [f, tab, changed].                               *)

same_val(val, a, b) == a = b \/ (IsConst(val[a]) /\ IsConst(val[b]) /\ val[a].v = val[b].v)
\* Mutant: the third operand is not compared.
MatchTwo(val, e, i) == /\ e.op = i.op /\ e.name = i.name
                       /\ \A k \in 1..2 : same_val(val, e.args[k], i.args[k])
vn_match(val, e, i) == /\ e.op = i.op /\ e.name = i.name /\ Len(e.args) = Len(i.args)
                       /\ \A k \in DOMAIN i.args : same_val(val, e.args[k], i.args[k])
can_cse(i) == i.op \in FoldedOps \cup {"icmp", "gep", "bitcast"}

gvn_instr(s, val, uses, b, k) ==
  LET i == s.f.blocks[b].ins[k]
      found == {e \in DOMAIN s.tab : vn_match(val, s.tab[e], i)}
  IN IF ~can_cse(i) THEN (IF i.op \in {"store", "call"} THEN [s EXCEPT !.tab = << >>] ELSE s)
     ELSE IF found = {} THEN [s EXCEPT !.tab = Append(@, i)]
     ELSE [s EXCEPT !.f = redirect_users(@, uses, i.res, s.tab[Min(found)].res), !.changed = TRUE]

gvn_func(f, val) ==
  LET uses == build_use_lists(f, val)
      InBlock(s, b) == FoldLeft(LAMBDA t, k : gvn_instr(t, val, uses, b, k), [s EXCEPT !.tab = << >>],
                                [k \in DOMAIN f.blocks[b].ins |-> k])
      end == FoldLeft(InBlock, [f |-> f, tab |-> << >>, changed |-> FALSE], [b \in DOMAIN f.blocks |-> b])
  IN Done(end.f, val, end.changed)
opt_gvn(m) == OnFunctions(m, gvn_func)

----------------------------------------------------------------------------
(* Inlining.                                                               *)

is_straight_line(f) == Len(f.blocks) <= 1
Callees(m, i) == {k \in DOMAIN m.funcs : /\ i.op = "call" /\ m.funcs[k].name = i.name
                                         /\ m.funcs[k].device /\ m.funcs[k].blocks # << >>}
Inlinable(f) == Len(Instrs(f)) <= MAX_INLINE_SIZE /\ is_straight_line(f)

remap_params(val, i, callee, args) ==
  LET map(a) == IF val[a].kind = "param" /\ a \in ToSet(callee.params)
                THEN LET p == IndexFirstSubSeq(<<a>>, callee.params) IN IF p \in DOMAIN args THEN args[p] ELSE a
                ELSE a
  IN [i EXCEPT !.args = [k \in DOMAIN @ |-> map(@[k])]]

\* The arguments of a call are written where they are: the original, and what
\* else was copied from it, has them too.
WriteArrays(f, copies) ==
  EachInstr(f, LAMBDA i : LET same == {k \in DOMAIN copies : copies[k].array = i.array}
                          IN IF i.op # "call" \/ same = {} THEN i ELSE [i EXCEPT !.args = copies[Min(same)].args])

\* The copies are new instructions that define the results of the originals.
\* The result of the call takes the body of what is returned.
inline_call(m, f, b, call, callee) ==
  LET at == CHOOSE k \in DOMAIN m.funcs[f].blocks[b].ins : m.funcs[f].blocks[b].ins[k].n = call.n
      body == SelectSeq(callee.blocks[1].ins, LAMBDA i : i.op # "ret")
      copies == [k \in DOMAIN body |-> [remap_params(m.val, body[k], callee, call.args) EXCEPT !.n = m.n + k]]
      returned == SelectSeq(callee.blocks[1].ins, LAMBDA i : i.op = "ret" /\ i.args # << >>)
      spliced == [m.funcs EXCEPT ![f].blocks[b].ins = SubSeq(@, 1, at - 1) \o copies \o SubSeq(@, at + 1, Len(@))]
  IN [m EXCEPT !.n = @ + Len(body),
               !.funcs = [k \in DOMAIN spliced |-> WriteArrays(spliced[k], copies)],
               !.val = IF returned = << >> THEN @ ELSE [@ EXCEPT ![call.res].v = m.val[returned[1].args[1]].v]]

InlineAt(s, f, b, i) ==
  LET callees == Callees(s.mod, i)
      callee == s.mod.funcs[Min(callees)]
  IN IF callees = {} \/ ~Inlinable(callee) THEN s
     ELSE [mod |-> inline_call(s.mod, f, b, i, callee), changed |-> TRUE]
opt_inline_dev(m) ==
  LET InFunc(s, f) ==
        FoldLeft(LAMBDA t, b : FoldLeft(LAMBDA u, i : InlineAt(u, f, b, i), t, s.mod.funcs[f].blocks[b].ins),
                 s, [b \in DOMAIN s.mod.funcs[f].blocks |-> b])
  IN FoldLeft(InFunc, [mod |-> m, changed |-> FALSE], [f \in DOMAIN m.funcs |-> f])
=============================================================================

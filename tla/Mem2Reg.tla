------------------------------- MODULE Mem2Reg -------------------------------
(***************************************************************************)
(* Promotion of the stack slots of one function to SSA values              *)
(* (ir-opt/ir_opt_mem2reg.c and ir_opt_mem2reg_rename.c), on top of the    *)
(* analysis of module Dominators, and then the two programs, before and    *)
(* after, run side by side down every path.                                *)
(*                                                                         *)
(* A step is one slot picked by promote_func, one block of the rename      *)
(* walk, the clean-up of one slot, or one block of the run.                *)
(*                                                                         *)
(* A slot is a number.  A value is <<kind, block, index>>: a constant, the *)
(* undefined value, the result of a load, or the result of a phi (whose    *)
(* index is its slot).  An instruction is [op, var, val, res]:             *)
(*   store   val into slot var              load  slot var as res          *)
(*   use     val, with an effect outside                                   *)
(*   call    a function with the address of slot var, which reads the slot *)
(*           and stores val in it                                          *)
(* An instruction keeps its number in the block when others are removed.   *)
(***************************************************************************)
EXTENDS Dominators

CONSTANTS Programs,       \* functions: [cfg, code], a sequence of instructions a block
          Slots,          \* the allocas, numbered in the order of the list
          MAX_CHILDREN,   \* children of a block in the dominator tree (64)
          MAX_PASS        \* slots promoted by one call of promote_func (4)

ASSUME Mem2RegAssumption == /\ Slots \subseteq Nat \ {0}
                            /\ MAX_CHILDREN \in Nat /\ MAX_PASS \in Nat
                            /\ \A p \in Programs : IsGraph(p.cfg)

VARIABLES orig,      \* the body of each block as it was
          code,      \* and what is left of it, by number
          phis,      \* the phis of each block: slot |-> incoming values, by predecessor
          slot,      \* the slot being promoted
          pass,
          uses,      \* the use lists, <<value, user>>, built for that slot
          walk,      \* the blocks the rename walk has still to enter: [blk, cur]
          at,        \* the block the run enters next, None after a return
          from,      \* the block it comes from
          before, after,   \* what the run has in each program: [mem, env]
          seen       \* what the last block showed of each program

analysis == <<g, preds, idom, mark, stamp, blk, changed, iter, df>>
renaming == <<code, phis, slot, pass, uses, walk>>
running  == <<at, from, before, after, seen>>
vars     == <<analysis, renaming, running, pc, orig>>

Undef    == <<"undef", 0, 0>>
Missing  == <<"missing", 0, 0>>
Phi(b, v) == <<"phi", b, v>>

IsResult(x) == x[1] \in {"load", "phi"}

\* The definition of x is in force before the k-th instruction of block b: it
\* is in a block that dominates b, or above in b.
DefinedAt(c, ph, doms, x, b, k) ==
  \/ ~IsResult(x)
  \/ x[1] = "phi"  /\ x[2] \in doms[b] /\ x[3] \in DOMAIN ph[x[2]]
  \/ x[1] = "load" /\ \E d \in doms[b] : \E j \in DOMAIN c[d] : c[d][j].res = x /\ (d = b => j < k)

\* A function as the IR generator leaves it: loads, stores and calls name a slot,
\* only loads have results, each its own, and a result is used where the load is
\* in force.
IsSSA(p) ==
  LET body == p.code
      doms == DominatorSets(p.cfg)
      noPhis == [b \in Blocks(p.cfg) |-> << >>]
  IN  /\ DOMAIN body = Blocks(p.cfg)
      /\ \A b \in Blocks(p.cfg) :
           /\ body[b] \in Seq(Range(body[b]))
           /\ \A k \in DOMAIN body[b] :
                /\ body[b][k].op \in {"store", "load", "use", "call"}
                /\ body[b][k].op # "use" => body[b][k].var \in Slots
                /\ body[b][k].res[1] = IF body[b][k].op = "load" THEN "load" ELSE "undef"
                /\ \A d \in Blocks(p.cfg) : \A j \in DOMAIN body[d] :
                     body[b][k].op = "load" /\ body[d][j].res = body[b][k].res => d = b /\ j = k
                /\ b \in DOMAIN doms => DefinedAt(body, noPhis, doms, body[b][k].val, b, k)

ASSUME ProgramsAssumption == \A p \in Programs : IsSSA(p)

Init ==
  /\ \E p \in Programs : g = p.cfg /\ orig = p.code
  /\ AnalysisInit
  /\ code = orig
  /\ phis = [b \in Blocks(g) |-> << >>]
  /\ slot = 0 /\ pass = 0 /\ uses = {} /\ walk = << >>
  /\ at = 0 /\ from = None
  /\ before = [mem |-> [v \in Slots |-> Undef], env |-> << >>]
  /\ after = before
  /\ seen = << >>

(***************************************************************************)
(* build_use_lists, redirect_users                                         *)
(***************************************************************************)

\* Mutant: the incoming values of phis are not uses.
UseListsOfInstrs(c, ph) ==
  UNION {{<<c[b][k].val, <<b, "instr", k>>>> : k \in DOMAIN c[b]} : b \in Blocks(g)}

\* The users of each result, as they are when the lists are built.
UseLists(c, ph) ==
  LET instrs == UNION {{<<c[b][k].val, <<b, "instr", k>>>> : k \in DOMAIN c[b]} : b \in Blocks(g)}
      inPhis == UNION {UNION {{<<x, <<b, "phi", v>>>> : x \in Range(ph[b][v])} :
                              v \in DOMAIN ph[b]} : b \in Blocks(g)}
  IN  {u \in instrs \cup inPhis : IsResult(u[1])}

\* The operands among olds, at the users that are listed for them, become new.
\* The list of new does not grow.
Redirected(x, user, olds, new) == IF x \in olds /\ <<x, user>> \in uses THEN new ELSE x
redirect_instrs(c, olds, new) ==
  [b \in Blocks(g) |->
     [k \in DOMAIN c[b] |->
        [op |-> c[b][k].op, var |-> c[b][k].var, res |-> c[b][k].res,
         val |-> Redirected(c[b][k].val, <<b, "instr", k>>, olds, new)]]]
redirect_phis(ph, olds, new) ==
  [b \in Blocks(g) |->
     [v \in DOMAIN ph[b] |->
        [i \in DOMAIN ph[b][v] |-> Redirected(ph[b][v][i], <<b, "phi", v>>, olds, new)]]]

(***************************************************************************)
(* promote_func and promote_one                                            *)
(***************************************************************************)
Has(b, op, v) == \E k \in DOMAIN code[b] : code[b][k].op = op /\ code[b][k].var = v

\* Mutant: the arguments of calls are not looked at.
alloca_ok_any(v) == TRUE

\* Only loads and stores mention the slot.
alloca_ok(v) == \A b \in Blocks(g) : ~Has(b, "call", v)

DefBlocks(v) == {b \in 0 .. N - 1 : Has(b, "store", v)}

\* The blocks where phis go: the closure of the defining blocks under df.
compute_idf(defs) ==
  LET more(S) == S \cup UNION {Range(df[b]) : b \in S \cup defs}
      idf[k \in 0 .. N] == IF k = 0 THEN {} ELSE more(idf[k - 1])
  IN  idf[N]

\* promote_one notes the block of every store, MAX_BLK of them.
Stores(b, v) == {k \in DOMAIN code[b] : code[b][k].op = "store" /\ code[b][k].var = v}
StoresNoted(v) == Cardinality(UNION {{<<b, k>> : k \in Stores(b, v)} : b \in 0 .. N - 1}) <= MAX_BLK

Promotable == {v \in Slots : alloca_ok(v) /\ DefBlocks(v) # {} /\ StoresNoted(v)}

InsertPhis(v) ==
  [b \in Blocks(g) |->
     IF b \in compute_idf(DefBlocks(v))
     THEN [u \in DOMAIN phis[b] \cup {v} |->
             IF u = v THEN [i \in DOMAIN preds[b] |-> Undef] ELSE phis[b][u]]
     ELSE phis[b]]

\* A promoted slot has no store left, so none is promoted twice.  The next one
\* that can be is: the others before it are passed over.
PromoteOne ==
  /\ pc = "analysed" /\ pass < MAX_PASS /\ Promotable # {}
  /\ slot' = Min(Promotable)
  /\ phis' = InsertPhis(slot')
  /\ uses' = UseLists(code, phis')
  /\ walk' = <<[blk |-> 0, cur |-> Undef]>>
  /\ pass' = pass + 1
  /\ pc' = "rename"
  /\ UNCHANGED <<analysis, running, code, orig>>

PromotionEnds ==
  /\ pc = "analysed" /\ (pass = MAX_PASS \/ Promotable = {})
  /\ pc' = "run"
  /\ UNCHANGED <<analysis, renaming, running, orig>>

(***************************************************************************)
(* rename_vars and remove_dead                                             *)
(***************************************************************************)

\* build_domtree: the children of a block, in the order of the list.
ChildrenOf(b) ==
  LET kids[c \in 0 .. N - 1] ==
        IF c = 0 THEN << >>
        ELSE IF idom[c] = b /\ Len(kids[c - 1]) < MAX_CHILDREN THEN Append(kids[c - 1], c)
        ELSE kids[c - 1]
  IN  kids[N - 1]

\* None is dropped.
ChildrenFit == \A c \in 1 .. N - 1 : idom[c] # None => c \in Range(ChildrenOf(idom[c]))

\* The k-th instruction of the block, if it is there, is one on the slot.
OnSlot(c, b, k, op) == k \in DOMAIN c[b] /\ c[b][k].op = op /\ c[b][k].var = slot

\* One instruction: st is the code, the phis and the current value of the slot.
RenameInstr(st, b, k) ==
  IF OnSlot(st.code, b, k, "store")
  THEN [code |-> st.code, phis |-> st.phis, cur |-> st.code[b][k].val]
  ELSE IF OnSlot(st.code, b, k, "load")
  THEN [code |-> redirect_instrs(st.code, {st.code[b][k].res}, st.cur),
        phis |-> redirect_phis(st.phis, {st.code[b][k].res}, st.cur),
        cur  |-> st.cur]
  ELSE st

RenameInstrs(b, start) ==
  LET st[k \in 0 .. Len(orig[b])] == IF k = 0 THEN start ELSE RenameInstr(st[k - 1], b, k)
  IN  st[Len(orig[b])]

\* Mutant: every incoming value is taken to be from this block.
FillPhisAll(ph, b, cur) ==
  [s \in Blocks(g) |->
     [v \in DOMAIN ph[s] |->
        IF s \in Succs(g, b) /\ v = slot THEN [i \in DOMAIN ph[s][v] |-> cur] ELSE ph[s][v]]]

\* The block tells the phis of its successors what it contributes.
FillPhis(ph, b, cur) ==
  [s \in Blocks(g) |->
     [v \in DOMAIN ph[s] |->
        [i \in DOMAIN ph[s][v] |->
           IF s \in Succs(g, b) /\ v = slot /\ preds[s][i] = b THEN cur ELSE ph[s][v][i]]]]

\* rename_dfs on one block.  What the block pushed is popped when its subtree
\* is done, so each child starts from the last value of its parent.
RenameBlock ==
  /\ pc = "rename" /\ walk # << >>
  /\ LET b   == Head(walk).blk
         st  == RenameInstrs(b, [code |-> code, phis |-> phis,
                                 cur |-> IF slot \in DOMAIN phis[b] THEN Phi(b, slot)
                                         ELSE Head(walk).cur])
         kids == ChildrenOf(b)
     IN  /\ code' = st.code
         /\ phis' = FillPhis(st.phis, b, st.cur)
         /\ walk' = [i \in DOMAIN kids |-> [blk |-> kids[i], cur |-> st.cur]] \o Tail(walk)
  /\ UNCHANGED <<analysis, running, slot, pass, uses, pc, orig>>

RenameEnds ==
  /\ pc = "rename" /\ walk = << >>
  /\ pc' = "remove"
  /\ UNCHANGED <<analysis, renaming, running, orig>>

Loads(b) == {i \in Range(code[b]) : i.op = "load" /\ i.var = slot}

\* The loads that still have users become undefined, and what mentions the
\* slot goes.
RemoveDead ==
  /\ pc = "remove"
  /\ LET results == {i.res : i \in UNION {Loads(b) : b \in Blocks(g)}}
         left == redirect_instrs(code, results, Undef)
         stays(b, k) == ~(code[b][k].op \in {"load", "store"} /\ code[b][k].var = slot)
     IN  /\ code' = [b \in Blocks(g) |-> [k \in {j \in DOMAIN code[b] : stays(b, j)} |-> left[b][k]]]
         /\ phis' = redirect_phis(phis, results, Undef)
  /\ slot' = 0 /\ uses' = {}
  /\ pc' = "analysed"
  /\ UNCHANGED <<analysis, running, pass, walk, orig>>

(***************************************************************************)
(* What a program means: a block at a time, in both programs.              *)
(***************************************************************************)
ValueOf(env, x) == IF ~IsResult(x) THEN x ELSE IF x \in DOMAIN env THEN env[x] ELSE Missing

\* env with the values of defs.
Extended(env, defs) ==
  [x \in DOMAIN env \cup DOMAIN defs |-> IF x \in DOMAIN defs THEN defs[x] ELSE env[x]]

\* st is [mem, env, out].
ExecInstr(st, i) ==
  LET val == ValueOf(st.env, i.val)
      set == [st.mem EXCEPT ![i.var] = val]
      loaded == Extended(st.env, [x \in {i.res} |-> st.mem[i.var]])
  IN  CASE i.op = "store" -> [mem |-> set, env |-> st.env, out |-> st.out]
        [] i.op = "load"  -> [mem |-> st.mem, env |-> loaded, out |-> st.out]
        [] i.op = "use"   -> [mem |-> st.mem, env |-> st.env, out |-> Append(st.out, val)]
        [] i.op = "call"  -> [mem |-> set, env |-> st.env, out |-> Append(st.out, st.mem[i.var])]

\* What is left of block b.
ExecBlock(st, env, b, body) ==
  LET run[k \in 0 .. Len(orig[b])] ==
        IF k = 0 THEN [mem |-> st.mem, env |-> env, out |-> << >>]
        ELSE IF k \in DOMAIN body[b] THEN ExecInstr(run[k - 1], body[b][k]) ELSE run[k - 1]
  IN  run[Len(orig[b])]

\* All the phis of a block take their values at once, on entry.
EnterBlock(env, b, p) ==
  LET edges == {i \in DOMAIN preds[b] : preds[b][i] = p}
  IN  Extended(env, [x \in {Phi(b, v) : v \in DOMAIN phis[b]} |->
                       IF edges = {} THEN Missing ELSE ValueOf(env, phis[b][x[3]][Min(edges)])])

RunBlock ==
  /\ pc = "run" /\ at # None
  /\ LET a == ExecBlock(before, before.env, at, orig)
         z == ExecBlock(after, EnterBlock(after.env, at, from), at, code)
     IN  /\ before' = [mem |-> a.mem, env |-> a.env]
         /\ after'  = [mem |-> z.mem, env |-> z.env]
         /\ seen'   = <<a.out, z.out>>
  /\ at' \in IF g.succ[at] = << >> THEN {None} ELSE Succs(g, at)
  /\ from' = at
  /\ UNCHANGED <<analysis, renaming, pc, orig>>

AnalysisStep == Analyse /\ UNCHANGED <<renaming, running, orig>>

Finished == pc = "run" /\ at = None /\ UNCHANGED vars

Next == \/ AnalysisStep \/ PromoteOne \/ PromotionEnds
        \/ RenameBlock \/ RenameEnds \/ RemoveDead \/ RunBlock \/ Finished

Spec == Init /\ [][Next]_vars

(***************************************************************************)
(* Properties                                                              *)
(***************************************************************************)

\* On every path, what the function shows outside is what it showed before: a
\* value it had not defined may be any value, every other one is the same.
SameBehaviour ==
  seen # << >> =>
    /\ Len(seen[1]) = Len(seen[2])
    /\ \A i \in DOMAIN seen[1] : seen[1][i] \in {Undef, seen[2][i]}

\* A result is only used where its definition is in force, as an incoming
\* value of a phi at the end of the predecessor.
DefsDominate(c, ph) ==
  LET doms == DominatorSets(g)
  IN  \A b \in DOMAIN doms :
        /\ \A k \in DOMAIN c[b] : DefinedAt(c, ph, doms, c[b][k].val, b, k)
        /\ \A v \in DOMAIN ph[b] : \A i \in DOMAIN preds[b] :
             preds[b][i] \in DOMAIN doms =>
               DefinedAt(c, ph, doms, ph[b][v][i], preds[b][i], Len(orig[preds[b][i]]) + 1)

DefinitionsDominateUses == pc = "analysed" => DefsDominate(code, phis)

\* ir_opt_mem2reg_rename.c: when remove_dead makes the loads of the slot
\* undefined, no load of a reachable block has a user left.
OnlyUnreachableLoadsAreUndefined ==
  pc = "remove" =>
    \A b \in Reachable(g) : \A i \in Loads(b) :
      /\ \A d \in Blocks(g) : \A k \in DOMAIN code[d] : code[d][k].val # i.res
      /\ \A d \in Blocks(g) : \A v \in DOMAIN phis[d] : i.res \notin Range(phis[d][v])
=============================================================================

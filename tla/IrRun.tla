-------------------------------- MODULE IrRun --------------------------------
(***************************************************************************)
(* ir_optimize() on a module of a set, without mem2reg: the modules are in *)
(* the form that mem2reg leaves.  A step is one pass over the module.      *)
(***************************************************************************)
EXTENDS IrPasses

CONSTANTS Modules,     \* each the functions that it has, in order
          Levels,
          MAX_ITER,    \* rounds
          Arguments,   \* pairs of arguments to try
          Fuel         \* blocks that an execution may enter

VARIABLES level, meant,   \* what the last function of the module does, for each pair of arguments
          mod, pass, changed, iter

vars == <<level, meant, mod, pass, changed, iter>>

----------------------------------------------------------------------------
(* What a module means.  A run has an environment, a memory, the stores    *)
(* and calls it has made, and fuel.  An undefined result is Poison, the    *)
(* value of nothing is Missing; after a branch on either the run is lost.  *)

Poison  == 2^LONG_BITS
Missing == Poison + 1
IsWord(x) == x < Poison

Evaluate(op, name, a, b) ==
  LET shift == b \in 0..(INT_BITS - 1)
      word(v) == Wrap2(INT_BITS, v)
  IN CASE op = "add" -> word(a + b) [] op = "sub" -> word(a - b) [] op = "mul" -> word(a * b)
       [] op = "sdiv" -> IF b = 0 THEN Poison ELSE word(Quotient(a, b))
       [] op = "srem" -> IF b = 0 THEN Poison ELSE a - b * Quotient(a, b)
       [] op = "and" -> AndBits(INT_BITS, a, b) [] op = "or" -> OrBits(INT_BITS, a, b)
       [] op = "xor" -> XorBits(INT_BITS, a, b)
       [] op = "shl" -> IF shift THEN word(a * 2^b) ELSE Poison
       [] op = "lshr" -> IF shift THEN word((a % 2^INT_BITS) \div 2^b) ELSE Poison
       [] op = "ashr" -> IF shift THEN a \div 2^b ELSE Poison
       [] op = "icmp" -> CompareWords(name, a, b)

ValueOf(val, env, x) == IF IsConst(val[x]) THEN Wrap2(INT_BITS, val[x].v)
                        ELSE IF x \in DOMAIN env THEN env[x] ELSE Missing
Worst(S) == IF Missing \in S THEN Missing ELSE Poison

World(out, mem, fuel) == [out |-> out, mem |-> mem, fuel |-> fuel]
Show(w, event) == [w EXCEPT !.out = Append(@, event)]
Defines(m, name) == \E k \in DOMAIN m.funcs : m.funcs[k].name = name

RECURSIVE Call(_, _, _, _), RunBlock(_, _, _, _, _, _)
\* s is [env, w].
ExecInstr(m, s, i) ==
  LET x == [k \in DOMAIN i.args |-> ValueOf(m.val, s.env, i.args[k])]
      Define(v) == [s EXCEPT !.env = (i.res :> v) @@ @]
  IN CASE i.op \in FoldedOps \cup {"icmp"} ->
            Define(IF \A k \in 1..2 : IsWord(x[k]) THEN Evaluate(i.op, i.name, x[1], x[2]) ELSE Worst(ToSet(x)))
       [] i.op = "gep" -> Define(IF \A k \in DOMAIN x : IsWord(x[k])
                                 THEN Wrap2(INT_BITS, FoldLeft(LAMBDA a, b : a + b, 0, x)) ELSE Worst(ToSet(x)))
       [] i.op = "load" -> Define(IF x[1] \in DOMAIN s.w.mem THEN s.w.mem[x[1]] ELSE IF IsWord(x[1]) THEN 0 ELSE x[1])
       [] i.op = "store" -> [s EXCEPT !.w = Show([@ EXCEPT !.mem = (x[2] :> x[1]) @@ @], <<"store", x[1], x[2]>>)]
       [] i.op = "call" ->
            IF Defines(m, i.name)
            THEN LET r == Call(m, i.name, x, s.w)
                 IN [env |-> (i.res :> r.ret) @@ s.env, w |-> r.w]
            ELSE [Define(Len(s.w.out) % 2^(INT_BITS - 1)) EXCEPT !.w = Show(@, <<"call">> \o x)]
       [] OTHER -> s

RunBlock(m, f, id, from, env, w) ==
  LET b == f.blocks[BlockAt(f, id)]
      Incoming(i) == LET p == {k \in DOMAIN i.blks : i.blks[k] = from}
                     IN IF p = {} THEN Missing ELSE ValueOf(m.val, env, i.args[Min(p)])
      phis == {i \in ToSet(b.ins) : i.op = "phi"}
      entered == [r \in {i.res : i \in phis} |-> Incoming(CHOOSE i \in phis : i.res = r)] @@ env
      s == FoldLeft(LAMBDA t, i : ExecInstr(m, t, i), [env |-> entered, w |-> w], b.ins)
      t == Term(b)
      x == IF t.args = << >> THEN 0 ELSE ValueOf(m.val, s.env, t.args[1])
      Go(next) == RunBlock(m, f, next, id, s.env, [s.w EXCEPT !.fuel = @ - 1])
  IN IF w.fuel = 0 THEN [ret |-> Missing, w |-> Show(w, <<"lost">>)]
     ELSE CASE t.op = "ret" -> [ret |-> x, w |-> s.w]
            [] t.op = "br" -> Go(t.blks[1])
            [] OTHER -> IF ~IsWord(x) THEN [ret |-> Missing, w |-> Show(s.w, <<"lost">>)]
                        ELSE Go(t.blks[IF x # 0 THEN 1 ELSE 2])
Call(m, name, x, w) ==
  LET f == CHOOSE g \in ToSet(m.funcs) : g.name = name
  IN RunBlock(m, f, f.blocks[1].id, 0, [p \in ToSet(f.params) |-> x[IndexFirstSubSeq(<<p>>, f.params)]], w)

\* What the last function shows and returns.
Behaviour(m, x) == LET r == Call(m, Last(m.funcs).name, x, World(<< >>, << >>, Fuel))
                   IN IF r.w.out # << >> /\ Last(r.w.out) = <<"lost">> THEN r.w.out
                      ELSE Append(r.w.out, <<"ret", r.ret>>)
Behaviours(m) == [x \in Arguments |-> Behaviour(m, x)]

----------------------------------------------------------------------------
(* Functions in the form that mem2reg leaves, from statements on the       *)
(* variables x and y, the parameters p and q and the constants.  The       *)
(* generator lists the blocks of a statement when it meets it.  b is       *)
(* [funcs, val, n, blocks, cur, env], env from names to values.            *)

Literals == <<"0", "1", "2", "-1">>
LiteralValues == <<0, 1, 2, -1>>
NewModule == [funcs |-> << >>, n |-> 0, val |-> [k \in DOMAIN Literals |-> Value("const", LiteralValues[k], 0)]]
Begin(m) ==
  LET p == Len(m.val) + 1
  IN [funcs |-> m.funcs, n |-> m.n, val |-> m.val \o <<Value("param", 0, 0), Value("param", 0, 0)>>,
      blocks |-> <<[id |-> 1, ins |-> << >>]>>, cur |-> 1,
      env |-> [x \in ToSet(Literals) |-> CHOOSE k \in DOMAIN Literals : Literals[k] = x]
              @@ ("p" :> p) @@ ("q" :> p + 1) @@ ("x" :> p) @@ ("y" :> p + 1)]

Put(b, op, name, args, blks) ==
  [b EXCEPT !.n = @ + 1, !.val = Append(@, Value("instr", 0, b.n + 1)),
            !.blocks[b.cur].ins = Append(@, Instr(b.n + 1, op, name, Len(b.val) + 1, args, blks))]
Names(b, xs) == [k \in DOMAIN xs |-> b.env[xs[k]]]
Branch(b, to) == Put(b, "br", "", << >>, <<to>>)
MakeBlocks(b, k) == [b EXCEPT !.blocks = @ \o [i \in 1..k |-> [id |-> Len(b.blocks) + i, ins |-> << >>]]]
At(b, cur) == [b EXCEPT !.cur = cur]
\* A phi for each variable that may have two values.
Phis(b, vars_, args(_), blks) ==
  FoldLeft(LAMBDA c, x : [Put(c, "phi", "", args(x), blks) EXCEPT !.env[x] = Len(c.val) + 1], b, vars_)
Decide(b, c, t, e) == LET d == Put(b, "icmp", "ne", <<b.env[c], b.env["0"]>>, << >>)
                      IN Put(d, "condbr", "", <<Len(d.val)>>, <<t, e>>)

RECURSIVE Gen(_, _)
GenIf(b, c, S, T) ==
  LET n == Len(b.blocks)
      k == IF T = << >> THEN 2 ELSE 3      \* then, else if there is one, merge
      d == Decide(MakeBlocks(b, k), c, n + 1, n + 2)
      s == FoldLeft(Gen, At(d, n + 1), S)
      t == IF T = << >> THEN [s EXCEPT !.env = b.env] ELSE FoldLeft(Gen, At([s EXCEPT !.env = b.env], n + 2), T)
      from == IF T = << >> THEN b.cur ELSE t.cur
      closed == At(LET u == Branch(At(t, s.cur), n + k) IN IF T = << >> THEN u ELSE Branch(At(u, t.cur), n + k), n + k)
  IN Phis(closed, SelectSeq(<<"x", "y">>, LAMBDA x : s.env[x] # t.env[x]),
          LAMBDA x : <<s.env[x], t.env[x]>>, <<s.cur, from>>)
RECURSIVE Assigned(_)
Assigned(S) == UNION {CASE S[k][1] \in {"set", "op"} -> {S[k][2]}
                        [] S[k][1] = "if" -> Assigned(S[k][3]) \cup Assigned(S[k][4])
                        [] S[k][1] = "while" -> Assigned(S[k][3])
                        [] OTHER -> {} : k \in DOMAIN S}
\* The header is made twice, the second time with what the body gives its phis.
GenWhile(b, c, S) ==
  LET n == Len(b.blocks)
      Header(back, from) ==
        Decide(Phis(At(Branch(MakeBlocks(b, 3), n + 1), n + 1),
                    SelectSeq(<<"x", "y">>, LAMBDA x : x \in Assigned(S)),
                    LAMBDA x : <<b.env[x], back[x]>>, <<b.cur, from>>), c, n + 2, n + 3)
      Body(h) == FoldLeft(Gen, At(h, n + 2), S)
      guess == Body(Header(b.env, b.cur))
      header == Header(guess.env, guess.cur)
  IN [At(Branch(Body(header), n + 1), n + 3) EXCEPT !.env = header.env]
Gen(b, s) ==
  CASE s[1] = "set" -> [b EXCEPT !.env[s[2]] = b.env[s[3]]]
    [] s[1] = "op" -> [Put(b, s[3], s[4], Names(b, s[5]), << >>) EXCEPT !.env[s[2]] = Len(b.val) + 1]
    [] s[1] \in {"store", "call"} -> Put(b, s[1], s[2], Names(b, s[3]), << >>)
    [] s[1] = "if" -> GenIf(b, s[2], s[3], s[4])
    [] s[1] = "while" -> GenWhile(b, s[2], s[3])

AddFunction(m, name, device, body, result) ==
  LET b == FoldLeft(Gen, Begin(m), body)
      e == Put(b, "ret", "", IF result = "void" THEN << >> ELSE <<b.env[result]>>, << >>)
  IN [val |-> e.val, n |-> e.n,
      funcs |-> Append(e.funcs, [name |-> name, device |-> device, blocks |-> e.blocks,
                                 params |-> <<Begin(m).env["p"], Begin(m).env["q"]>>])]
\* A module from its functions, each [name, device, body, result].
Build(fs) == FoldLeft(LAMBDA m, g : AddFunction(m, g.name, g.device, g.body, g.result), NewModule, fs)
Host(body, result) == [name |-> "f", device |-> FALSE, body |-> body, result |-> result]
Device(name, body) == [name |-> name, device |-> TRUE, body |-> body, result |-> "void"]
Program(body, result) == <<Host(body, result)>>

\* Every operation on every pair of operands, and one on its result.  Negative
\* constants are not shifted to the right without their sign: the folding shifts
\* a word of LONG_BITS, and the int of the program has no name for that result.
TwoWords == {<<-1, 2>>, <<0, 2>>, <<2, 0>>, <<-1, -1>>}
Operations == {<<op, "">> : op \in FoldedOps} \cup {<<"icmp", c>> : c \in DOMAIN Conds}
Op(v, o, a, b) == <<"op", v, o[1], o[2], <<a, b>>>>
Operands == {"p", "0", "1", "2", "-1"}
Folds == {Program(<<Op("x", o, a, b), Op("y", u, "x", c)>>, "y") :
            o \in {i \in Operations : i[1] # "lshr"}, a, b \in Operands,
            u \in {<<"add", "">>, <<"icmp", "ult">>}, c \in {"q", "1"}}
         \cup {Program(<<Op("x", <<"lshr", "">>, a, b)>>, "x") : a \in Operands \ {"-1"}, b \in Operands}

\* Two computations in one block, with something between them, and what is
\* computed from each.
Computations == {<<o, a>> : o \in {<<"add", "">>, <<"icmp", "slt">>, <<"icmp", "sge">>}, a \in {<<"p", "q">>, <<"q", "p">>, <<"p", "1">>}}
                \cup {<<<<"gep", "">>, a>> : a \in {<<"p", "1">>, <<"p", "0", "1">>, <<"p", "0", "q">>, <<"p", "1", "q">>}}
Between == {<< >>, <<<<"store", "", <<"p", "q">>>>>>, <<<<"call", "e", <<"p">>>>>>,
            <<<<"if", "q", <<<<"store", "", <<"1", "p">>>>>>, << >>>>>>}
Pairs == {Program(<<<<"op", "x", i[1][1], i[1][2], i[2]>>>> \o m \o <<<<"op", "y", j[1][1], j[1][2], j[2]>>>>
                  \o <<Op("x", <<"add", "">>, "x", "2"), Op("y", <<"add", "">>, "y", "2"),
                       <<"store", "", <<"x", "q">>>>>>, "y") : i, j \in Computations, m \in Between}

\* Branches and loops, on constants that only folding sees and on others.
Simple == {<<<<"set", "x", "q">>>>, <<<<"store", "", <<"x", "q">>>>>>, <<Op("x", <<"sub", "">>, "x", "1")>>}
Nested == {<<<<"if", c, s, t>>>> : c \in {"0", "y"}, s \in Simple, t \in Simple \cup {<< >>}}
Shapes(S, T) == {<<<<"if", c, s, t>>>> : c \in {"q", "0", "1", "x"}, s \in S, t \in T}
                \cup {<<<<"while", c, s>>>> : c \in {"0", "1", "x"}, s \in S}
\* An if on a constant, without an else, whose last block has nothing to do but
\* to branch to a block with a phi: what becomes of it is the subject of a run of
\* its own.
Sets(S) == S # << >> /\ S[1][1] = "set"
EndsEmpty(s) == /\ s[1][1] = "if" /\ s[1][2] = "1" /\ s[1][4] = << >>
                /\ LET then == s[1][3]
                   IN Sets(then) \/ (then[1][1] = "if" /\ Sets(then[1][3]) /\ Sets(then[1][4]))
Plain(S) == {s \in S : ~EndsEmpty(s)}
Sequel == {<<Op("y", <<"add", "">>, "x", "y")>>, <<<<"if", "x", <<<<"set", "y", "x">>>>, << >>>>>>}
Branches == {Program(s \o t, "y") : s \in Plain(Shapes(Simple \cup Nested, Simple \cup {<< >>})), t \in Sequel}
Loops == {Program(s \o t, "x") : s \in Plain(Shapes(Simple, Simple \cup {<< >>})),
                                 t \in Plain(Shapes(Simple, {<< >>}))}
Taken == {Program(<<<<"if", "1", <<<<"set", "x", "q">>>>, << >>>>>> \o s, "x") : s \in Simple}

\* Callers of device functions that store, call, branch, or are longer than what
\* is inlined, and of device functions that call those.  A call in a device
\* function has constants for arguments: others are the same for every copy.
Stores(k) == [i \in 1..k |-> <<"store", "", IF i = 1 THEN <<"p", "q">> ELSE <<"q", "p">>>>]
Calls(name, S) == {<<<<"call", name, <<a, b>>>>>> : a, b \in S}
Inlined == {Stores(k) : k \in 0..(MAX_INLINE_SIZE - 1)} \cup {Stores(1) \o c : c \in Calls("e", {"1", "2"})}
NotInlined == {Stores(k) : k \in MAX_INLINE_SIZE..(MAX_INLINE_SIZE + 1)}
              \cup {<<<<"if", "p", Stores(1), << >>>>>>, <<<<"while", "p", Stores(1)>>>>}
Callers(name) == {c \o Stores(1) : c \in Calls(name, {"p", "q", "1"})}
Twice(name) == {c \o d : c, d \in Calls(name, {"p", "1"})}
Chain(D, G, F) == {<<Device("d", d), Device("g", g), Host(f, "q")>> : d \in D, g \in G, f \in F}
Inlining == {<<Device("d", d), Host(f, "q")>> : d \in Inlined \cup NotInlined, f \in Callers("d") \cup Twice("d")}
            \cup Chain(Inlined, Callers("d"), {<<<<"call", "g", <<"p", "q">>>>>>})
            \cup Chain(NotInlined, Calls("d", {"1", "2"}), Twice("g"))
PassFamily == Folds \cup Pairs \cup Branches \cup Loops \cup Inlining
----------------------------------------------------------------------------
Init == /\ mod \in {Build(fs) : fs \in Modules} /\ level \in Levels
        /\ meant = Behaviours(mod)
        /\ pass = "dce" /\ changed = FALSE /\ iter = 0

Run(p, result, next) ==
  /\ pass = p
  /\ mod' = result.mod
  /\ changed' = (changed \/ result.changed)
  /\ pass' = next
  /\ UNCHANGED <<level, meant, iter>>

RunDce         == Run("dce", opt_dce(mod), "const fold")
RunConstFold   == Run("const fold", opt_const_fold(mod), "simplify cfg")
RunSimplifyCfg == Run("simplify cfg", opt_simplify_cfg(mod), IF level >= 1 THEN "gvn" ELSE "while")
RunGvn         == Run("gvn", opt_gvn(mod), "inline")
RunInline      == Run("inline", opt_inline_dev(mod), "while")

\* } while (changed && ++iter < max_iter);
Again == /\ pass = "while"
         /\ iter' = iter + Truth(changed)
         /\ pass' = IF changed /\ iter' < MAX_ITER THEN "dce" ELSE "done"
         /\ changed' = FALSE
         /\ UNCHANGED <<level, meant, mod>>

Next == RunDce \/ RunConstFold \/ RunSimplifyCfg \/ RunGvn \/ RunInline \/ Again

Spec == Init /\ [][Next]_vars

----------------------------------------------------------------------------
\* After every pass the module does what it did: the same stores, calls and
\* result, for all arguments.  A value that was undefined may be any; after a
\* branch on one anything may happen, and a run without end is compared as far
\* as both get.
SameEvent(a, b) == /\ a[1] = b[1] /\ Len(a) = Len(b)
                   /\ \A k \in DOMAIN a : k = 1 \/ a[k] = b[k] \/ a[k] = Poison
SameAs(a, b) ==
  LET lost == Last(a) = <<"lost">>
  IN /\ ~lost => Len(b) = Len(a)
     /\ \A k \in DOMAIN a \cap DOMAIN b : SameEvent(a[k], b[k]) \/ (lost /\ (k = Len(a) \/ b[k] = <<"lost">>))
PassesKeepBehaviour ==
  pass # "dce" => LET now == Behaviours(mod)
                  IN \A x \in Arguments : SameAs(meant[x], now[x])

\* ir_opt_simplify.c:11-13: "a phi's in_blocks are exactly its block's
\* predecessors", through folded branches and merged blocks.
PhisNamePredecessors ==
  \A f \in ToSet(mod.funcs) : \A b \in ToSet(f.blocks) :
    LET into == UNION {IF b.id \in ToSet(Targets(p)) THEN {p.id} ELSE {} : p \in ToSet(f.blocks)}
    IN \A i \in ToSet(b.ins) : i.op = "phi" =>
         ToSet(i.blks) = into /\ Len(i.blks) = Cardinality(into) /\ Len(i.args) = Len(i.blks)

\* Between passes a module is one that LLVM accepts: phis first and one value
\* for each predecessor, a terminator last, and an operand that is not a
\* constant is a parameter of the function or the result of an instruction of it.
WellFormed ==
  /\ PhisNamePredecessors
  /\ \A f \in ToSet(mod.funcs) :
       /\ \A b \in ToSet(f.blocks) : \A k \in DOMAIN b.ins :
            /\ b.ins[k].op \in {"br", "condbr", "ret"} <=> k = Len(b.ins)
            /\ b.ins[k].op = "phi" /\ k > 1 => b.ins[k - 1].op = "phi"
       /\ LET own == {i.res : i \in ToSet(Instrs(f))} \cup ToSet(f.params)
          IN \A i \in ToSet(Instrs(f)) : \A a \in ToSet(i.args) : a \in own \/ IsConst(mod.val[a])
=============================================================================

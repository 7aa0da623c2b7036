-------------------------------- MODULE CExec --------------------------------
(***************************************************************************)
(* What a function of C does: the trees of AstOptimize run on typed        *)
(* variables.  A machine has the variables, the output (what was passed to *)
(* calls), and a mode: "run", a jump that looks for its target, "return"   *)
(* with the value, or "undefined", after which anything is allowed.        *)
(* "fuel" bounds the iterations of loops.                                  *)
(***************************************************************************)
EXTENDS AstOptimize

Machine(env, fuel) == [env |-> env, out |-> << >>, mode |-> "run", target |-> "", val |-> Undef, fuel |-> fuel]
Running(m) == m.mode = "run"
Bad(m) == [m EXCEPT !.mode = "undefined"]
Yield(m, x) == IF Running(m) /\ x = Undef THEN Bad(m) ELSE [m EXCEPT !.val = x]
Store(m, name, x) ==
  IF name \notin DOMAIN m.env \/ x = Undef THEN Bad(m)
  ELSE Yield([m EXCEPT !.env[name] = CastTo(m.env[name].t, x)], CastTo(m.env[name].t, x))

AsBool(x) == Val("int", Truth(x.v # 0))
Logical(n) == n.op = "binary" /\ n.a \in {"&&", "||"}
Step(n) == IF n.a = "++" THEN "+" ELSE "-"
Arithmetic == {"+", "-", "*", "/", "%", "&", "|", "^", "<<", ">>", ","} \cup Comparisons

RECURSIVE Eval(_, _), EvalAll(_, _), Exec(_, _), ExecList(_, _), Loop(_, _, _)

\* Operands are evaluated from left to right.
EvalAll(m, kids) ==
  IF kids = << >> THEN [m |-> m, vals |-> << >>]
  ELSE LET r == Eval(m, Head(kids))
           rest == EvalAll(r, Tail(kids))
       IN [m |-> rest.m, vals |-> <<r.val>> \o rest.vals]

Eval(m, n) ==
  LET e == EvalAll(m, n.kids)
      x == e.vals[1]
      l == Eval(m, n.kids[1])
      step == Binary(Step(n), m.env[n.kids[1].a], Val("int", 1))
  IN CASE ~Running(m) -> m
       [] Running(m) /\ n.op = "lit" -> Yield(m, CastTo(n.a, Val("int", n.v)))
       [] Running(m) /\ n.op = "id" -> IF n.a \in DOMAIN m.env THEN Yield(m, m.env[n.a]) ELSE Bad(m)
       [] Running(m) /\ n.op = "binary" /\ n.a = "=" ->
            IF n.kids[1].op # "id" THEN Bad(m)
            ELSE LET r == Eval(m, n.kids[2]) IN Store(r, n.kids[1].a, r.val)
       [] Running(m) /\ n.op = "binary" /\ n.a = "+=" ->
            IF n.kids[1].op # "id" THEN Bad(m)
            ELSE Store(e.m, n.kids[1].a, Binary("+", x, e.vals[2]))
       [] Running(m) /\ Logical(n) ->
            IF ~Running(l) THEN l
            ELSE IF (l.val.v # 0) = (n.a = "||") THEN Yield(l, AsBool(l.val))
            ELSE LET r == Eval(l, n.kids[2]) IN IF Running(r) THEN Yield(r, AsBool(r.val)) ELSE r
       [] Running(m) /\ n.op = "binary" /\ n.a \in Arithmetic -> Yield(e.m, Binary(n.a, x, e.vals[2]))
       [] Running(m) /\ n.op \in {"unary", "post"} /\ n.a \in {"++", "--"} ->
            IF n.kids[1].op # "id" \/ n.kids[1].a \notin DOMAIN m.env THEN Bad(m)
            ELSE IF n.op = "post" THEN [Store(m, n.kids[1].a, step) EXCEPT !.val = m.env[n.kids[1].a]]
            ELSE Store(m, n.kids[1].a, step)
       [] Running(m) /\ n.op = "unary" /\ n.a \in {"-", "~", "!", "+"} -> Yield(e.m, Unary(n.a, x))
       [] Running(m) /\ n.op = "cast" -> Yield(e.m, CastTo(n.a, x))
       [] Running(m) /\ n.op = "?:" -> IF ~Running(l) THEN l ELSE Eval(l, n.kids[IF l.val.v # 0 THEN 2 ELSE 3])
       [] Running(m) /\ n.op = "sizeof" -> Yield(m, Val("ulong", Bits(n.a)))
       [] Running(m) /\ n.op = "call" /\ n.kids[1].op = "unary" /\ n.kids[1].a = "&" ->
            Store(m, n.kids[1].kids[1].a, Val("int", 2))
       [] Running(m) /\ n.op = "call" ->
            IF ~Running(e.m) THEN e.m ELSE Yield([e.m EXCEPT !.out = Append(@, CastTo("long", x))], Val("int", Len(e.m.out)))
       [] Running(m) /\ n.op = "generic" ->
            LET arms == Tail(n.kids)
                Of(t) == {i \in DOMAIN arms : arms[i].a = t}
                best == Of(l.val.t) \cup (IF Of(l.val.t) = {} THEN Of("default") ELSE {})
            IN IF ~Running(l) \/ best = {} THEN Bad(m) ELSE Eval(m, arms[Min(best)].kids[1])
       [] OTHER -> Bad(m)

----------------------------------------------------------------------------
Labels(n) == {k.a : k \in {x \in ToSet(PreOrder(n)) : x.op = "label"}}
Exit(m, mode) == IF m.mode = mode THEN [m EXCEPT !.mode = "run"] ELSE m
Jump(m, mode, to) == [m EXCEPT !.mode = mode, !.target = to]

\* A jump passes over what does not hold its target.
Enters(m, n) == \/ Running(m)
                \/ m.mode = "goto" /\ m.target \in Labels(n)
                \/ m.mode = "case" /\ n.op \in {"case", "default"} /\ m.target = n.a

Condition(m, test) == IF test = Null THEN Yield(m, Val("int", 1)) ELSE Eval(m, test)
Test(n) == n.kids[IF n.op = "for" THEN 2 ELSE 1]
Update(m, n) == IF n.op = "for" /\ n.kids[3] # Null THEN Eval(m, n.kids[3]) ELSE m

\* The body, then the condition, and so on; a jump may enter the body first.
Decide(t, n, body) == IF ~Running(t) \/ t.val.v = 0 THEN t ELSE Loop(t, n, body)
AfterBody(m, n, body) ==
  IF ~Running(m) THEN Exit(m, "break")
  ELSE Decide(Condition([Update(m, n) EXCEPT !.fuel = @ - 1], Test(n)), n, body)
Loop(m, n, body) ==
  IF m.fuel = 0 THEN Bad(m) ELSE AfterBody(Exit(Exec(m, body), "continue"), n, body)
Tested(m, n, body) ==
  IF Running(m) THEN Decide(Condition(m, Test(n)), n, body) ELSE Loop(m, n, body)

ExecList(m, stmts) == IF stmts = << >> THEN m ELSE ExecList(Exec(m, Head(stmts)), Tail(stmts))

ExecIf(v, n) == IF ~Running(v) THEN v ELSE Exec(v, n.kids[IF v.val.v # 0 THEN 2 ELSE 3])

\* The label of a case is its value, written in its name.
CaseOf(n, v) ==
  LET C == {c.a : c \in {x \in ToSet(PreOrder(n)) : x.op = "case" /\ x.v = v}}
      D == {c.a : c \in {x \in ToSet(PreOrder(n)) : x.op = "default"}}
  IN IF C # {} THEN C ELSE D
EnterCase(v, body, labels) ==
  IF ~Running(v) \/ labels = {} THEN v
  ELSE Exit(Exec(Jump(v, "case", CHOOSE l \in labels : TRUE), body), "break")
ExecSwitch(v, n) == EnterCase(v, n.kids[2], CaseOf(n.kids[2], v.val.v))

Declare(v, n) ==
  IF Running(v) THEN [v EXCEPT !.env = (n.a :> CastTo(DeclType(n), v.val)) @@ @] ELSE v

\* An enumerator is its value, or one more than the last.
Counted(v, en) ==
  IF ~Running(v) THEN v
  ELSE [v EXCEPT !.env = (en.a :> CastTo("int", v.val)) @@ @, !.val = CastTo("int", @)]
Enumerate(m, en) ==
  Counted(IF en.kids[1] = Null THEN Yield(m, Binary("+", m.val, Val("int", 1))) ELSE Eval(m, en.kids[1]), en)

Leave(v) == IF Running(v) THEN [v EXCEPT !.mode = "return", !.val = CastTo("int", @)] ELSE v

Exec(m, n) ==
  CASE ~Enters(m, n) /\ ~(m.mode = "case" /\ n.op = "block") -> m
    [] OTHER ->
  CASE n.op = "block" -> ExecList(m, n.kids)
    [] n.op = "label" -> Exec(Exit(m, IF m.target = n.a THEN "goto" ELSE "run"), n.kids[1])
    [] n.op \in {"case", "default"} -> ExecList(Exit(m, "case"), Tail(n.kids))
    [] n.op = "if" -> IF m.mode = "goto" THEN Exec(Exec(m, n.kids[2]), n.kids[3]) ELSE ExecIf(Eval(m, n.kids[1]), n)
    [] n.op = "while" -> Tested(m, n, n.kids[2])
    [] n.op = "dowhile" -> Loop(m, n, n.kids[2])
    [] n.op = "for" -> Tested(IF Running(m) THEN Exec(m, n.kids[1]) ELSE m, n, n.kids[4])
    [] n.op = "switch" -> IF m.mode = "goto" THEN Exit(Exec(m, n.kids[2]), "break") ELSE ExecSwitch(Eval(m, n.kids[1]), n)
    [] n.op = "return" -> Leave(Eval(m, n.kids[1]))
    [] n.op \in {"break", "continue"} -> Jump(m, n.op, "")
    [] n.op = "goto" -> Jump(m, "goto", n.a)
    [] n.op = "decl" -> IF DeclInit(n) = Null THEN m ELSE Declare(Eval(m, DeclInit(n)), n)
    [] n.op = "expr" -> Eval(m, n.kids[1])
    [] n.op = "enum" -> FoldLeft(Enumerate, [m EXCEPT !.val = Val("int", -1)], n.kids)
    [] OTHER -> m

\* A jump backwards starts over from the top, looking for its label.
RECURSIVE Resume(_, _, _)
JumpBack(m, body, n) ==
  IF m.mode # "goto" THEN m ELSE IF n = 0 THEN Bad(m) ELSE Resume(m, body, n - 1)
Resume(m, body, n) == JumpBack(Exec(m, body), body, n)

\* What can be seen of a call of the last definition of a program with those
\* parameters: the output, the value.
Seen(m) == [out |-> m.out, mode |-> IF m.mode \in {"run", "return"} THEN "return" ELSE "undefined",
            val |-> IF m.mode = "return" THEN m.val ELSE Undef]
Behaviour(program, params, fuel) ==
  Seen(Resume(ExecList(Machine(params, fuel), Front(program.kids)), Last(program.kids).kids[1], fuel))

\* The second behaviour is the first, unless C leaves that one undefined.
Refines(b, w) == w.mode = "undefined" \/ b = w
=============================================================================

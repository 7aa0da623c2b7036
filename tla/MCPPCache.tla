----------------------------- MODULE MCPPCache -----------------------------
(***************************************************************************)
(* Instances of PPCache: three headers a, b, c that include one another    *)
(* and are gated by the macros the units and the headers define.           *)
(***************************************************************************)
EXTENDS PPCache

Def(n, b)  == [op |-> "define", name |-> n, body |-> b]
Undf(n)    == [op |-> "undef", name |-> n, body |-> Undef]
Ifdef(n)   == [op |-> "ifdef", name |-> n, body |-> Undef]
Ifndef(n)  == [op |-> "ifndef", name |-> n, body |-> Undef]
Else_      == [op |-> "else", name |-> Undef, body |-> Undef]
Endif_     == [op |-> "endif", name |-> Undef, body |-> Undef]
Txt(n)     == [op |-> "text", name |-> n, body |-> Undef]
Inc(h)     == [op |-> "include", name |-> h, body |-> Undef]

MCHeaders == {"a", "b", "c"}
MCNames == {"X", "F", "K"}
MCKeywords == {"K"}
MCBodies == {"1", "2"}

(***************************************************************************)
(* What a header reads, what it writes and what it may include.            *)
(***************************************************************************)
LinesOf(t, h) == {t[h][i] : i \in DOMAIN t[h]}
Reads(t, h) == {l.name : l \in {k \in LinesOf(t, h) : k.op \in {"text", "ifdef", "ifndef"}}}
Writes(t, h) == {l.name : l \in {k \in LinesOf(t, h) : k.op \in {"define", "undef"}}}
Children(t, h) == {l.name : l \in {k \in LinesOf(t, h) : k.op = "include"}}

Below(t, h) ==
  LET one == UNION {Children(t, x) : x \in {h}}
      two == one \cup UNION {Children(t, x) : x \in one}
  IN  two \cup UNION {Children(t, x) : x \in two}

\* No header reads a macro that a header it includes may define or undefine.
\* A guard that gates a header's own definitions is still allowed.
Independent(t) ==
  \A h \in Headers : \A d \in Below(t, h) \ {h} : Reads(t, h) \cap Writes(t, d) = {}

BodiesA == {<<Inc("b"), Txt("F"), Inc("c")>>,
            <<Inc("c"), Def("F", "1"), Inc("b"), Txt("F")>>,
            <<Ifndef("F"), Inc("b"), Else_, Txt("F"), Inc("c"), Endif_, Def("F", "2")>>,
            <<Inc("b"), Txt("X")>>}
BodiesB == {<<Txt("F"), Inc("c"), Def("X", "1")>>,
            <<Ifdef("F"), Inc("c"), Undf("F"), Endif_, Inc("a")>>,
            <<Inc("c"), Txt("X")>>,
            <<Def("F", "1"), Inc("c"), Def("F", "2"), Txt("F")>>}
BodiesC == {<<Txt("X"), Txt("F")>>,
            <<Ifdef("F"), Def("X", "1"), Else_, Def("X", "2"), Endif_>>,
            <<Ifndef("X"), Inc("a"), Endif_, Def("X", "1"), Txt("X")>>,
            <<Undf("X"), Txt("F")>>}

AllTrees == [Headers -> BodiesA \cup BodiesB \cup BodiesC]
IndependentTrees == {t \in AllTrees : Independent(t)}

MCSources == {<<Inc("a"), Txt("X")>>,
              <<Def("F", "1"), Inc("a")>>,
              <<Inc("c"), Inc("a"), Txt("F")>>,
              <<Def("X", "2"), Inc("b"), Inc("a")>>}

(***************************************************************************)
(* The reference: preprocessing with no cache, as one process per unit     *)
(* does it.                                                                *)
(***************************************************************************)
RECURSIVE FreshRun(_, _)
FreshRun(c, lines) ==
  IF lines = << >> THEN c
  ELSE LET line == Head(lines)
           next ==
             IF line.op # "include" \/ Skipped(c, line) THEN process_line(c, line)
             ELSE IF line.name \in c.seen \/ Cardinality(c.seen) >= MAX_INCLUDES THEN c
             ELSE [FreshRun([c EXCEPT !.seen = @ \cup {line.name}, !.out = Append(@, NL)],
                            tree[line.name])
                   EXCEPT !.out = Append(@, NL)]
       IN  FreshRun(next, Tail(lines))

Fresh == FreshRun(NewCtx(FALSE), src)

\* scripts/pp_cache_check.sh:2-4 and pp_cache.h: what a batch makes of a unit
\* is what a process that compiles it alone makes: the same text, the same
\* macros and the same open conditionals at its end.
CachedIsFresh ==
  phase = "done" =>
    LET f == Fresh
    IN  ctx.out = f.out /\ ctx.macros = f.macros /\ ctx.cond.depth = f.cond.depth
=============================================================================

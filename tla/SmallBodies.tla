----------------------------- MODULE SmallBodies -----------------------------
(***************************************************************************)
(* Small function bodies in the statements of module Lowering, built from  *)
(* sets of statements S.  Instructions are told apart by id, conditions at *)
(* different depths have different names, "s" is what a switch selects on. *)
(***************************************************************************)
EXTENDS Integers, SequencesExt

Do(x)      == <<"instr", [op |-> "do", id |-> x]>>
Test(x)    == <<"test", x>>
Block(s)   == <<"block", s>>
Case(l, s) == [label |-> l, body |-> s]

Jumps == {<<"break">>, <<"continue">>, <<"return">>}

Ifs(S, c) == {<<"if", c, s>> : s \in S} \cup {<<"ifelse", c, s, t>> : s, t \in S}

Loops(S, c, step) ==
  {<<k, c, s>> : k \in {"while", "do"}, s \in S} \cup
  {<<"for", d, step[2], s>> : d \in {c, <<"none">>}, s \in S}

Switches(S) ==
  {<<"switch", "s", <<Case("one", <<s>>), Case(l, <<t>>)>>>> : l \in {"two", "default"}, s, t \in S}
  \cup {<<"switch", "s", <<Case("default", <<s>>)>>>> : s \in S}

\* Two statements in a row.  What follows a jump in its block is dead code,
\* which the optimizer of the syntax tree has removed.
EndsInJump(s) == s \in Jumps \/ (s[1] = "block" /\ Last(s[2]) \in Jumps)
Pairs(S, R)   == {Block(<<s, t>>) : s \in {x \in S : ~EndsInJump(x)}, t \in R}

\* One statement inside another, with a short circuit for a condition; inst is
\* an instruction that goes beside it.
Around(s, inst) ==
  {<<"while", <<"and", "q", "r">>, s>>, <<"do", <<"or", "q", "r">>, s>>,
   <<"for", Test("q"), inst[2], s>>,
   <<"if", <<"or", "q", "r">>, s>>, <<"ifelse", <<"and", "q", "r">>, s, inst>>,
   <<"ifelse", Test("q"), inst, s>>,
   <<"switch", "s", <<Case("one", <<s>>), Case("two", <<inst>>), Case("default", <<inst>>)>>>>}
  \cup {<<"for", <<"none">>, inst[2], b>> : b \in Pairs({s}, {inst})}

AroundAll(S, inst) == UNION {Around(s, inst) : s \in S}

\* do { if (p) while (q) continue; else if (r) break; else { inst; continue; } } while (t);
Unordered(inst) ==
  <<"do", Test("t"),
    <<"ifelse", Test("p"), <<"while", Test("q"), <<"continue">>>>,
      <<"ifelse", Test("r"), <<"break">>, Block(<<inst, <<"continue">>>>)>>>>>>
=============================================================================

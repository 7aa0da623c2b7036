--------------------------- MODULE MCExpressionRun ---------------------------
(***************************************************************************)
(* Expressions of three operators: each operator of the list around, and   *)
(* in each operand of, each.  They are built from the bottom up, each with *)
(* its tokens and the tree that C's grammar gives it.  "level" is the      *)
(* nonterminal it is an instance of, from 0 (primary) to 16 (comma).       *)
(* Expressions with a cast that the parser applies too late, or refuses,   *)
(* are left out, by brackets around an operand; three marks tell which:    *)
(* "loose", it holds a cast or a compound literal outside every '(';       *)
(* "starts", it begins with a cast of something without brackets; "open",  *)
(* it is a cast of a postfix expression, and nothing in it makes the       *)
(* parser apply the cast.                                                  *)
(***************************************************************************)
EXTENDS ExprParse

Phrase(l, toks, tree, loose, starts) ==
  [level |-> l, toks |-> toks, tree |-> tree, loose |-> loose, starts |-> starts, open |-> FALSE]
P(k) == <<Token(k, "")>>
Paren(toks) == P("(") \o toks \o P(")")

\* x as an operand of at most that level, without brackets if it may be.
Bare(x, max) == x.level <= max
Fit(x, max) == IF Bare(x, max) THEN x.toks ELSE Paren(x.toks)
\* An operand of sizeof; one before ']', '?', ':' or a comma operator; one after ':'.
Closed(x) == IF x.loose THEN [x EXCEPT !.level = 17] ELSE x
Applied(x) == IF x.open THEN [x EXCEPT !.level = 17] ELSE x
Plain(x) == IF x.starts THEN [x EXCEPT !.level = 17] ELSE x
Loose(x, max) == x.loose /\ Bare(x, max)
Starts(x, max) == x.starts /\ Bare(x, max)

Id(v) == Phrase(0, <<Token("id", v)>>, Node("id", v, << >>), FALSE, FALSE)
TypeOf(k, v) == Phrase(0, <<Token(k, v)>>, Node("type", v, << >>), FALSE, FALSE)
PtrTo(t) == Phrase(0, t.toks \o P("*"), Node("type", t.tree.a, Append(t.tree.kids, Token("*", ""))), FALSE, FALSE)

Post(x)     == Phrase(1, Fit(x, 1) \o P("++"), Node("post", "++", <<x.tree>>), Loose(x, 1), FALSE)
Member(x)   == Phrase(1, Fit(x, 1) \o P(".") \o <<Token("id", "m")>>, Node(".", "m", <<x.tree>>), Loose(x, 1), FALSE)
Index(x, y) == LET i == Applied(y)
               IN Phrase(1, Fit(x, 1) \o P("[") \o Fit(i, 15) \o P("]"),
                         Node("index", "", <<x.tree, y.tree>>), Loose(x, 1) \/ Loose(i, 15), FALSE)
Call(f, xs) == Phrase(1, Fit(f, 1) \o P("(")
                           \o FlattenSeq([i \in DOMAIN xs |-> (IF i > 1 THEN P(",") ELSE << >>)
                                                              \o Fit(xs[i], 15)])
                           \o P(")"),
                      Node("call", "", <<f.tree>> \o [i \in DOMAIN xs |-> xs[i].tree]), Loose(f, 1), FALSE)
Unary(o, x) == LET max == IF o = "++" THEN 1 ELSE 3
               IN Phrase(2, P(o) \o Fit(x, max), Node("unary", o, <<x.tree>>), Loose(x, max), FALSE)
SizeOf(x)   == Phrase(2, P("sizeof") \o Fit(Closed(x), 2), Node("sizeof", "", <<x.tree>>), FALSE, FALSE)
SizeOfType(t) == Phrase(2, P("sizeof") \o Paren(t.toks), Node("sizeof", "type", <<t.tree>>), FALSE, FALSE)
Cast(t, x)  == [Phrase(3, Paren(t.toks) \o Fit(x, 3), Node("cast", "", <<t.tree, x.tree>>), TRUE,
                       Bare(x, 2) \/ Starts(x, 3))
                EXCEPT !.open = Bare(x, 1) \/ (Bare(x, 3) /\ x.open)]
Binary(o, x, y) ==
  LET l == prec_of(o) + 3
  IN Phrase(l, Fit(x, l) \o P(o) \o Fit(y, l - 1), Node("binary", o, <<x.tree, y.tree>>),
            Loose(x, l) \/ Loose(y, l - 1), Starts(x, l))
Cond(x, y, z) ==
  LET i == Applied(x)
      t == Applied(y)
      e == Plain(z)
  IN Phrase(14, Fit(i, 13) \o P("?") \o Fit(t, 15) \o P(":") \o Fit(e, 14),
            Node("?:", "", <<x.tree, y.tree, z.tree>>),
            Loose(i, 13) \/ Loose(t, 15) \/ Loose(e, 14), Starts(i, 13))
Assign(x, y) == Phrase(15, Fit(x, 2) \o P("=") \o Fit(y, 15), Node("binary", "=", <<x.tree, y.tree>>),
                       Loose(x, 2) \/ Loose(y, 15), FALSE)
Comma(x, y) ==
  LET l == Applied(x)
  IN Phrase(16, Fit(l, 16) \o P(",") \o Fit(y, 15), Node("binary", ",", <<x.tree, y.tree>>),
            Loose(l, 16) \/ Loose(y, 15), Starts(l, 16))

\* Operands that are parsed wholesale: kept in brackets under a cast, ++ and sizeof.
Whole(toks, tree) == Phrase(0, toks, tree, FALSE, FALSE)
VaArg(x, t) == Whole(P("va_arg") \o Paren(Fit(x, 13) \o P(",") \o t.toks),
                     Node("va_arg", "", <<x.tree, t.tree>>))
Generic(x, t, y, z) ==
  Whole(P("_Generic") \o Paren(Fit(x, 13) \o P(",") \o t.toks \o P(":") \o Fit(y, 13) \o P(",")
                               \o P("default") \o P(":") \o Fit(z, 13)),
        Node("_Generic", "", <<x.tree, t.tree, y.tree, NoNode, z.tree>>))
Literal(t) == Phrase(0, Paren(t.toks) \o P("{") \o P("}"), Node("literal", "", <<t.tree>>), TRUE, FALSE)
TypeAt(x, i) == x.toks[i].k = "type" \/ x.toks[i] = Token("id", "T")
Kept(x) ==
  IF /\ x.level <= 2
     /\ \/ x.toks[1].k \in {"va_arg", "_Generic"}
        \/ x.toks[1].k = "(" /\ TypeAt(x, 2)
        \/ x.toks[1].k = "sizeof" /\ x.toks[2].k = "(" /\ TypeAt(x, 3)
  THEN [x EXCEPT !.level = 17] ELSE x

MCTypedefs == {"T"}

a == Id("a")
b == Id("b")
c == Id("c")
T == TypeOf("id", "T")
int == TypeOf("type", "int")

Binaries == {"*", "+", "-", "==", "&&"}

MCAround(x) ==
  {Post(x), Member(x), Unary("-", x), Unary("*", x), Unary("++", Kept(x)), SizeOf(Kept(x)),
   Cast(T, Kept(x)), Cast(PtrTo(int), Kept(x)), Index(x, b), Index(b, x),
   Call(x, << >>), Call(b, <<x, c>>), Call(b, <<c, x>>),
   Cond(x, b, c), Cond(b, x, c), Cond(b, c, x), Assign(x, b), Assign(b, x),
   Comma(x, b), Comma(b, x), VaArg(x, int),
   Generic(x, T, b, c), Generic(b, T, x, c), Generic(b, int, c, x)}
  \cup UNION {{Binary(o, x, b), Binary(o, b, x)} : o \in Binaries}

Once == MCAround(a) \cup {SizeOfType(int), SizeOfType(PtrTo(T)), Literal(int)}

MCOperands == UNION {MCAround(x) : x \in Once}
==============================================================================

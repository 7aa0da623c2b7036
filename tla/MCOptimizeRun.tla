---------------------------- MODULE MCOptimizeRun ----------------------------
(***************************************************************************)
(* Programs for the passes: a variable of each type that a literal         *)
(* initializes, two statements, and a return; every operator on every pair *)
(* of literal types; enumerations.  Within a function no name is declared  *)
(* twice, no initializer has a type other than the variable's (int for     *)
(* char and bool), no unsigned variable starts below zero, and no          *)
(* comparison of unsigned operands is an operand where its sign matters.   *)
(***************************************************************************)
EXTENDS OptimizeRun

Id(x) == Tree("id", x, 0, << >>)
Num(v) == Lit("int", v)
Bin(o, x, y) == Tree("binary", o, 0, <<x, y>>)
Un(o, x) == Tree("unary", o, 0, <<x>>)
Post(o, x) == Tree("post", o, 0, <<x>>)
Cast(t, x) == Tree("cast", t, 0, <<x>>)
CondE(x, y, z) == Tree("?:", "", 0, <<x, y, z>>)
CallE(x) == Tree("call", "", 0, <<x>>)
Arm(t, x) == Tree("arm", t, 0, <<x>>)
GenericE(x, y, z, d) == Tree("generic", "", 0, <<x, Arm("long", y), Arm("int", z), Arm("default", d)>>)
Stmt(x) == Tree("expr", "", 0, <<x>>)
Block(s) == Tree("block", "", 0, s)
If(x, s, t) == Tree("if", "", 0, <<x, s, t>>)
While(x, s) == Tree("while", "", 0, <<x, s>>)
DoWhile(x, s) == Tree("dowhile", "", 0, <<x, s>>)
For(i, x, u, s) == Tree("for", "", 0, <<i, x, u, s>>)
Return(x) == Tree("return", "", 0, <<x>>)
Goto(l) == Tree("goto", l, 0, << >>)
Label(l, s) == Tree("label", l, 0, <<s>>)
Break == Tree("break", "", 0, << >>)
Continue == Tree("continue", "", 0, << >>)
Case(v, s) == Tree("case", ToString(v), v, <<Num(v)>> \o s)
Default(s) == Tree("default", "", 0, <<Null>> \o s)
Switch(x, s) == Tree("switch", "", 0, <<x, Block(s)>>)
Assertion == Tree("static_assert", "", 0, <<Num(1)>>)
Var(t, x, i) == Tree("decl", x, 0, <<Tree("type", t, 0, << >>), i>>)
Func(s) == Tree("func", "f", 0, <<Block(s)>>)
Enum(es) == Tree("enum", "", 0, es)
Enumerator(x, v) == Tree("enumerator", x, 0, <<v>>)
Program(s) == Tree("program", "", 0, <<Func(s)>>)

a == Id("a")
x == Id("x")
Operators == {"+", "-", "*", "/", "%", "&", "|", "^", "<<", ">>", "<", "==", "&&", "||"}
Operands == {Num(0), Num(1), Num(3), Lit("uint", 1), Lit("uint", 7), Lit("long", 5), Lit("ulong", 2), Un("-", Num(2)), a}
\* The count of a shift is an int, and a comparison that is an operand has int operands.
Ints == {Num(0), Num(1), Num(3), Un("-", Num(2))}
Pairs(l) == {b \in {Bin(o, l, r) : o \in Operators, r \in Operands} : b.a \in {"<<", ">>"} => b.kids[2] \in Ints}
            \cup {Un(o, l) : o \in {"-", "~", "!", "+"}}
Inner(l) == {p \in Pairs(l) : p.a \in {"<", "==", "&&", "||"} => ToSet(p.kids) \subseteq Ints}
Nested(p) == {Bin(o, p, l) : o \in {"-", "<", "/", ">>"}, l \in {Num(1), Lit("long", 5), Lit("uint", 7)}}
             \cup {Cast(t, p) : t \in {"char", "uchar", "uint", "long"}}
             \cup {GenericE(p, Num(1), Num(2), Num(3)), CondE(Bin("<", p, Num(2)), a, Num(1))}
Expressions(l) == {Program(<<Return(e)>>) : e \in Pairs(l) \cup UNION {Nested(p) : p \in Inner(l)}}

Initial == {Var("int", "x", Num(1)), Var("int", "x", Un("-", Num(1))), Var("uint", "x", Num(1)),
            Var("long", "x", Lit("long", 5)), Var("bool", "x", Num(3)), Var("char", "x", Num(1)),
            Var("int", "x", a), Var("int", "x", Bin("+", Num(1), Num(1)))}
Changes == {Stmt(CallE(x)), Stmt(Bin("=", x, a)), Stmt(Bin("+=", x, Num(1))), Stmt(Post("++", x)),
            Stmt(Un("--", x)), Stmt(CallE(Un("&", x))), Var("int", "y", x)}
Conds == {Num(0), Num(1), x, a, Bin("-", x, Num(1)), Un("!", x), Bin("&&", x, CallE(x))}
Ends == {Break, Continue, Return(x), Goto("L")}
Asserted == <<Block(<<Var("long", "y", x), Assertion>>), Assertion>>
Lists == {Asserted} \cup {<<s>> : s \in Changes} \cup {<<s, Stmt(CallE(x))>> : s \in {Return(x), Stmt(Post("++", x))}}
Compound == {If(c, Block(s), Null) : c \in Conds, s \in Lists}
            \cup {If(c, Block(s), Block(<<Stmt(CallE(Num(2)))>>)) : c \in {Num(0), Num(1), x}, s \in Lists}
            \cup {While(c, Block(s \o <<e, Stmt(CallE(x))>>)) : c \in {Num(0), Num(1), x}, s \in Lists, e \in Ends}
            \cup {DoWhile(c, Block(<<If(a, Block(<<e>>), Null)>> \o s)) : c \in {Num(0), x}, s \in Lists, e \in Ends}
            \cup {For(Var("int", "i", Num(0)), Bin("<", Id("i"), Num(2)), Post("++", Id("i")), Block(s)) : s \in Lists}
            \cup {Block(<<For(Var("int", "i", Num(0)), Bin("<", Id("i"), Num(2)), Post("++", Id("i")), Block(Asserted)), Assertion>>)}
            \cup {Switch(x, <<Case(1, s \o <<Break>>), Case(2, s), Default(<<Stmt(CallE(a))>>)>>) : s \in Lists}
            \cup {Block(<<If(Num(0), Block(<<Assertion, Stmt(CallE(x))>>), Null), e, Assertion, Stmt(CallE(x))>>) : e \in Ends \ {Break, Continue}}
Then == {<< >>, <<Stmt(CallE(Un("&", x)))>>, <<Stmt(Post("++", x)), Goto("L")>>, <<Stmt(Bin("=", x, Bin("+", x, a)))>>}
Functions(i) == {Program(<<i, s>> \o t \o <<Label("L", Stmt(CallE(x))), Return(x)>>) : s \in Changes \cup Compound, t \in Then}

A(v) == Enumerator("A", v)
B(v) == Enumerator("B", v)
C(v) == Enumerator("C", v)
SizeOf(t) == Tree("sizeof", t, 0, << >>)
EnumValues == {Null, Num(2), Bin("+", Num(1), Num(1)), Un("-", Num(2)), Cast("char", Num(3)), SizeOf("char")}
Enums(u) == {Tree("program", "", 0, <<Enum(<<u, B(v), C(w)>>), Func(<<Var("int", "x", Id("B")), Return(Bin("+", Bin("-", Id("C"), Id("A")), x))>>)>>) :
            v \in EnumValues \cup {Id("A"), Bin("-", Num(0), Id("A"))}, w \in {Null, Id("B")}}
MCSeeds == Operands \cup Initial \cup {A(v) : v \in EnumValues}
MCAround(s) == IF s \in Operands THEN Expressions(s) ELSE IF s.op = "enumerator" THEN Enums(s) ELSE Functions(s)
MCParameters == [n \in {"a"} |-> "int"]
MCParams == {[n \in {"a"} |-> Val("int", v)] : v \in {-4, 0, 1, 2}}
==============================================================================

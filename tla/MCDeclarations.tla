---------------------------- MODULE MCDeclarations ----------------------------
(***************************************************************************)
(* Units for Declarations, each with what C says of it.  A declarator is   *)
(* written as the derivations from the name outwards, a pointer, an array  *)
(* or a function, and printed with the parentheses it needs.               *)
(***************************************************************************)
EXTENDS Declarations

CONSTANTS MaxDerivations

I32 == IR("i32")
K(words) == [i \in DOMAIN words |-> Tok(words[i])]
RecordIR(tag, members) == <<tag, FALSE, members>>
Unit0 == [toks |-> << >>, valid |-> TRUE, names |-> {}, records |-> {}, globals |-> {}, funcs |-> {},
          bodies |-> << >>]

----------------------------------------------------------------------------
(* Declarators.                                                            *)

Ptr == [d |-> "ptr", n |-> 0, toks |-> <<Tok("*")>>, args |-> << >>]
Arr(tok, n) == [d |-> "array", n |-> n, toks |-> <<Tok("["), tok, Tok("]")>>, args |-> << >>]
Fun(toks, args) == [d |-> "func", n |-> 0, toks |-> <<Tok("(")>> \o toks \o <<Tok(")")>>, args |-> args]
Void == Fun(<<Tok("void")>>, << >>)
OfInt == Fun(<<Tok("int")>>, <<I32>>)

Derivations == {Ptr, Arr(Lit(2), 2), Void, OfInt}
\* C has no array of functions, and no function that returns one or an array.
Allowed(ds) == \A i \in 1..(Len(ds) - 1) :
                 ds[i].d \in {"array", "func"} => ds[i + 1].d = "ptr" \/ (ds[i].d = "array" /\ ds[i + 1].d = "array")
Declarators(n) == {ds \in SeqOf(Derivations, n) : Allowed(ds)}

\* The declarator around the tokens of the name.
Enclosed(toks) == <<Tok("(")>> \o toks \o <<Tok(")")>>
Around(acc, d) ==
  IF d.d = "ptr" THEN [toks |-> d.toks \o acc.toks, ptr |-> TRUE]
  ELSE [toks |-> (IF acc.ptr THEN Enclosed(acc.toks) ELSE acc.toks) \o d.toks, ptr |-> FALSE]
Printed(name, ds) == FoldLeft(Around, [toks |-> <<Id(name)>>, ptr |-> FALSE], ds).toks

Derived(d, t) == CASE d.d = "ptr" -> ir_ptr_type(t)
                   [] d.d = "array" -> ir_array_type(t, d.n)
                   [] OTHER -> ir_func_type(t, d.args, FALSE)
Means(ds, base) == FoldRight(Derived, ds, base)
\* A parameter is adjusted.
Adjusted(t) == CASE t.k = "array" -> ir_ptr_type(t.of) [] t.k = "func" -> ir_ptr_type(t) [] OTHER -> t

Semi == <<Tok(";")>>
Defined(name) == [name |-> name, ty |-> NoType, space |-> "host", link |-> "external", value |-> Zero]

Function0(name) == [name |-> name, link |-> "external", ctor |-> FALSE]

\* The base types, with what has to come before them.
Base(pre, toks, ty, records) == [pre |-> pre, toks |-> toks, ty |-> ty, records |-> records]
StructS == <<Tok("struct"), Id("S"), Tok("{"), Tok("int"), Id("a"), Tok(";"), Tok("}"), Tok(";")>>
TypedefT == <<Tok("typedef"), Tok("char"), Tok("*"), Id("T"), Tok(";")>>
Bases == {Base(<< >>, <<Tok("int")>>, I32, {}),
          Base(StructS, <<Tok("struct"), Id("S")>>, Record("S"), {RecordIR("S", <<I32>>)}),
          Base(TypedefT, <<Id("T")>>, ir_ptr_type(IR("i8")), {})}

\* Where a declarator may stand: an object or a function of the unit, a typedef
\* that another declarator uses, a parameter, a member, a variable of a body.
AsName(b, ds) ==
  [Unit0 EXCEPT !.toks = b.pre \o b.toks \o Printed("x", ds) \o Semi,
                !.names = {<<"x", Means(ds, b.ty)>>}, !.records = b.records,
                !.globals = IF ds # << >> /\ ds[1].d = "func" THEN {} ELSE {Defined("x")}]
AsTypedef(b, ds, use) ==
  [Unit0 EXCEPT !.toks = b.pre \o <<Tok("typedef")>> \o b.toks \o Printed("D", ds) \o Semi
                           \o <<Id("D")>> \o Printed("x", use) \o Semi,
                !.names = {<<"x", Means(use, Means(ds, b.ty))>>}, !.records = b.records,
                !.globals = {Defined("x")}]
AsParam(b, ds) ==
  [Unit0 EXCEPT !.toks = b.pre \o <<Tok("void"), Id("f"), Tok("(")>> \o b.toks \o Printed("x", ds)
                           \o <<Tok(",")>> \o b.toks \o <<Tok(")")>> \o Semi,
                !.names = {<<"f", ir_func_type(IR("void"), <<Adjusted(Means(ds, b.ty)), b.ty>>, FALSE)>>},
                !.records = b.records]
AsMember(b, ds) ==
  [Unit0 EXCEPT !.toks = b.pre \o <<Tok("struct"), Id("R"), Tok("{")>> \o b.toks \o Printed("x", ds)
                           \o <<Tok(","), Id("y")>> \o Semi \o <<Tok("}")>> \o Semi
                           \o <<Tok("struct"), Id("R"), Id("r"), Tok(";")>>,
                !.names = {<<"r", Record("R")>>},
                !.records = b.records \cup {RecordIR("R", <<Means(ds, b.ty), b.ty>>)},
                !.globals = {Defined("r")}]
AsLocal(b, ds) ==
  [Unit0 EXCEPT !.toks = b.pre \o <<Tok("void"), Id("f"), Tok("("), Tok(")"), Tok("{")>> \o b.toks
                           \o Printed("x", ds) \o <<Tok(","), Tok("*"), Id("y")>> \o Semi \o <<Tok("}")>>,
                !.names = {<<"x", Means(ds, b.ty)>>, <<"y", ir_ptr_type(b.ty)>>,
                           <<"f", ir_func_type(IR("void"), << >>, FALSE)>>},
                !.records = b.records, !.funcs = {Function0("f")},
                !.bodies = <<Stmt("block", << >>, <<<<[Node("var") EXCEPT !.name = "x"],
                                                      [Node("var") EXCEPT !.name = "y"]>>>>)>>]

AsPair(b, ds, es) ==
  [Unit0 EXCEPT !.toks = b.pre \o b.toks \o Printed("x", ds) \o <<Tok(",")>> \o Printed("y", es) \o Semi,
                !.names = {<<"x", Means(ds, b.ty)>>, <<"y", Means(es, b.ty)>>}, !.records = b.records,
                !.globals = {Defined("x")} \cup (IF es # << >> /\ es[1].d = "func" THEN {} ELSE {Defined("y")})]

Function(ds) == ds # << >> /\ ds[1].d = "func"
\* What the parser reads otherwise, whatever stands around it: an array that
\* something other than the name itself points to; more than two pointers and
\* arrays around a function, which do not tell what is its result; a declarator
\* in parentheses after the name of a type; a pointer to a function of a record's.
At(ds, d) == {i \in DOMAIN ds : ds[i].d = d}
InnerArray(ds) == \E i \in At(ds, "array") : i > 2 /\ ds[i - 1].d = "ptr"
Layered3(ds) ==
  \E f \in At(ds, "func") : /\ f > 1
                            /\ CASE \E g \in At(ds, "func") : g < f -> f > 1 + Max({g \in At(ds, "func") : g < f}) + 1
                                 [] \E g \in At(ds, "func") : g > f -> FALSE
                                 [] OTHER -> f < Len(ds) /\ Len(ds) > 3
Opens(b, ds) == b.toks[1].k = "id" /\ SelectSeq(Printed("x", ds), LAMBDA t : t.k # "*")[1].k = "("
OfRecord(b, ds) == b.toks[1].k = "struct" /\ \E i \in At(ds, "func") : i > 1 /\ ds[i - 1].d = "ptr"

Uses(ds) == IF Function(ds) THEN {<<Ptr>>} ELSE {<< >>, <<Ptr>>, <<Arr(Lit(2), 2)>>}
DeclaratorUnits ==
  LET D == {ds \in Declarators(MaxDerivations) : ~InnerArray(ds) /\ ~Layered3(ds)}
      Objects == {<<b, ds>> \in Bases \X D : ~Opens(b, ds) /\ ~OfRecord(b, ds)}
      Types == {<<b, ds>> \in Objects : ~(Function(ds) /\ b.toks[1].k = "struct")}
      Short == {x \in Objects : Len(x[2]) <= 2}
  IN {AsName(x[1], x[2]) : x \in Objects}
       \cup UNION {{AsTypedef(x[1], x[2], use) : use \in {v \in Uses(x[2]) : ~Function(v) /\ Allowed(v \o x[2])}}
                   : x \in Types}
       \cup {AsPair(v[1][1], v[1][2], v[2][2]) :
                  v \in {w \in Short \X Short : w[1][1] = w[2][1] /\ ~Function(w[1][2])}}
       \cup {AsParam(b, ds) : b \in Bases, ds \in {v \in D : ~Function(v)}}
       \cup {AsMember(b, ds) : b \in Bases, ds \in {v \in D : ~Function(v)}}
       \cup {AsLocal(x[1], x[2]) : x \in {y \in Objects : ~Function(y[2])}}

\* Bounds, of which some are no constants; the limits of the parser.
OfInts == Base(<< >>, K(<<"int">>), I32, {})
Bounds == {<<Expr("folded", 3), 3>>, <<Expr("const", 5), 5>>, <<Expr("const", 0), 0>>, <<Expr("const", -1), 0>>,
           <<Expr("runtime", 0), 0>>, <<Id("N"), 0>>}
Invalid(item, bad) == [item EXCEPT !.valid = ~bad]
Repeated(x, n) == [i \in 1..n |-> x]
Nested(n) == [AsName(OfInts, << >>) EXCEPT !.toks = K(<<"int">>) \o Repeated(Tok("("), n) \o <<Id("x")>>
                                                   \o Repeated(Tok(")"), n) \o Semi]
LimitUnits ==
  UNION {{Invalid(AsName(OfInts, <<Ptr, Arr(b[1], b[2])>>), b[2] = 0), Invalid(AsLocal(OfInts, <<Arr(b[1], b[2])>>), b[2] = 0),
          AsParam(OfInts, <<Arr(b[1], b[2])>>)} : b \in Bounds}
    \cup {Invalid(Nested(n), n > MAX_DECL_DEPTH) : n \in 1..(MAX_DECL_DEPTH + 1)}
    \cup {Invalid(AsName(OfInts, Repeated(Arr(Lit(2), 2), n)), n > MAX_SUFFIX) : n \in {MAX_SUFFIX, MAX_SUFFIX + 1}}
    \cup {Invalid([AsName(OfInts, << >>) EXCEPT !.toks = t], TRUE) :
          t \in {<<Tok("int"), Id("x")>>, <<Tok("int"), Id("x"), Tok("=")>> \o Semi,
                 <<Tok("__global__"), Tok("int"), Id("x"), Tok("("), Tok(")"), Tok("{"), Tok("}")>>}}

----------------------------------------------------------------------------
(* Units of several declarations: items in every order in which each has   *)
(* what it needs, of a record that is named before it is defined, by a     *)
(* typedef, through pointers and inside other records and functions.       *)

CONSTANTS MaxItems

Item(needs, gives, toks) ==
  [Unit0 EXCEPT !.toks = toks] @@ [needs |-> needs, gives |-> gives]
Object(name, ty) == [names |-> {<<name, ty>>}, globals |-> {Defined(name)}]
Of(item, x) == [item EXCEPT !.names = x.names, !.globals = x.globals]

Tag(k, name) == <<Tok(k), Id(name)>>
S == Tag("struct", "S")
Braced(toks) == K(<<"{">>) \o toks \o K(<<"}">>)
PtrS == ir_ptr_type(Record("S"))
Locals0 == [i \in 1..3 |-> [Node("var") EXCEPT !.name = <<"y", "z", "w">>[i]]]

Items ==
  {Item({}, {"fwd"}, S \o Semi),
   [Item({}, {"S"}, S \o Braced(<<Tok("int"), Id("a"), Tok(";")>> \o S \o <<Tok("*"), Id("n"), Tok(";")>>) \o Semi)
      EXCEPT !.records = {RecordIR("S", <<I32, PtrS>>)}],
   Item({}, {"T"}, K(<<"typedef">>) \o S \o <<Id("T"), Tok(";")>>),
   Of(Item({}, {"q"}, S \o <<Tok("*"), Id("q"), Tok(";")>>), Object("q", PtrS)),
   Of(Item({"T", "S", "E"}, {"x"}, <<Id("T"), Id("x"), Tok(","), Tok("*"), Id("xs"), Tok("["), Id("C"), Tok("]")>> \o Semi),
      [names |-> {<<"x", Record("S")>>, <<"xs", ir_array_type(PtrS, 4)>>}, globals |-> {Defined("x"), Defined("xs")}]),
   [Of(Item({"T", "S"}, {"Q"}, Tag("union", "Q") \o Braced(S \o <<Id("s"), Tok(";"), Id("T"), Tok("*"), Id("p"), Tok(";")>>) \o Semi
                              \o Tag("union", "Q") \o <<Id("r"), Tok(";")>>),
       Object("r", Record("Q"))) EXCEPT !.records = {<<"Q", TRUE, <<Record("S"), PtrS>>>>}],
   [Of(Item({"T", "S"}, {"U"}, K(<<"typedef", "struct">>) \o Braced(<<Tok("char"), Id("c"), Tok(";"), Id("T"), Id("t"), Tok(";")>>)
                              \o <<Id("U"), Tok(";"), Id("U"), Id("v"), Tok(";")>>),
       Object("v", Record(""))) EXCEPT !.records = {RecordIR("", <<IR("i8"), Record("S")>>)}],
   Item({}, {"E"}, Tag("enum", "E") \o Braced(<<Id("A"), Tok(","), Id("B"), Tok("="), Lit(3), Tok(","), Id("C"), Tok(",")>>) \o Semi),
   [Of(Item({"E"}, {"W"}, Tag("struct", "W") \o Braced(<<Tok("int"), Id("m"), Tok("["), Id("C"), Tok("]"), Tok("["), Expr("const", 2), Tok("]"), Tok(";")>>)
                         \o <<Tok("*"), Id("o"), Tok(";")>>),
       Object("o", ir_ptr_type(Record("W")))) EXCEPT !.records = {RecordIR("W", <<ir_array_type(ir_array_type(I32, 2), 4)>>)}],
   [Item({"T", "S"}, {"f"}, <<Tok("void"), Id("f"), Tok("("), Id("T"), Tok("*"), Id("b"), Tok(")")>>
                        \o Braced(S \o <<Id("y"), Tok(";"), Id("T"), Tok("*"), Id("z"), Tok(";")>>
                                  \o Tag("struct", "L") \o Braced(<<Id("T"), Id("t"), Tok(";")>>) \o Semi
                                  \o Tag("struct", "L") \o <<Id("w"), Tok(";")>>))
      EXCEPT !.names = {<<"f", ir_func_type(IR("void"), <<PtrS>>, FALSE)>>, <<"y", Record("S")>>,
                        <<"z", PtrS>>, <<"w", Record("L")>>},
             !.records = {RecordIR("L", <<Record("S")>>)},
             !.funcs = {Function0("f")},
             !.bodies = <<Stmt("block", << >>,
                            <<<<Locals0[1], Locals0[2], [Node("struct") EXCEPT !.name = "L", !.fields = 0], Locals0[3]>>>>)>>]}

Together(items) ==
  [Unit0 EXCEPT !.toks = FlattenSeq([i \in DOMAIN items |-> items[i].toks]),
                !.names = UNION {items[i].names : i \in DOMAIN items},
                !.globals = UNION {items[i].globals : i \in DOMAIN items},
                !.funcs = UNION {items[i].funcs : i \in DOMAIN items},
                !.bodies = FlattenSeq([i \in DOMAIN items |-> items[i].bodies]),
                \* A record that is never defined has no members.
                !.records = UNION {items[i].records : i \in DOMAIN items}
                              \cup (IF \E i \in DOMAIN items : "S" \in items[i].gives THEN {}
                                    ELSE {RecordIR("S", << >>)})]
Given(items, i) == UNION {items[j].gives : j \in 1..(i - 1)}
WellFormed(items) == \A i \in DOMAIN items : /\ items[i].needs \subseteq Given(items, i)
                                             /\ "fwd" \in items[i].gives => "S" \notin Given(items, i)
Longer(P) == P \cup {items \in {Append(s, x) : s \in P, x \in Items} : IsInjective(items) /\ WellFormed(items)}
ItemUnits == {Together(items) : items \in FoldLeft(LAMBDA acc, i : Longer(acc), {<< >>}, [i \in 1..MaxItems |-> i])}

----------------------------------------------------------------------------
(* The words of a declaration, and declarations of one object.             *)

Specs(words, ty) == [toks |-> K(words), ty |-> ty]
Specifiers0 ==
  {Specs(<<"char">>, IR("i8")), Specs(<<"unsigned", "char">>, IR("u8")), Specs(<<"signed", "char">>, IR("i8")),
   Specs(<<"short", "int">>, IR("i16")), Specs(<<"unsigned", "short", "int">>, IR("u16")),
   Specs(<<"unsigned">>, IR("u32")), Specs(<<"const", "unsigned", "int", "volatile">>, IR("u32")),
   Specs(<<"signed", "long">>, IR("i64")), Specs(<<"unsigned", "long", "long", "int">>, IR("u64")),
   Specs(<<"float">>, IR("f32")), Specs(<<"long", "double">>, IR("f64")), Specs(<<"_Bool">>, IR("i1")),
   Specs(<<"_Atomic", "(", "unsigned", ")">>, IR("u32")), Specs(<<"_Atomic", "long">>, IR("i64")),
   Specs(<<"void", "*">>, ir_ptr_type(IR("void")))}
\* A storage class after a qualifier or __device__, and __device__ after one of
\* an object, are read otherwise.  Where the words put an object: its linkage, address space and value.
Words(toks, link, space, value) == [toks |-> K(toks), link |-> link, space |-> space, value |-> value]
ObjectWords ==
  {Words(<< >>, "external", "host", Zero), Words(<<"static">>, "internal", "host", Zero),
   Words(<<"extern">>, "external", "host", NoInit), Words(<<"static", "const">>, "internal", "host", Zero),
   Words(<<"__device__">>, "external", "__global__", Zero), Words(<<"__constant__">>, "external", "__constant__", Zero),
   Words(<<"__device__", "__constant__">>, "external", "__constant__", Zero),
   Words(<<"extern", "__shared__">>, "external", "__shared__", NoInit)}
ObjectUnit(w, b) ==
  [Unit0 EXCEPT !.toks = w.toks \o b.toks \o <<Id("x")>> \o Semi, !.names = {<<"x", b.ty>>},
                !.globals = {[name |-> "x", ty |-> NoType, space |-> w.space, link |-> w.link, value |-> w.value]}]
FunctionWords ==
  {<< <<"static", "inline">>, "internal", FALSE>>, << <<"extern">>, "external", FALSE>>,
   << <<"__device__">>, "device", FALSE>>, << <<"__host__", "__device__">>, "external", FALSE>>,
   << <<"static", "__device__">>, "device", FALSE>>, << <<"__global__">>, "kernel", FALSE>>,
   << <<"inline">>, "external", FALSE>>, << <<"__attribute__", "(", "(", "constructor", ")", ")">>, "external", TRUE>>}
FunctionUnit(w) ==
  [Unit0 EXCEPT !.toks = [i \in DOMAIN w[1] |-> IF w[1][i] = "constructor" THEN Id("constructor") ELSE Tok(w[1][i])]
                           \o <<Tok("void"), Id("f"), Tok("("), Tok(")"), Tok("{"), Tok("}")>>,
                !.names = {<<"f", ir_func_type(IR("void"), << >>, FALSE)>>},
                !.funcs = {[name |-> "f", link |-> w[2], ctor |-> w[3]]},
                !.bodies = <<Stmt("block", << >>, <<<< >>>>)>>]
WordUnits == {ObjectUnit(w, b) : w \in ObjectWords, b \in Specifiers0} \cup {FunctionUnit(w) : w \in FunctionWords}

\* Declarations of one object: the value of the one that has one, zero when one
\* is a definition.
Value(n) == [k |-> "expr", v |-> Expr("e", n)]
Declares == {[toks |-> <<Tok("extern"), Tok("int"), Id("x"), Tok(";")>>, value |-> NoInit],
             [toks |-> <<Tok("int"), Id("x"), Tok(";")>>, value |-> Zero],
             [toks |-> <<Tok("int"), Id("x"), Tok("="), Expr("e", 7), Tok(";")>>, value |-> Value(7)],
             [toks |-> <<Tok("extern"), Tok("int"), Id("x"), Tok("="), Expr("e", 8), Tok(";")>>, value |-> Value(8)]}
ValueOf(ds) == LET values == {ds[i].value : i \in DOMAIN ds} \ {NoInit, Zero}
               IN IF values # {} THEN CHOOSE v \in values : TRUE
                  ELSE IF \E i \in DOMAIN ds : ds[i].value = Zero THEN Zero ELSE NoInit
\* A value after a definition without one is lost.
Agreeing(ds) == /\ Cardinality({i \in DOMAIN ds : ds[i].value \notin {NoInit, Zero}}) <= 1
                /\ \A i, j \in DOMAIN ds : i < j /\ ds[i].value = Zero => ds[j].value \in {NoInit, Zero}
Redeclared(ds) ==
  [Unit0 EXCEPT !.toks = FlattenSeq([i \in DOMAIN ds |-> ds[i].toks]), !.names = {<<"x", I32>>},
                !.globals = {[Defined("x") EXCEPT !.value = ValueOf(ds)]}]
RedeclaredUnits == {Redeclared(ds) : ds \in {v \in SeqOf(Declares, 3) : v # << >> /\ Agreeing(v)}}

----------------------------------------------------------------------------
(* Initializers and statements, printed as they are in the tree.           *)

One(n) == [k |-> "expr", v |-> Expr("e", n)]
Desig(steps, x) == [k |-> "desig", steps |-> steps, elems |-> <<x>>]
List(elems) == [k |-> "list", elems |-> elems]
Steps0 == {<<Expr("e", 1)>>, <<Id("a")>>, <<Id("a"), Expr("e", 1)>>}
Elems0 == {One(1), List(<<One(2), One(3)>>)} \cup {Desig(st, One(4)) : st \in Steps0}
            \cup {Desig(st, List(<<One(5)>>)) : st \in Steps0}
RECURSIVE PrintInit(_)
PrintSteps(steps) == FlattenSeq([i \in DOMAIN steps |-> IF steps[i].k = "id" THEN <<Tok("."), steps[i]>>
                                                        ELSE <<Tok("["), steps[i], Tok("]")>>]) \o <<Tok("=")>>
PrintInit(x) == CASE x.k = "expr" -> <<x.v>>
                  [] x.k = "desig" -> PrintSteps(x.steps) \o PrintInit(x.elems[1])
                  [] OTHER -> <<Tok("{")>> \o FlattenSeq([i \in DOMAIN x.elems |-> PrintInit(x.elems[i]) \o <<Tok(",")>>])
                                \o <<Tok("}")>>
\* The elements give an array its size; a designator does not count, so arrays
\* with designators have one.
ArrayOfInit(x) ==
  LET plain == \A i \in DOMAIN x.elems : x.elems[i].k # "desig"
  IN [Unit0 EXCEPT !.toks = <<Tok("int"), Id("x")>> \o (IF plain THEN K(<<"[", "]">>) ELSE <<Tok("["), Lit(9), Tok("]")>>)
                              \o <<Tok("=")>> \o PrintInit(x) \o Semi,
                   !.names = {<<"x", ir_array_type(I32, IF plain THEN Len(x.elems) ELSE 9)>>},
                   !.globals = {[Defined("x") EXCEPT !.value = x]}]
StringUnits == {[Unit0 EXCEPT !.toks = <<Tok("char"), Id("x"), Tok("["), Tok("]"), Tok("="), t, Tok(";")>>,
                              !.names = {<<"x", ir_array_type(IR("i8"), 3)>>},
                              !.globals = {[Defined("x") EXCEPT !.value = [k |-> "expr", v |-> t]]}] :
                  t \in {[k |-> "str", v |-> "str", n |-> 2]}}
InitUnits == {ArrayOfInit(List(elems)) : elems \in SeqOf(Elems0, 3) \ {<< >>}} \cup StringUnits

\* Statements.
Cond == Expr("e", 1)
Var0 == [Node("var") EXCEPT !.name = "i", !.init = One(2)]
Block(stmts) == Stmt("block", << >>, <<stmts>>)
Simple == {Stmt("expr", <<Expr("e", 3)>>, << >>), Stmt("break", << >>, << >>),
           Stmt("return", << >>, << >>)}
Rare == {[Node("goto") EXCEPT !.name = "l"], Stmt("assert", <<Expr("e", 4)>>, << >>), Stmt("continue", << >>, << >>),
         Stmt("return", <<Expr("e", 4)>>, << >>), Block(<< >>)}
Case(stmts) == Stmt("case", <<Expr("e", 5)>>, <<stmts>>)
Default(stmts) == Stmt("default", << >>, <<stmts>>)
Over1(X) ==
  {Stmt("if", <<Cond>>, <<<<s>>, << >>>>) : s \in X}
    \cup {Stmt("if", <<Cond>>, <<<<s>>, <<t>>>>) : s \in {x \in X : x.k # "if"}, t \in Simple}
    \cup {Stmt("if", <<Cond>>, <<<<s>>, <<t>>>>) : s \in Simple, t \in X}
    \cup {Stmt(k, <<Cond>>, <<<<s>>>>) : k \in {"while", "do"}, s \in X}
    \cup {Stmt("for", <<c, Tok("")>>, <<init, <<s>>>>) : c \in {Cond, Tok("")}, init \in {<< >>, <<Var0>>}, s \in X}
    \cup {Stmt("for", <<Cond, Expr("e", 6)>>, <<<<Stmt("expr", <<Expr("e", 3)>>, << >>)>>, <<s>>>>) : s \in X}
    \cup {Block(<<s, t>>) : s \in X, t \in {Var0} \cup Simple}
    \cup {Stmt("switch", <<Cond>>, <<<<Block(<<Case(<<s, t>>), Default(<<s>>)>>)>>>>) : s \in X, t \in Simple}
    \cup {[Stmt("label", << >>, <<<<s>>>>) EXCEPT !.name = "l"] : s \in X}
RECURSIVE PrintStmt(_), PrintAll(_)
PrintAll(chain) == FlattenSeq([i \in DOMAIN chain |-> PrintStmt(chain[i])])
InParens(e) == <<Tok("("), e, Tok(")")>>
Shown(e) == IF e.k = "" THEN << >> ELSE <<e>>
PrintStmt(n) ==
  CASE n.k = "var" -> <<Tok("int"), Id(n.name), Tok("="), n.init.v, Tok(";")>>
    [] n.k = "expr" -> n.exprs \o Semi
    [] n.k \in {"return", "break", "continue"} -> <<Tok(n.k)>> \o n.exprs \o Semi
    [] n.k = "goto" -> <<Tok("goto"), Id(n.name), Tok(";")>>
    [] n.k = "assert" -> <<Id("_Static_assert"), Tok("("), n.exprs[1], Tok(","), Tok("str"), Tok(")"), Tok(";")>>
    [] n.k = "block" -> Braced(PrintAll(n.kids[1]))
    [] n.k = "if" -> <<Tok("if")>> \o InParens(n.exprs[1]) \o PrintAll(n.kids[1])
                       \o (IF n.kids[2] = << >> THEN << >> ELSE <<Tok("else")>> \o PrintAll(n.kids[2]))
    [] n.k \in {"while", "switch"} -> <<Tok(n.k)>> \o InParens(n.exprs[1]) \o PrintAll(n.kids[1])
    [] n.k = "do" -> <<Tok("do")>> \o PrintAll(n.kids[1]) \o <<Tok("while")>> \o InParens(n.exprs[1]) \o Semi
    [] n.k = "for" -> <<Tok("for"), Tok("(")>> \o (IF n.kids[1] = << >> THEN Semi ELSE PrintAll(n.kids[1]))
                        \o Shown(n.exprs[1]) \o Semi \o Shown(n.exprs[2]) \o <<Tok(")")>> \o PrintAll(n.kids[2])
    [] n.k = "case" -> <<Tok("case"), n.exprs[1], Tok(":")>> \o PrintAll(n.kids[1])
    [] n.k = "default" -> <<Tok("default"), Tok(":")>> \o PrintAll(n.kids[1])
    [] OTHER -> <<Id(n.name), Tok(":")>> \o PrintAll(n.kids[1])
BodyUnit(s) ==
  [Unit0 EXCEPT !.toks = <<Tok("void"), Id("f"), Tok("("), Tok(")")>> \o PrintStmt(Block(<<s>>)),
                !.names = {<<"f", ir_func_type(IR("void"), << >>, FALSE)>>}
                            \cup (IF Id("i") \in ToSet(PrintStmt(s)) THEN {<<"i", I32>>} ELSE {}),
                !.funcs = {Function0("f")}, !.bodies = <<Block(<<s>>)>>]
BodyUnits == {BodyUnit(s) : s \in Over1(Rare \cup Over1(Simple))}

MCUnits == DeclaratorUnits \cup LimitUnits \cup ItemUnits \cup WordUnits \cup RedeclaredUnits \cup InitUnits \cup BodyUnits
==============================================================================

------------------------------ MODULE DeclParse ------------------------------
(***************************************************************************)
(* The declarations and the statements of parser/ll.  Both hold each other:*)
(* a function has a body, a block has declarations.  What one of the       *)
(* parsers returns, a chain of nodes, is the parser's register "nodes".    *)
(***************************************************************************)
EXTENDS Declarators

NoInit == [k |-> "none"]

\* A node: its kind and name, where a declaration's type is kept, its linkage,
\* address space and initializer, where a record's fields are, the members of an
\* enum, the expressions of a statement and the chains of nodes below it.  The
\* type of a function holds its parameters.
Node(k) == [k |-> k, name |-> "", ty |-> 0, link |-> "host", space |-> "host",
            ctor |-> FALSE, init |-> NoInit, fields |-> 0, enums |-> << >>,
            exprs |-> << >>, kids |-> << >>]

----------------------------------------------------------------------------
(* Expressions, which lr1_parse_expr reads, and initializers.              *)

Operands == {"expr", "lit", "id", "str"}
\* With the flag, the expression takes the ')' that ends it along.
ll_parse_expr(p, unmatched) ==
  CASE Cur(p) \notin Operands -> [p EXCEPT !.error = TRUE, !.init = NoInit]
    [] unmatched -> [ll_expect(Skip(p), ")") EXCEPT !.init = [k |-> "expr", v |-> Ahead(p, 0)]]
    [] OTHER -> [Skip(p) EXCEPT !.init = [k |-> "expr", v |-> Ahead(p, 0)]]

\* The walk over a braced list that counts its elements.
BraceStep(s, tok) ==
  CASE s.depth = 0 -> s
    [] tok.k = "{" -> [s EXCEPT !.depth = @ + 1, !.has = @ \/ s.depth = 1]
    [] tok.k = "}" -> [s EXCEPT !.depth = @ - 1]
    [] s.depth = 1 /\ tok.k = "," -> [s EXCEPT !.count = @ + 1, !.has = FALSE]
    [] s.depth = 1 -> [s EXCEPT !.has = TRUE]
    [] OTHER -> s
ElementsOf(p) ==
  LET s == FoldLeft(BraceStep, [depth |-> 1, count |-> 0, has |-> FALSE],
                    SubSeq(p.toks, p.pos + 1, Len(p.toks)))
  IN s.count + (IF s.has THEN 1 ELSE 0)

RECURSIVE Pointers(_), Pointee(_), Sized(_, _)
Pointers(t) == IF t.k = "ptr" THEN 1 + Pointers(t.inner) ELSE 0
Pointee(t) == IF t.k = "ptr" THEN Pointee(t.inner) ELSE t
Unsized(t) == LET a == Pointee(t) IN a.k = "array" /\ a.size = 0 /\ a.bound.k = ""
Sized(t, n) == IF t.k = "ptr" THEN [t EXCEPT !.inner = Sized(@, n)] ELSE [t EXCEPT !.size = n]
infer_array_size_from_brace(p) ==
  IF ElementsOf(p) > 0 /\ Unsized(p.ty) THEN [p EXCEPT !.ty = Sized(@, ElementsOf(p))] ELSE p

Integral == {"named", "int", "long", "short", "signed", "unsigned"}
\* A string sizes an array of char, a wide one that of any integer type.
infer_array_size_from_string(p) ==
  LET Of(kinds) == Pointee(p.ty).inner.k \in kinds
  IN IF Unsized(p.ty) /\ (Of({"char"}) \/ (Of(Integral) /\ Ahead(p, 0).v = "wide"))
     THEN [p EXCEPT !.ty = Sized(@, Ahead(p, 0).n + 1)] ELSE p

RECURSIVE StepsFrom(_, _), InitElems(_, _)
\* A designator's steps, and the '=' after them.
StepsFrom(p, steps) ==
  CASE Cur(p) = "[" -> StepsFrom(ll_skip(Skip(Skip(p)), "]"), Append(steps, Ahead(p, 1)))
    [] Cur(p) = "." -> StepsFrom(Skip(Skip(p)), Append(steps, Ahead(p, 1)))
    [] OTHER -> [(IF steps = << >> THEN p ELSE ll_skip(p, "=")) EXCEPT
                   !.init = [k |-> "steps", steps |-> steps]]
parse_designator(p) == StepsFrom(p, << >>)

NextElem(p, acc) == CASE Cur(p) = "," -> InitElems(Skip(p), acc)
                      [] Cur(p) = "}" -> InitElems(p, acc)
                      [] OTHER -> [ll_expect(p, "}") EXCEPT !.init = [k |-> "list", elems |-> acc]]
AddElem(p, steps, acc) ==
  NextElem(p, IF p.init = NoInit THEN acc
              ELSE Append(acc, IF steps = << >> THEN p.init
                               ELSE [k |-> "desig", steps |-> steps, elems |-> <<p.init>>]))
ElemAfter(p, acc) ==
  AddElem(IF Cur(p) = "{" THEN InitElems(Skip(p), << >>) ELSE ll_parse_expr(p, FALSE),
          p.init.steps, acc)
InitElems(p, acc) ==
  IF Cur(p) \in {"}", "eof"} THEN [ll_expect(p, "}") EXCEPT !.init = [k |-> "list", elems |-> acc]]
  ELSE ElemAfter(parse_designator(p), acc)
parse_init_list(p) == InitElems(Skip(p), << >>)

----------------------------------------------------------------------------
(* Declarations.                                                           *)

RECURSIVE ll_parse_decl(_), ll_parse_stmt(_), VarList(_, _, _), StructVars(_, _, _),
          EnumsFrom(_, _, _)

\* What was written before the specifiers.
Storage == [typedef |-> FALSE, link |-> "host", space |-> "host", ctor |-> FALSE,
            device |-> FALSE]

AddNode(p, n, t) == [p EXCEPT !.nodes = Append(@, [n EXCEPT !.ty = p.pos]),
                              !.types = With(@, p.pos, t)]
parser_add_typedef(p, name, t) == AddNode(p, [Node("typedef") EXCEPT !.name = name], t)

Initialized(p) ==
  CASE Cur(p) # "=" -> [p EXCEPT !.init = NoInit]
    [] Ahead(p, 1).k = "{" -> parse_init_list(infer_array_size_from_brace(Skip(p)))
    [] Ahead(p, 1).k = "str" -> ll_parse_expr(infer_array_size_from_string(Skip(p)), FALSE)
    [] OTHER -> ll_parse_expr(Skip(p), FALSE)
VardefNode(p, d) ==
  IF d.typedef THEN parser_add_typedef(p, p.name, p.ty)
  ELSE AddNode(p, [Node("var") EXCEPT !.name = p.name, !.link = d.link, !.space = d.space,
                                      !.init = p.init], p.ty)
parse_vardef_tail(p, d) == VardefNode(Initialized(p), d)

\* FUNC(PTR(data)): a pointer to a function, or an array of them.
RECURSIVE Element(_)
Element(t) == IF t.k = "array" THEN Element(t.inner) ELSE t
fnptr_inner_has_ptr(t) == Element(t).k = "ptr" /\ Target(t).k # "func"

\* Stars around a function are those of its result, unless it returns a pointer
\* to a function, a pointer or an array: then they are the name's own.
IsFuncDef(t) ==
  Pointee(t).k = "func" /\ (Pointers(t) > 0 => Pointee(t).inner.k \notin {"ptr", "array", "func"})
FuncType(t) == LET func == Pointee(t)
               IN [func EXCEPT !.inner = wrap_ptr_layers(@, Pointers(t))]
DefNode(d, name) == [Node("func") EXCEPT !.name = name, !.link = d.link]
\* The body, below the node that was added before it.
WithFuncBody(q, nodes) ==
  [q EXCEPT !.nodes = Append(Front(nodes), [nodes[Len(nodes)] EXCEPT !.kids = <<q.nodes>>])]
DefBody(p) == WithFuncBody(ll_parse_stmt(p), p.nodes)
decl_build_func_def(p, d) ==
  IF Cur(p) = "{" THEN DefBody(AddNode(p, [DefNode(d, p.name) EXCEPT !.ctor = d.ctor], FuncType(p.ty)))
  ELSE ll_expect(AddNode(p, DefNode(d, p.name), FuncType(p.ty)), ";")

\* A typedef of a function that returns a pointer keeps the function outside.
FormsFunc(t) == t.k = "ptr" /\ Pointee(t).k = "func" /\ Pointee(t).inner.k \notin {"ptr", "array", "none"}
ll_typedef_func_ret_type(t) ==
  [Pointee(t) EXCEPT !.inner = wrap_ptr_layers(@, Pointers(t)), !.form = TRUE]

NextVar(p, base, d) == IF Cur(p) = "," THEN VarList(Skip(p), base, d) ELSE ll_expect(p, ";")
Listed(p, base, d) ==
  CASE p.ty.k = "func" /\ (d.typedef \/ fnptr_inner_has_ptr(p.ty.inner)) ->
         NextVar(parse_vardef_tail(p, d), base, d)
    [] d.typedef /\ FormsFunc(p.ty) ->
         NextVar(parse_vardef_tail([p EXCEPT !.ty = ll_typedef_func_ret_type(@)], d), base, d)
    [] IsFuncDef(p.ty) -> decl_build_func_def(p, d)
    [] OTHER -> NextVar(parse_vardef_tail(p, d), base, d)
VarList(p, base, d) == Listed(ll_parse_declarator(p, base, 0), base, d)
parse_var_list_decl(p, d) == VarList(p, p.ty, d)

\* The list after a record's specifier, which gives no array its size.
StructVar(p) ==
  CASE Cur(p) # "=" -> [p EXCEPT !.init = NoInit]
    [] Ahead(p, 1).k = "{" -> parse_init_list(Skip(p))
    [] OTHER -> ll_parse_expr(Skip(p), FALSE)
NextStructVar(p, base, d) == IF Cur(p) = "," THEN StructVars(Skip(p), base, d) ELSE ll_expect(p, ";")
StructListed(p, base, d) ==
  IF IsFuncDef(p.ty) THEN decl_build_func_def(p, [d EXCEPT !.ctor = FALSE])
  ELSE NextStructVar(VardefNode(StructVar(p), [d EXCEPT !.typedef = FALSE]), base, d)
StructVars(p, base, d) == StructListed(ll_parse_declarator(p, base, 0), base, d)
parse_struct_var_list(p, d) == StructVars(p, p.ty, d)

\* A definition of its own is a node; one with declarators is in their type only.
RecordNode(t) == [Node(t.k) EXCEPT !.name = t.name, !.fields = t.fields, !.ty = t.node]
parse_struct_union_decl(p, d) ==
  IF Cur(p) = ";" THEN [Skip(p) EXCEPT !.nodes = <<RecordNode(p.ty)>>]
  ELSE parse_struct_var_list(p, d)

\* "typedef struct ... name;": the last variable is a name of the type.
Renamed(p) ==
  LET last == p.nodes[Len(p.nodes)]
      aliased == [Type(last.k) EXCEPT !.name = last.name, !.fields = last.fields, !.node = p.pos]
  IN CASE last.k = "var" -> [p EXCEPT !.nodes[Len(p.nodes)].k = "typedef"]
       [] last.k \in {"struct", "union"} -> parser_add_typedef(p, last.name, aliased)
       [] OTHER -> p
Wrapped(p, d) == IF d.typedef THEN Renamed(p) ELSE p
parse_struct_union_decl_wrapped(p, d) ==
  Wrapped(parse_struct_union_decl(ll_parse_struct_union_spec(p), d), d)

enum_is_definition(p) ==
  Ahead(p, 1).k = "{" \/ (Ahead(p, 1).k = "id" /\ Ahead(p, 2).k \in {"{", ";"})

\* An enumerator and its value, if one is given.
Enumerator(p) == [Var(Ahead(p, 0).v, NoType) EXCEPT
                    !.width = IF Ahead(p, 1).k = "=" THEN Ahead(p, 2).n ELSE -1]
EnumNode(p, tag, acc) == [p EXCEPT !.nodes = <<[Node("enum") EXCEPT !.name = tag, !.enums = acc]>>]
\* "enum {...} name": the declarator is read for its name, which names the type.
EnumName(p, tag) == IF p.name = "" THEN p
                    ELSE parser_add_typedef(p, p.name, [Type("enum") EXCEPT !.name = tag])
EnumTail(p, tag) ==
  ll_expect(IF Cur(p) \in {"id", "*"} THEN EnumName(ll_parse_declarator(p, Type("enum"), 0), tag)
            ELSE p, ";")
EnumsFrom(p, tag, acc) ==
  CASE Cur(p) \in {"}", "eof"} -> EnumTail(EnumNode(ll_expect(p, "}"), tag, acc), tag)
    [] Cur(p) = "," -> EnumsFrom(Skip(p), tag, acc)
    [] OTHER -> EnumsFrom([p EXCEPT !.pos = @ + (IF Ahead(p, 1).k = "=" THEN 3 ELSE 1)],
                          tag, Append(acc, Enumerator(p)))
EnumBody(p, tag) == IF Cur(p) = "{" THEN EnumsFrom(Skip(p), tag, << >>)
                    ELSE ll_expect(EnumNode(p, tag, << >>), ";")
ll_parse_enum_def(p) == IF Ahead(p, 1).k = "id" THEN EnumBody(Skip(Skip(p)), Ahead(p, 1).v)
                        ELSE EnumBody(Skip(p), "")
EnumType(p) == IF p.nodes[1].name = "" THEN p
               ELSE parser_add_typedef([p EXCEPT !.nodes = <<p.nodes[1]>>], p.nodes[1].name,
                                       [Type("enum") EXCEPT !.name = p.nodes[1].name])
parse_enum_decl(p, d) == IF d.typedef THEN EnumType(ll_parse_enum_def(p)) ELSE ll_parse_enum_def(p)

----------------------------------------------------------------------------
(* The words before the specifiers.                                        *)

DeviceWords == {"__global__", "__device__", "__host__"}
SpaceWords == {"__shared__", "__constant__"}
StorageWords == {"typedef", "static", "extern", "register"} \cup Hints

\* The words of the set W at the position, as the set of those there are.
Run(p, W) == CHOOSE n \in 0..Len(p.toks) : /\ Ahead(p, n).k \notin W
                                          /\ \A i \in 0..(n - 1) : Ahead(p, i).k \in W
WordsAt(p, W) == {Ahead(p, i).k : i \in 0..(Run(p, W) - 1)}
Past(p, W) == [p EXCEPT !.pos = @ + Run(p, W)]

gpu_parse_qualifiers(words, link) ==
  CASE "__global__" \in words -> "global"
    [] {"__host__", "__device__"} \subseteq words -> "host_device"
    [] "__device__" \in words -> "device"
    [] OTHER -> link
\* The last word of the run is the one that counts.
Latest(p, W, S, default) ==
  LET at == {i \in 0..(Run(p, W) - 1) : Ahead(p, i).k \in S}
  IN IF at = {} THEN default ELSE Ahead(p, Max(at)).k

\* "__attribute__((constructor))"
parse_attribute(p) ==
  IF Cur(p) = "__attribute__"
  THEN ll_expect(ll_expect(ll_skip(ll_expect(ll_expect(Skip(p), "("), "("), "id"), ")"), ")")
  ELSE p

gpu_parse_var_qualifiers(p, space) == Latest(p, SpaceWords, SpaceWords, space)
gpu_fold_decl_quals(p, d) ==
  [d EXCEPT !.link = gpu_parse_qualifiers(WordsAt(p, DeviceWords), @),
            !.device = @ \/ gpu_parse_qualifiers(WordsAt(p, DeviceWords), "") = "device",
            !.space = gpu_parse_var_qualifiers(Past(p, DeviceWords), @)]
PastQuals(p) == Past(Past(p, DeviceWords), SpaceWords)

\* A __device__ variable is in global memory, unless a word says otherwise.
Placed(d) == IF d.device /\ d.space = "host" THEN [d EXCEPT !.space = "__global__"] ELSE d
StorageOf(p, d) ==
  [d EXCEPT !.typedef = "typedef" \in WordsAt(p, StorageWords),
            !.link = Latest(p, StorageWords, {"static", "extern"}, @)]

Declared(p, d) ==
  CASE p.ty = NoType -> [Skip(p) EXCEPT !.nodes = << >>]
    [] Cur(p) = ";" -> [Skip(p) EXCEPT !.nodes = << >>]
    [] OTHER -> parse_var_list_decl(p, d)
Dispatch(p, d) ==
  CASE Cur(p) \in {"struct", "union"} -> parse_struct_union_decl_wrapped(p, d)
    [] Cur(p) = "enum" /\ enum_is_definition(p) -> parse_enum_decl(p, d)
    [] OTHER -> Declared(ll_parse_type_specs(p), d)
Folded(p, d) == Dispatch(PastQuals(p), Placed(gpu_fold_decl_quals(p, d)))
Stored(p, d) == Folded(Past(p, StorageWords), StorageOf(p, d))
Qualified(p, ctor) ==
  Stored(PastQuals(p), gpu_fold_decl_quals(p, [Storage EXCEPT !.ctor = ctor]))
ll_parse_decl(p) ==
  Qualified([parse_attribute(p) EXCEPT !.nodes = << >>],
            Cur(p) = "__attribute__" /\ Ahead(p, 3).v = "constructor")

\* A name starts a declaration by what follows it: stars, qualifiers, a name and
\* one of a few tokens.
Specifiers == Keywords \cup Qualifiers \cup StorageWords \cup DeviceWords \cup SpaceWords
                \cup {"struct", "union", "enum", "_Alignas", "_Complex", "__attribute__"}
is_type_start(p) ==
  \/ Cur(p) \in Specifiers
  \/ /\ Cur(p) = "id"
     /\ LET q == Past(Skip(p), {"*"} \cup Qualifiers)
        IN Cur(q) = "id" /\ Ahead(q, 1).k \in {"(", "[", "=", ",", ";", ":"}
ll_parse_decl_or_stmt(p) == IF is_type_start(p) THEN ll_parse_decl(p) ELSE ll_parse_stmt(p)

----------------------------------------------------------------------------
(* Statements.  An empty statement is no node, which ends a list of them.  *)

Stmt(k, exprs, kids) == [Node(k) EXCEPT !.exprs = exprs, !.kids = kids]
Only(p, n) == [p EXCEPT !.nodes = <<n>>]
Nothing(p) == [p EXCEPT !.nodes = << >>]

RECURSIVE BlockFrom(_, _), CaseFrom(_, _)

\* The kids of a node that is being read: what the last parser returned.
ll_parse_expr_stmt(p) ==
  IF Cur(p) \in Operands
  THEN ll_expect(Only(ll_parse_expr(p, FALSE), Stmt("expr", <<Ahead(p, 0)>>, << >>)), ";")
  ELSE Nothing(ll_parse_expr(p, FALSE))

\* Mutant: of a declaration's variables only the first stays in the list.
FirstOnly(p, acc) == IF p.nodes = << >> THEN Only(ll_expect(p, "}"), Stmt("block", << >>, <<acc>>))
                     ELSE BlockFrom(p, Append(acc, Head(p.nodes)))
BlockNext(p, acc) == IF p.nodes = << >> THEN Only(ll_expect(p, "}"), Stmt("block", << >>, <<acc>>))
                     ELSE BlockFrom(p, acc \o p.nodes)
BlockFrom(p, acc) ==
  IF Cur(p) \in {"}", "eof"} THEN Only(ll_expect(p, "}"), Stmt("block", << >>, <<acc>>))
  ELSE BlockNext(ll_parse_decl_or_stmt(p), acc)
ll_parse_block(p) == BlockFrom(Skip(p), << >>)

Else(p, cond, then) == Only(p, Stmt("if", <<cond>>, <<then, p.nodes>>))
Branches(p, cond) ==
  IF Cur(p) = "else" THEN Else(ll_parse_stmt(Skip(p)), cond, p.nodes)
  ELSE Only(p, Stmt("if", <<cond>>, <<p.nodes, << >>>>))
\* "( condition )": the expression takes the ')' along.
Parenthesized(p) == ll_parse_expr(ll_expect(p, "("), TRUE)
Condition(p) == Parenthesized(Skip(p))
ll_parse_if(p) == Branches(ll_parse_stmt(Condition(p)), Ahead(p, 2))

Loop(p, k, cond) == Only(p, Stmt(k, <<cond>>, <<p.nodes>>))
ll_parse_while(p) == Loop(ll_parse_stmt(Condition(p)), "while", Ahead(p, 2))
DoLoop(p, body, cond) == Only(p, Stmt("do", <<cond>>, <<body>>))
\* After the body: "while ( condition ) ;".
DoTail(p) == ll_expect(DoLoop(Parenthesized(ll_expect(p, "while")), p.nodes, Ahead(p, 2)), ";")
ll_parse_do_while(p) == DoTail(ll_parse_stmt(Skip(p)))

ForBody(p, init, cond, update) == Only(p, Stmt("for", <<cond, update>>, <<init, p.nodes>>))
NoExpr == Tok("")
ForUpdate(p, init, cond) ==
  IF Cur(p) = ")" THEN ForBody(ll_parse_stmt(Skip(p)), init, cond, NoExpr)
  ELSE ForBody(ll_parse_stmt(ll_parse_expr(p, TRUE)), init, cond, Ahead(p, 0))
ForCond(p) == IF Cur(p) = ";" THEN ForUpdate(Skip(p), p.nodes, NoExpr)
              ELSE ForUpdate(ll_expect(ll_parse_expr(p, FALSE), ";"), p.nodes, Ahead(p, 0))
ForInit(p) ==
  CASE Cur(p) = ";" -> Skip(Nothing(p))
    [] is_type_start(p) -> ll_parse_decl(p)
    [] OTHER -> ll_expect(Only(ll_parse_expr(p, FALSE), Stmt("expr", <<Ahead(p, 0)>>, << >>)), ";")
ll_parse_for(p) == ForCond(ForInit(ll_expect(Skip(p), "(")))

ll_parse_return(p) ==
  IF Cur(Skip(p)) = ";" THEN Skip(Skip(Only(p, Stmt("return", << >>, << >>))))
  ELSE ll_expect(Only(ll_parse_expr(Skip(p), FALSE), Stmt("return", <<Ahead(p, 1)>>, << >>)), ";")
ll_parse_break(p) == ll_expect(Only(Skip(p), Stmt("break", << >>, << >>)), ";")
ll_parse_continue(p) == ll_expect(Only(Skip(p), Stmt("continue", << >>, << >>)), ";")
ll_parse_switch(p) == Loop(ll_parse_stmt(Condition(p)), "switch", Ahead(p, 2))

\* The statements of a case, to the next one or the end of the block.
CaseNext(p, n, acc) == IF p.nodes = << >> THEN Only(p, [n EXCEPT !.kids = <<acc>>])
                       ELSE CaseFrom([p EXCEPT !.nodes = acc \o @], n)
CaseFrom(p, n) ==
  IF Cur(p) \in {"case", "default", "}", "eof"} THEN Only(p, [n EXCEPT !.kids = <<p.nodes>>])
  ELSE CaseNext(ll_parse_stmt(p), n, p.nodes)
ll_parse_case(p) ==
  CaseFrom(Nothing(ll_expect(ll_parse_expr(Skip(p), FALSE), ":")), Stmt("case", <<Ahead(p, 1)>>, << >>))
ll_parse_default(p) == CaseFrom(Nothing(ll_expect(Skip(p), ":")), Stmt("default", << >>, << >>))

ll_parse_goto(p) ==
  ll_expect(Only(Skip(Skip(p)), [Node("goto") EXCEPT !.name = Ahead(p, 1).v]), ";")
LabelOf(p, name) == Only(p, [Stmt("label", << >>, <<p.nodes>>) EXCEPT !.name = name])
ll_parse_label(p) == LabelOf(ll_parse_decl_or_stmt(Skip(Skip(p))), Ahead(p, 0).v)

\* "_Static_assert ( condition , string ) ;"
ll_parse_static_assert(p) ==
  IF <<Ahead(p, 3).k, Ahead(p, 4).k, Ahead(p, 5).k>> = <<",", "str", ")">>
  THEN ll_expect(Only([p EXCEPT !.pos = @ + 6], Stmt("assert", <<Ahead(p, 2)>>, << >>)), ";")
  ELSE Nothing([p EXCEPT !.error = TRUE])

ll_parse_stmt(p) ==
  CASE Cur(p) = "if" -> ll_parse_if(p)
    [] Cur(p) = "while" -> ll_parse_while(p)
    [] Cur(p) = "do" -> ll_parse_do_while(p)
    [] Cur(p) = "for" -> ll_parse_for(p)
    [] Cur(p) = "return" -> ll_parse_return(p)
    [] Cur(p) = "break" -> ll_parse_break(p)
    [] Cur(p) = "continue" -> ll_parse_continue(p)
    [] Cur(p) = "switch" -> ll_parse_switch(p)
    [] Cur(p) = "case" -> ll_parse_case(p)
    [] Cur(p) = "default" -> ll_parse_default(p)
    [] Cur(p) = "goto" -> ll_parse_goto(p)
    [] Cur(p) = "{" -> ll_parse_block(p)
    [] Cur(p) = ";" -> Nothing(Skip(p))
    [] Cur(p) = "id" /\ Ahead(p, 1).k = ":" -> ll_parse_label(p)
    [] Cur(p) = "id" /\ Ahead(p, 0).v = "_Static_assert" -> ll_parse_static_assert(p)
    [] OTHER -> ll_parse_expr_stmt(p)

==============================================================================

----------------------------- MODULE Declarators -----------------------------
(***************************************************************************)
(* The declarator parser of parser/ll: the pointers, arrays and parameter  *)
(* lists around a name, turned into a tree of types.  The parser has no    *)
(* grammar rule that turns the declarator inside out: it reads a declarator*)
(* in parentheses as if nothing followed, and rotates the tree when a      *)
(* suffix does.  A pointer to a function is written FUNC(PTR(result)), a   *)
(* function that returns a pointer PTR(FUNC(result)).                      *)
(*                                                                         *)
(* The parser is a record: the tokens, the position, whether an error was  *)
(* reported, the type and the name of the declarator at hand, its pending  *)
(* pointers and its array suffixes; and the nodes and the initializer that *)
(* were read last.  Types of declarations and lists of fields, which other *)
(* types point to, are kept by the position they were read at: "types" and *)
(* "lists".  An expression is one token.                                   *)
(***************************************************************************)
EXTENDS Integers, Sequences, SequencesExt, FiniteSetsExt

CONSTANTS MAX_DECL_DEPTH,     \* nested parentheses of a declarator
          MAX_SUFFIX          \* array suffixes of a declarator

\* A token: its kind, the name or the class of expression it holds, its value.
Tok(k) == [k |-> k, v |-> "", n |-> 0]
Id(name) == [k |-> "id", v |-> name, n |-> 0]
Lit(n) == [k |-> "lit", v |-> "lit", n |-> n]
Expr(class, n) == [k |-> "expr", v |-> class, n |-> n]

NoType == [k |-> "none"]
Type(k) == [k |-> k, inner |-> NoType, next |-> NoType, size |-> 0, bound |-> Tok(""),
            params |-> << >>, va |-> FALSE, form |-> FALSE, name |-> "", node |-> 0,
            fields |-> 0, alias |-> 0]
Over(k, t) == [Type(k) EXCEPT !.inner = t]

\* A parameter, a field or a variable; width -1: not a bit-field.
Var(name, t) == [name |-> name, ty |-> t, width |-> -1]

Parser(toks) ==
  [toks |-> toks, pos |-> 1, error |-> FALSE, ty |-> NoType, name |-> "", ptrs |-> 0,
   arrays |-> << >>, paren |-> FALSE, vars |-> << >>, va |-> FALSE, nodes |-> << >>,
   init |-> [k |-> "none"], types |-> << >>, lists |-> << >>]
With(heap, at, x) == [i \in DOMAIN heap \cup {at} |-> IF i = at THEN x ELSE heap[i]]

Ahead(p, i) == IF p.pos + i <= Len(p.toks) THEN p.toks[p.pos + i] ELSE Tok("eof")
Cur(p) == Ahead(p, 0).k
Skip(p) == [p EXCEPT !.pos = @ + 1]
ll_skip(p, k) == IF Cur(p) = k THEN Skip(p) ELSE p
ll_expect(p, k) == IF Cur(p) = k THEN Skip(p) ELSE [p EXCEPT !.error = TRUE]

----------------------------------------------------------------------------
(* Pointers.                                                               *)

Qualifiers == {"const", "volatile", "restrict", "_Atomic"}

\* The stars, and the qualifiers after them.
parse_ptr_stars(p) ==
  LET Passed == IF Cur(p) = "*" THEN {"*"} \cup Qualifiers ELSE {}
      last == CHOOSE i \in 0..Len(p.toks) : /\ Ahead(p, i).k \notin Passed
                                            /\ \A j \in 0..(i - 1) : Ahead(p, j).k \in Passed
  IN [p EXCEPT !.pos = @ + last,
               !.ptrs = Quantify(0..(last - 1), LAMBDA i : Ahead(p, i).k = "*")]

wrap_ptr_layers(t, n) == FoldLeft(LAMBDA acc, i : Over("ptr", acc), t, [i \in 1..n |-> i])

IsFuncPtr(t) == t.k = "ptr" /\ t.inner.k = "func"
Rotated(t) == t.k = "func" /\ IsFuncPtr(t.inner)

RECURSIVE Threaded(_, _)
Threaded(t, n) == IF Rotated(t) THEN [t EXCEPT !.inner.inner = Threaded(@, n)]
                  ELSE [t EXCEPT !.inner = wrap_ptr_layers(@, n)]
\* Stars before a rotated group belong to the result of its innermost function.
thread_ptr_layers(t, n) ==
  CASE Rotated(t) -> Threaded(t, n)
    [] IsFuncPtr(t) /\ Rotated(t.inner) -> [t EXCEPT !.inner = Threaded(@, n)]
    [] OTHER -> wrap_ptr_layers(t, n)

----------------------------------------------------------------------------
(* Specifiers, declarators and parameters, which hold each other.          *)

Keywords == {"int", "char", "void", "short", "long", "float", "double", "signed",
             "unsigned", "_Bool"}
Hints == {"inline", "_Noreturn"}
Chained(specs) == FoldRight(LAMBDA t, rest : [t EXCEPT !.next = rest], specs, NoType)

\* Past the group in parentheses that starts here.
skip_paren_group(p) ==
  LET Closes(i) == LET Count(k) == Quantify(0..i, LAMBDA j : Ahead(p, j).k = k)
                   IN Count("(") = Count(")")
      left == Len(p.toks) - p.pos
      ends == {i \in 0..left : Closes(i)}
  IN [p EXCEPT !.pos = @ + (IF ends = {} THEN left ELSE Min(ends)) + 1]

RECURSIVE ll_parse_declarator(_, _, _), ll_parse_type_specs(_), SpecsFrom(_, _),
          ParamsFrom(_, _), parse_suffixes(_), rotate_paren_func_suffix(_, _),
          FieldsFrom(_, _), FieldList(_, _, _)

\* One declarator of a struct's list, with the width of a bit-field.
FieldDone(p) == IF Cur(p) = ":"
                THEN [Skip(Skip(p)) EXCEPT !.vars = <<[Var(p.name, p.ty) EXCEPT !.width = Ahead(p, 1).n]>>]
                ELSE [p EXCEPT !.vars = <<Var(p.name, p.ty)>>]
FieldNext(p, base, acc) ==
  IF Cur(p) = "," THEN FieldList(Skip(p), base, acc \o p.vars)
  ELSE FieldsFrom(ll_expect(p, ";"), acc \o p.vars)
FieldList(p, base, acc) == FieldNext(FieldDone(ll_parse_declarator(p, base, 0)), base, acc)
FieldOf(p, acc) == IF p.ty = NoType THEN FieldsFrom(Skip(p), acc) ELSE FieldList(p, p.ty, acc)
FieldsFrom(p, acc) ==
  CASE Cur(p) \in {"}", "eof"} -> [p EXCEPT !.vars = acc]
    [] Cur(p) = ";" -> FieldsFrom(Skip(p), acc)
    [] OTHER -> FieldOf(ll_parse_type_specs(p), acc)
ll_parse_struct_fields(p) == FieldsFrom(p, << >>)

\* A record's tag and its fields, if a body follows; the node is the token.
Tagged(p, k, at) ==
  IF Cur(p) = "id" THEN [Skip(p) EXCEPT !.ty = [Type(k) EXCEPT !.name = Ahead(p, 0).v, !.node = at]]
  ELSE [p EXCEPT !.ty = [Type(k) EXCEPT !.node = at]]
WithBody(p, t) ==
  IF p.vars = << >> THEN [ll_expect(p, "}") EXCEPT !.ty = t]
  ELSE [ll_expect(p, "}") EXCEPT !.ty = [t EXCEPT !.fields = t.node],
                                 !.lists = With(@, t.node, p.vars)]
Bodied(p) == IF Cur(p) = "{" THEN WithBody(ll_parse_struct_fields(Skip(p)), p.ty) ELSE p
ll_parse_struct_union_spec(p) == Bodied(Tagged(Skip(p), Cur(p), p.pos))

ll_parse_tag_spec(p) ==
  CASE Cur(p) = "id" -> [Skip(p) EXCEPT !.ty = [Type("named") EXCEPT !.name = Ahead(p, 0).v]]
    [] Cur(p) \in {"struct", "union"} -> ll_parse_struct_union_spec(p)
    [] Cur(p) = "enum" -> Tagged(Skip(p), "enum", 0)
    [] OTHER -> [p EXCEPT !.ty = NoType]

\* A type name in parentheses: specifiers and stars, of which _Atomic(T) and a
\* cast (lr1_cast.c) make use.
TypeName(q) == [q EXCEPT !.ty = wrap_ptr_layers(@, q.ptrs)]
AtomicOf(p, specs) == SpecsFrom(ll_skip(p, ")"), specs \o (IF p.ty = NoType THEN << >> ELSE <<p.ty>>))

\* The specifiers in the order they are written; qualifiers and hints mean
\* nothing to the IR.
SpecsFrom(p, specs) ==
  CASE Cur(p) = "_Atomic" /\ Ahead(p, 1).k = "(" ->
         AtomicOf(TypeName(parse_ptr_stars(ll_parse_type_specs(Skip(Skip(p))))), specs)
    [] Cur(p) \in Qualifiers \cup Hints -> SpecsFrom(Skip(p), specs)
    [] Cur(p) = "_Alignas" ->
         SpecsFrom(IF Ahead(p, 1).k = "(" THEN skip_paren_group(Skip(p)) ELSE Skip(p), specs)
    [] Cur(p) = "_Complex" ->
         SpecsFrom(Skip(p), specs \o (IF Ahead(p, 1).k \in {"float", "double"} THEN << >>
                                      ELSE <<Type("double")>>))
    [] Cur(p) \in Keywords -> SpecsFrom(Skip(p), Append(specs, Type(Cur(p))))
    [] OTHER -> IF specs = << >> THEN ll_parse_tag_spec(p) ELSE [p EXCEPT !.ty = Chained(specs)]
ll_parse_type_specs(p) == SpecsFrom(p, << >>)

\* An array parameter is a pointer to an element.
Decayed(t) == IF t.k = "array" THEN Over("ptr", t.inner) ELSE t
MoreParams(p, acc) ==
  CASE Cur(p) # "," -> [p EXCEPT !.vars = acc, !.va = FALSE]
    [] Ahead(p, 1).k = "..." -> [Skip(Skip(p)) EXCEPT !.vars = acc, !.va = TRUE]
    [] OTHER -> ParamsFrom(Skip(p), acc)
ParamDone(p, acc) == MoreParams(p, Append(acc, Var(p.name, Decayed(p.ty))))
ParamOf(p, acc) == IF p.ty = NoType THEN [p EXCEPT !.vars = acc, !.va = FALSE]
                   ELSE ParamDone(ll_parse_declarator(p, p.ty, 0), acc)
ParamsFrom(p, acc) == ParamOf(ll_parse_type_specs(p), acc)
ll_parse_params(p) ==
  CASE Cur(p) = "void" /\ Ahead(p, 1).k = ")" -> [Skip(p) EXCEPT !.vars = << >>, !.va = FALSE]
    [] Cur(p) = ")" -> [p EXCEPT !.vars = << >>, !.va = FALSE]
    [] Cur(p) = "..." -> [Skip(p) EXCEPT !.vars = << >>, !.va = TRUE]
    [] OTHER -> ParamsFrom(p, << >>)

\* The declarator that q's parameters belong to, with the function around t.
FuncMade(q, p, t) ==
  LET func == [Over("func", t) EXCEPT !.params = q.vars, !.va = q.va]
  IN ll_skip([p EXCEPT !.pos = q.pos, !.error = q.error, !.lists = q.lists, !.ty = func], ")")
parse_func_suffix(p, t) == FuncMade(ll_parse_params(Skip(p)), p, t)

\* "(*name(inner))(outer)": the outer parameters are those of what the function
\* points to.
Relinked(p, func) == [p EXCEPT !.ty = [func EXCEPT !.inner = Over("ptr", p.ty)]]
\* Mutant: the outer parameters go around the whole chain.
SuffixOutside(p, t) == parse_func_suffix(p, t)
rotate_paren_func_suffix(p, t) ==
  LET rest == t.inner.inner
  IN IF IsFuncPtr(rest) THEN Relinked(rotate_paren_func_suffix(p, rest), t.inner)
     ELSE Relinked(parse_func_suffix(p, rest), t.inner)

\* "(*(*name)(inner))(outer)": the pointer under the function is the name's own.
OwnPointer(p) == [p EXCEPT !.ty = Over("ptr", @)]
rotate_paren_func_suffix_dataptr(p, t) ==
  OwnPointer(Relinked(parse_func_suffix(p, t.inner.inner.inner), t.inner))

RECURSIVE Target(_)
Target(t) == IF t.k \in {"ptr", "array"} THEN Target(t.inner) ELSE t
paren_ptrfunc_rotatable(t) ==
  LET ret == t.inner.inner
  IN ret.k # "array" /\ (ret.k = "ptr" => Target(ret).k = "func")

Suffixed(p) ==
  CASE ~(p.paren /\ IsFuncPtr(p.ty)) -> parse_func_suffix(p, p.ty)
    [] p.ty.inner.inner.k = "ptr" /\ ~IsFuncPtr(p.ty.inner.inner) ->
         rotate_paren_func_suffix_dataptr(p, p.ty)
    [] paren_ptrfunc_rotatable(p.ty) -> rotate_paren_func_suffix(p, p.ty)
    [] OTHER -> parse_func_suffix(p, p.ty)

\* The bound: a literal, or a sum of two, is a size; a name waits for the
\* enumerators; any other operator on two literals is dropped; the rest waits
\* for ice_eval.
Bounded(tok) ==
  CASE tok.k = "lit" \/ tok.v = "folded" -> [Type("array") EXCEPT !.size = tok.n]
    [] tok.k = "]" \/ tok.v = "dropped" -> Type("array")
    [] OTHER -> [Type("array") EXCEPT !.bound = tok]
parse_array_suffix(p) ==
  LET q == Skip(p)
  IN [ll_skip(IF Cur(q) = "]" THEN q ELSE Skip(q), "]") EXCEPT
        !.ty = wrap_ptr_layers(@, p.ptrs), !.ptrs = 0,
        !.arrays = Append(@, Bounded(Ahead(q, 0)))]

parse_suffixes(p) ==
  CASE Cur(p) = "[" /\ Len(p.arrays) < MAX_SUFFIX -> parse_suffixes(parse_array_suffix(p))
    [] Cur(p) = "(" -> parse_suffixes(Suffixed(p))
    [] OTHER -> p

\* The first suffix is the outermost dimension; after "(*name)" the arrays are
\* what the pointer points to.
InArrays(t, arrays) == FoldRight(LAMBDA a, acc : [a EXCEPT !.inner = acc], arrays, t)
chain_array_suffixes(p) ==
  IF p.paren /\ p.ty.k = "ptr" THEN [p EXCEPT !.ty.inner = InArrays(@, p.arrays)]
  ELSE [p EXCEPT !.ty = InArrays(@, p.arrays)]

wrap_final_ptrs(p, depth) ==
  IF depth = 0 THEN [p EXCEPT !.ty = thread_ptr_layers(@, p.ptrs)]
  ELSE [p EXCEPT !.ty = wrap_ptr_layers(@, p.ptrs)]

Inside(q, p) == [ll_skip(q, ")") EXCEPT !.ptrs = p.ptrs, !.arrays = << >>, !.paren = TRUE]
parse_inner_declarator(p, base, depth) ==
  LET q == [p EXCEPT !.ty = base, !.name = "", !.arrays = << >>, !.paren = FALSE]
  IN CASE Cur(p) = "(" -> Inside(ll_parse_declarator(Skip(q), base, depth + 1), p)
       [] Cur(p) = "id" -> [Skip(q) EXCEPT !.name = Ahead(p, 0).v]
       [] OTHER -> q

ll_parse_declarator(p, base, depth) ==
  IF depth > MAX_DECL_DEPTH THEN [p EXCEPT !.error = TRUE, !.name = "", !.ty = base]
  ELSE wrap_final_ptrs(chain_array_suffixes(parse_suffixes(
         parse_inner_declarator(parse_ptr_stars(p), base, depth))), depth)

==============================================================================

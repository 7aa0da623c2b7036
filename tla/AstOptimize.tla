----------------------------- MODULE AstOptimize -----------------------------
(***************************************************************************)
(* The passes of ast-opt over the tree of a program.  A node has a kind, a *)
(* name (of a variable, an operator or a type), a number (of a literal)    *)
(* and its children in the order in which ast_walk visits them.  A literal *)
(* is "lit" with its type in "a"; an absent child is Null.  Float literals *)
(* are left out.  Every pass is a function from a tree to a tree; it       *)
(* reports a change when it overwrote or unlinked a node.                  *)
(***************************************************************************)
EXTENDS CArithmetic, SequencesExt

CONSTANT MAX_CONSTANTS, \* entries of the table of opt_propagate
         MAX_ENUM       \* enumerators of opt_enum

Tree(op, a, v, kids) == [op |-> op, a |-> a, v |-> v, kids |-> kids]
Null == Tree("null", "", 0, << >>)
Lit(t, v) == Tree("lit", t, v, << >>)
IsLit(n) == n.op = "lit"
IsLong(n) == n.a \in {"long", "ulong"}
IsUnsigned(n) == n.a \in {"uint", "ulong"}
LitType(long, unsigned) == IF long THEN (IF unsigned THEN "ulong" ELSE "long")
                           ELSE IF unsigned THEN "uint" ELSE "int"

\* The same sequence; TLC evaluates its elements once, not at each use.
Now(s) == s \o << >>

\* The range TOK_EQ..TOK_GTGTEQ, which passes for the assignments.
AssignRange == {"=", "+=", "==", "!=", "<", ">", "<=", ">=", "&&", "||", "&", "|", "^", "<<", ">>"}

----------------------------------------------------------------------------
(* ast_walk: the nodes of a tree in pre-order, and the replacement of the  *)
(* identifiers that a table [name -> literal] knows.                       *)

RECURSIVE PreOrder(_), Replace(_, _)
PreOrder(n) == <<n>> \o FlattenSeq(Now([i \in DOMAIN n.kids |-> PreOrder(n.kids[i])]))
Replace(n, table) ==
  IF n.op = "id" /\ n.a \in DOMAIN table THEN table[n.a]
  ELSE [n EXCEPT !.kids = Now([i \in DOMAIN @ |-> Replace(@[i], table)])]

----------------------------------------------------------------------------
(* Constant folding.                                                       *)

\* fold_unsigned_int_op and fold_unsigned_long_op, in w bits; b is the right
\* operand as it was.
fold_unsigned_op(op, ua, ub, b, w) ==
  CASE op = "+" -> (ua + ub) % 2^w          [] op = "-" -> (ua - ub) % 2^w
    [] op = "*" -> (ua * ub) % 2^w          [] op = "/" -> IF ub = 0 THEN 0 ELSE ua \div ub
    [] op = "%" -> IF ub = 0 THEN 0 ELSE ua % ub
    [] op = "&" -> AndBits(w, ua, ub)       [] op = "|" -> OrBits(w, ua, ub)
    [] op = "^" -> XorBits(w, ua, ub)
    [] op = "<<" -> (ua * 2^(ub % w)) % 2^w [] op = ">>" -> ua \div 2^(ub % w)
    [] op \in Comparisons -> Truth(Compare(op, ua, ub))
    [] op = "&&" -> Truth(ua # 0 /\ ub # 0) [] op = "||" -> Truth(ua # 0 \/ ub # 0)
    [] op = "," -> b
    [] OTHER -> 0

\* A signed operation happens in long long, whatever the operands.
fold_signed_op(op, a, b) ==
  LET w == LONG_BITS
  IN CASE op = "+" -> a + b [] op = "-" -> a - b [] op = "*" -> a * b
       [] op = "/" -> IF b = 0 THEN 0 ELSE Quotient(a, b)
       [] op = "%" -> IF b = 0 THEN 0 ELSE a - b * Quotient(a, b)
       [] op \in Comparisons -> Truth(Compare(op, a, b))
       [] op = "&&" -> Truth(a # 0 /\ b # 0) [] op = "||" -> Truth(a # 0 \/ b # 0)
       [] op = "&" -> Wrap2(w, AndBits(w, a, b)) [] op = "|" -> Wrap2(w, OrBits(w, a, b))
       [] op = "^" -> Wrap2(w, XorBits(w, a, b))
       [] op = "<<" -> Wrap2(w, a * 2^(b % w)) [] op = ">>" -> a \div 2^(b % w)
       [] op = "," -> b
       [] OTHER -> 0

fold_binary_int(op, a, b, unsigned_any, is_long) ==
  LET w == IF is_long THEN LONG_BITS ELSE INT_BITS
  IN IF unsigned_any THEN fold_unsigned_op(op, a % 2^w, b % 2^w, b, w) ELSE fold_signed_op(op, a, b)

\* Calls, x++ and what passes for an assignment, below binary and unary nodes.
RECURSIVE subtree_has_side_effect(_)
subtree_has_side_effect(n) ==
  \/ n.op \in {"call", "post"}
  \/ n.op = "binary" /\ n.a \in AssignRange
  \/ n.op \in {"binary", "unary"} /\ \E i \in DOMAIN n.kids : subtree_has_side_effect(n.kids[i])
Foldable(n) == \A i \in DOMAIN n.kids : IsLit(n.kids[i]) /\ ~subtree_has_side_effect(n.kids[i])

\* Mutant: any unsigned operand makes the operation unsigned.
FoldUnsignedWins(n) ==
  LET l == n.kids[1]
      r == n.kids[2]
      unsigned == IsUnsigned(l) \/ IsUnsigned(r)
  IN IF ~Foldable(n) THEN n
     ELSE Lit(LitType(IsLong(l) \/ IsLong(r), unsigned),
              fold_binary_int(n.a, l.v, r.v, unsigned, IsLong(l) \/ IsLong(r)))

\* A signed long beats an unsigned int; the result keeps the sign of the operation.
try_fold_binary(n) ==
  LET l == n.kids[1]
      r == n.kids[2]
      WideSignedBeats(x, y) == IsLong(x) /\ ~IsUnsigned(x) /\ IsUnsigned(y) /\ ~IsLong(y)
      unsigned == (IsUnsigned(l) \/ IsUnsigned(r)) /\ ~WideSignedBeats(l, r) /\ ~WideSignedBeats(r, l)
  IN IF ~Foldable(n) THEN n
     ELSE Lit(LitType(IsLong(l) \/ IsLong(r), unsigned),
              fold_binary_int(n.a, l.v, r.v, unsigned, "ulong" \in {l.a, r.a}))

try_fold_unary(n) ==
  LET x == n.kids[1]
      w == IF IsLong(x) THEN LONG_BITS ELSE INT_BITS
      Unsigned(v) == IF IsUnsigned(x) THEN v % 2^w ELSE v
  IN CASE ~Foldable(n) \/ n.a \notin {"-", "!", "~", "+"} -> n
       [] Foldable(n) /\ n.a = "-" -> Lit(x.a, Unsigned(-x.v))
       [] Foldable(n) /\ n.a = "~" -> Lit(x.a, Unsigned(-x.v - 1))
       [] Foldable(n) /\ n.a = "+" -> x
       [] Foldable(n) /\ n.a = "!" -> Lit("int", Truth(x.v = 0))

\* The type of a constant controlling expression, "none" of any other.
RECURSIVE ctrl_key(_)
ctrl_key(n) == CASE n.op \in {"lit", "cast"} -> n.a [] n.op = "char" -> "char"
                 [] n.op = "unary" -> ctrl_key(n.kids[1]) [] OTHER -> "none"
try_fold_generic(n) ==
  LET arms == Tail(n.kids)
      key == ctrl_key(n.kids[1])
      Of(t) == {i \in DOMAIN arms : arms[i].a = t}
      match == IF Of(key) # {} THEN Min(Of(key)) ELSE Max(Of("default") \cup {0})
  IN IF key = "none" \/ match = 0 THEN n
     ELSE IF arms[match].kids[1].op = "generic" THEN n ELSE arms[match].kids[1]

RECURSIVE opt_fold(_)
opt_fold(n) ==
  LET m == [n EXCEPT !.kids = Now([i \in DOMAIN @ |-> opt_fold(@[i])])]
  IN CASE n.op = "binary" -> try_fold_binary(m) [] n.op = "unary" -> try_fold_unary(m)
       [] n.op = "generic" -> try_fold_generic(m) [] OTHER -> m

\* Casts of literals are folded in the value of an enumerator only.
try_fold_cast(n) ==
  IF n.op = "cast" /\ IsLit(n.kids[1]) /\ n.a # "bool"
  THEN Lit(LitType(n.a \in {"long", "ulong"}, n.a \in {"uchar", "uint", "ulong"}), Convert(n.a, n.kids[1].v))
  ELSE n

----------------------------------------------------------------------------
(* opt_enum: every enumerator of the program, whatever its scope.          *)

\* collect_enum_def: "val" is the running value, "known" whether it could be folded.
CollectEnumerator(c, en) ==
  LET value == try_fold_cast(opt_fold(Replace(en.kids[1], c.table)))
      known == IF en.kids[1] = Null THEN c.known ELSE IsLit(value)
      val == IF en.kids[1] # Null /\ known THEN Wrap2(INT_BITS, value.v) ELSE c.val
  IN [table |-> IF known /\ en.a \notin DOMAIN c.table /\ Cardinality(DOMAIN c.table) < MAX_ENUM
                THEN c.table @@ (en.a :> Lit("int", val)) ELSE c.table,
      val |-> val + 1, known |-> known]
CollectEnum(table, def) ==
  FoldLeft(CollectEnumerator, [table |-> table, val |-> 0, known |-> TRUE], def.kids).table

\* The values of enumerators are resolved in place.
ResolveEnumerators(n, table) ==
  [n EXCEPT !.kids = Now([i \in DOMAIN @ |->
     IF @[i].op = "enumerator" THEN [@[i] EXCEPT !.kids[1] = try_fold_cast(opt_fold(Replace(@, table)))]
     ELSE @[i]])]
RECURSIVE ResolveAll(_, _)
ResolveAll(n, table) ==
  LET m == IF n.op = "enum" THEN ResolveEnumerators(n, table) ELSE n
  IN [m EXCEPT !.kids = Now([i \in DOMAIN @ |-> ResolveAll(@[i], table)])]

opt_enum(program) ==
  LET defs == SelectSeq(PreOrder(program), LAMBDA n : n.op = "enum")
      table == FoldLeft(CollectEnum, << >>, defs)
  IN IF table = << >> THEN ResolveAll(program, table)
     ELSE Replace(ResolveAll(program, table), table)

----------------------------------------------------------------------------
(* opt_propagate: the constants of a function by name, whatever the scope. *)

Entry(name, lit) == [name |-> name, lit |-> lit, active |-> TRUE]
find_entry(map, name) ==
  LET I == {i \in DOMAIN map : map[i].active /\ map[i].name = name}
  IN IF I = {} THEN 0 ELSE Min(I)
kill_entry(map, name) == LET i == find_entry(map, name)
                         IN IF i = 0 THEN map ELSE [map EXCEPT ![i].active = FALSE]

DeclType(n) == n.kids[1].a
DeclInit(n) == n.kids[2]
Declared(n) ==
  LET l == DeclInit(n)
  IN Entry(n.a, Lit(LitType(IsLong(l), IsUnsigned(l) \/ DeclType(n) \in {"uchar", "uint", "ulong"}),
                    IF DeclType(n) = "bool" THEN Truth(l.v # 0) ELSE l.v))

scan_pre(map, n) ==
  CASE n.op = "decl" /\ IsLit(DeclInit(n)) ->
         IF Len(map) < MAX_CONSTANTS THEN Append(map, Declared(n)) ELSE map
    [] n.op = "binary" /\ n.a \in AssignRange /\ n.kids[1].op = "id" -> kill_entry(map, n.kids[1].a)
    [] OTHER -> map

invalidate_pre(map, n) ==
  IF n.op \in {"unary", "post"} /\ n.a \in {"++", "--", "&"} /\ n.kids[1].op = "id"
  THEN kill_entry(map, n.kids[1].a) ELSE map

propagate_func(func) ==
  LET scanned == FoldLeft(scan_pre, << >>, PreOrder(func))
      map == FoldLeft(invalidate_pre, scanned, PreOrder(func))
      active == {map[i].name : i \in {j \in DOMAIN map : map[j].active}}
  IN Replace(func, [name \in active |-> map[find_entry(map, name)].lit])

opt_propagate(program) ==
  [program EXCEPT !.kids = Now([i \in DOMAIN @ |-> IF @[i].op = "func" THEN propagate_func(@[i]) ELSE @[i]])]

----------------------------------------------------------------------------
(* opt_dead: the statement lists of blocks.                                *)

is_terminator(n) == n.op \in {"return", "break", "continue", "goto"}
subtree_has_sa(n) == \E k \in ToSet(PreOrder(n)) : k.op = "static_assert"
NotNull(n) == IF n = Null THEN << >> ELSE <<n>>
ConstCond(n) == IsLit(n.kids[1]) /\ ~IsLong(n.kids[1])

\* prune_const_branch: a condition that is an int literal, no assertion inside.
Prunable(n) ==
  /\ \/ n.op = "if" /\ ConstCond(n)
     \/ n.op = "while" /\ ConstCond(n) /\ n.kids[1].v = 0
  /\ \A i \in 2..Len(n.kids) : ~subtree_has_sa(n.kids[i])
Chosen(n) == IF n.op = "while" THEN << >>
             ELSE NotNull(n.kids[IF n.kids[1].v = 0 THEN 3 ELSE 2])

RECURSIVE process_block_stmts(_, _), PruneAll(_)
process_block_stmts(stmts, seen_term) ==
  IF stmts = << >> THEN << >>
  ELSE LET cur == Head(stmts)
           rest(dead) == process_block_stmts(Tail(stmts), dead)
       IN CASE seen_term /\ cur.op = "label" -> <<cur>> \o rest(FALSE)
            [] seen_term /\ cur.op = "static_assert" -> <<cur>> \o rest(TRUE)
            [] seen_term /\ cur.op \notin {"label", "static_assert"} -> rest(TRUE)
            [] ~seen_term /\ Prunable(cur) -> process_block_stmts(Chosen(cur) \o Tail(stmts), FALSE)
            [] OTHER -> <<cur>> \o rest(is_terminator(cur))

PruneAll(n) ==
  LET m == IF n.op = "block" THEN [n EXCEPT !.kids = process_block_stmts(@, FALSE)] ELSE n
  IN [m EXCEPT !.kids = Now([i \in DOMAIN @ |-> PruneAll(@[i])])]
opt_dead(program) == PruneAll(program)
=============================================================================

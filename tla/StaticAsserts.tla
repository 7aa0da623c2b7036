---------------------------- MODULE StaticAsserts ----------------------------
(***************************************************************************)
(* The evaluator of integer constant expressions (src/ir/gen/sa) on the    *)
(* trees of AstOptimize: what static assertions, array bounds, enumerators *)
(* and constant initializers are computed with.  A value is kept in        *)
(* LONG_BITS whatever its width and sign.  Addresses are in Addresses.     *)
(*                                                                         *)
(* Then the walk that checks every static assertion of a function          *)
(* (sa_walk.c): a frame of declarations for the parameters, for each block *)
(* and for each for statement, and at an assertion one table of them all,  *)
(* in which sizeof of a local is looked up.                                *)
(***************************************************************************)
EXTENDS CExec

CONSTANTS SA_MAX_FRAMES,
          Parameters  \* of every function, a table [name -> type]

ICEVal(v, bits, uns) == [v |-> v, bits |-> bits, uns |-> uns]
NotConstant == ICEVal(0, 0, FALSE)
Long(v) == Wrap2(LONG_BITS, v)

ice_trunc(v, bits, uns) ==
  ICEVal(IF bits >= LONG_BITS THEN Long(v) ELSE IF uns THEN v % 2^bits ELSE Wrap2(bits, v), bits, uns)

\* An int when the value fits, else a long.
ice_eval_int_lit(n) ==
  LET fits == IF IsUnsigned(n) THEN n.v < 2^INT_BITS ELSE n.v \in -(2^(INT_BITS - 1))..(2^(INT_BITS - 1) - 1)
  IN ICEVal(Long(n.v), IF ~IsLong(n) /\ fits THEN INT_BITS ELSE LONG_BITS, IsUnsigned(n))

ice_eval_unary(op, x) ==
  CASE op = "-" -> ice_trunc(-x.v, x.bits, x.uns)
    [] op = "~" -> ice_trunc(-x.v - 1, x.bits, x.uns)
    [] op = "!" -> ice_trunc(Truth(x.v = 0), INT_BITS, FALSE)
    [] op = "+" -> x
    [] OTHER -> NotConstant

Common(l, r) == IF LONG_BITS \in {l.bits, r.bits} THEN LONG_BITS ELSE INT_BITS
ice_bin_logical(op, l, r) ==
  ice_trunc(Truth(IF op = "&&" THEN l.v # 0 /\ r.v # 0 ELSE l.v # 0 \/ r.v # 0), INT_BITS, FALSE)
\* Mutant: the operands of an unsigned comparison are not masked.
CompareAsKept(op, l, r) == ice_trunc(Truth(Compare(op, l.v, r.v)), INT_BITS, FALSE)
ice_bin_cmp(op, l, r) ==
  LET m == 2^Common(l, r)
  IN ice_trunc(Truth(IF l.uns \/ r.uns THEN Compare(op, l.v % m, r.v % m) ELSE Compare(op, l.v, r.v)),
               INT_BITS, FALSE)
ice_bin_arith(op, l, r) ==
  IF op \in {"/", "%"} /\ r.v = 0 THEN NotConstant
  ELSE ice_trunc(CASE op = "+" -> l.v + r.v [] op = "-" -> l.v - r.v [] op = "*" -> l.v * r.v
                   [] op = "/" -> Quotient(l.v, r.v) [] OTHER -> l.v - r.v * Quotient(l.v, r.v),
                 Common(l, r), l.uns \/ r.uns)
ice_bin_shift(op, l, r) ==
  IF r.v < 0 THEN NotConstant
  ELSE ice_trunc(IF r.v >= LONG_BITS THEN (IF op = "<<" \/ l.v >= 0 THEN 0 ELSE -1)
                 ELSE IF op = "<<" THEN Long(l.v * 2^r.v) ELSE l.v \div 2^r.v,
                 l.bits, l.uns)
ice_bin_bitwise(op, l, r) ==
  ice_trunc(CASE op = "&" -> AndBits(LONG_BITS, l.v, r.v) [] op = "|" -> OrBits(LONG_BITS, l.v, r.v)
              [] OTHER -> XorBits(LONG_BITS, l.v, r.v),
            Common(l, r), l.uns \/ r.uns)

ice_eval_binary(op, l, r) ==
  CASE op \in {"&&", "||"} -> ice_bin_logical(op, l, r)
    [] op \in Comparisons -> ice_bin_cmp(op, l, r)
    [] op \in {"+", "-", "*", "/", "%"} -> ice_bin_arith(op, l, r)
    [] op \in {"<<", ">>"} -> ice_bin_shift(op, l, r)
    [] op \in {"&", "|", "^"} -> ice_bin_bitwise(op, l, r)
    [] OTHER -> NotConstant

ice_eval_cast(t, x) == ice_trunc(x.v, Bits(t), t \notin SignedTypes)

ice_node(n, vals) ==
  CASE n.op = "lit" -> ice_eval_int_lit(n)
    [] n.op = "sizeof" -> ICEVal(Bits(n.a), LONG_BITS, TRUE)
    [] n.op = "?:" -> IF vals[1] = NotConstant THEN NotConstant ELSE IF vals[1].v # 0 THEN vals[2] ELSE vals[3]
    [] n.op \in {"unary", "binary", "cast"} ->
         IF NotConstant \in ToSet(vals) THEN NotConstant
         ELSE CASE n.op = "unary" -> ice_eval_unary(n.a, vals[1])
                [] n.op = "binary" -> ice_eval_binary(n.a, vals[1], vals[2])
                [] OTHER -> ice_eval_cast(n.a, vals[1])
    [] OTHER -> NotConstant
RECURSIVE ice_eval(_)
ice_eval(n) == ice_node(n, Now([i \in DOMAIN n.kids |-> ice_eval(n.kids[i])]))

----------------------------------------------------------------------------
(* What C says of it.  Expressions that the evaluator is not meant for are *)
(* Undef like those that C does not define: an operand narrower than int   *)
(* that is not cast, an unsigned operand with a longer signed partner, an  *)
(* unsigned division or shift to the right, a cast to _Bool of more than   *)
(* 0 or 1, branches of ?: that differ in type.                             *)

Wide(x) == Promote(x.t) = x.t
Paired(op, x, y) ==
  /\ {"long", "uint"} # {x.t, y.t}
  /\ op \in {"/", "%"} => x.t = y.t /\ x.t \in SignedTypes
  /\ op = ">>" => x.t \in SignedTypes
MeantNode(n, x) ==
  CASE n.op = "lit" -> IF Convert(n.a, n.v) = n.v THEN Val(n.a, n.v) ELSE Undef
    [] n.op = "sizeof" -> Val("ulong", Bits(n.a))
    [] n.op \in {"unary", "binary", "cast", "?:"} /\ Undef \notin ToSet(x) ->
         CASE n.op = "cast" -> IF n.a = "bool" /\ x[1].v \notin {0, 1} THEN Undef ELSE CastTo(n.a, x[1])
           [] n.op = "?:" -> IF x[2].t # x[3].t THEN Undef ELSE IF x[1].v # 0 THEN x[2] ELSE x[3]
           [] n.op = "unary" /\ n.a \in {"-", "~", "!", "+"} -> IF Wide(x[1]) THEN Unary(n.a, x[1]) ELSE Undef
           [] n.op = "binary" /\ n.a \in Arithmetic \ {","} ->
                IF Wide(x[1]) /\ Wide(x[2]) /\ Paired(n.a, x[1], x[2]) THEN Binary(n.a, x[1], x[2]) ELSE Undef
           [] n.op = "binary" /\ n.a \in {"&&", "||"} ->
                Val("int", Truth(IF n.a = "&&" THEN x[1].v # 0 /\ x[2].v # 0 ELSE x[1].v # 0 \/ x[2].v # 0))
           [] OTHER -> Undef
    [] OTHER -> Undef
RECURSIVE Meaning(_)
Meaning(n) == MeantNode(n, Now([i \in DOMAIN n.kids |-> Meaning(n.kids[i])]))

Agrees(c, x) == x # Undef => /\ <<c.bits, c.uns>> = <<Bits(x.t), x.t \notin SignedTypes>>
                             /\ Convert(x.t, c.v) = x.v
ConstantIsItsValue(n) == Agrees(ice_eval(n), Meaning(n))

----------------------------------------------------------------------------
SACtx(frames, seen) == [frames |-> frames, seen |-> seen]
Empty == [x \in {} |-> ""]
Opens(n) == n.op \in {"func", "block", "for"}
TypeName(n) == n.kids[1].a

\* From the innermost frame to the outermost, each over those before.
sa_eval_assert(c) == SACtx(c.frames, Append(c.seen, FoldRight(LAMBDA f, m : f @@ m, c.frames, Empty)))

sa_check_cb(c, n) ==
  CASE n.op = "static_assert" -> sa_eval_assert(c)
    [] Opens(n) -> IF Len(c.frames) >= SA_MAX_FRAMES THEN c
                   ELSE [c EXCEPT !.frames = Append(@, IF n.op = "func" THEN Parameters ELSE Empty)]
    [] n.op = "decl" /\ c.frames # << >> ->
         [c EXCEPT !.frames[Len(c.frames)] = (n.a :> TypeName(n)) @@ @]
    [] OTHER -> c
\* Mutant: the scope of a for statement stays open.
BlocksOnly(c, n) == IF n.op \in {"func", "block"} /\ c.frames # << >> THEN [c EXCEPT !.frames = Front(@)] ELSE c
sa_block_post_cb(c, n) == IF Opens(n) /\ c.frames # << >> THEN [c EXCEPT !.frames = Front(@)] ELSE c

RECURSIVE SaWalk(_, _), InScope(_, _)
SaWalk(c, n) == sa_block_post_cb(FoldLeft(SaWalk, sa_check_cb(c, n), n.kids), n)
\* What each assertion of a function sees.
ir_check_static_asserts(n) == SaWalk(SACtx(<< >>, << >>), n).seen

----------------------------------------------------------------------------
\* What is in scope at each assertion: the declarations before it in the blocks
\* around it.
Scoped(scope, seen) == [scope |-> scope, seen |-> seen]
InScope(c, n) ==
  CASE n.op = "static_assert" -> [c EXCEPT !.seen = Append(@, c.scope)]
    [] n.op = "decl" -> [c EXCEPT !.scope = (n.a :> TypeName(n)) @@ @]
    [] Opens(n) -> Scoped(c.scope, FoldLeft(InScope, c, n.kids).seen)
    [] OTHER -> FoldLeft(InScope, c, n.kids)
ScopesOf(n) == InScope(Scoped(Parameters, << >>), n).seen

RECURSIVE Depth(_)
Depth(n) == Truth(Opens(n)) + Max({0} \cup {Depth(n.kids[i]) : i \in DOMAIN n.kids})
Declarations(n) == SelectSeq(PreOrder(n), LAMBDA d : d.op = "decl")
DeclaredOnce(n) == \A i, j \in DOMAIN Declarations(n) :
                     i # j => Declarations(n)[i].a # Declarations(n)[j].a /\ Declarations(n)[i].a \notin DOMAIN Parameters
=============================================================================

------------------------------ MODULE ExprParse ------------------------------
(***************************************************************************)
(* The expression parser of parser/lr: a table of shift and reduce         *)
(* functions indexed by the state on top of a stack and the next token,    *)
(* and beside it the chain of casts that have been read but not applied.   *)
(*                                                                         *)
(* A nonterminal carries the name of the have-expression state it leads to *)
(* from an operand state, so SYM_MULT and HS_MULT are both "HS_MULT".      *)
(* A token is a record of a kind and a value, an AST node one of an        *)
(* operator, an attribute (a name, a type) and the nodes below it.  A type *)
(* name is one specifier and its stars.  A parse that is interrupted by    *)
(* one inside _Generic or __builtin_va_arg waits in "outer".               *)
(***************************************************************************)
EXTENDS Integers, Sequences, FiniteSets, SequencesExt

CONSTANTS MAX_STACK,    \* frames of a parse stack
          Operands,     \* expressions, with the tokens and the tree of each
          Around(_),    \* the expressions that have one of them as an operand
          Typedefs      \* names of types

Node(op, a, kids) == [op |-> op, a |-> a, kids |-> kids]
NoNode == Node("null", "", << >>)
Token(k, v) == [k |-> k, v |-> v]
NoToken == Token("none", "")

----------------------------------------------------------------------------
(* Token classes.                                                          *)

UnaryOps == {"+", "-", "!", "~", "*", "&"}
prec_of(k) == CASE k \in {"*", "/"} -> 1 [] k \in {"+", "-"} -> 2 [] k = "<<" -> 3
                [] k = "<" -> 4 [] k = "==" -> 5 [] k = "&" -> 6 [] k = "^" -> 7
                [] k = "|" -> 8 [] k = "&&" -> 9 [] k = "||" -> 10 [] k = "," -> 12
                [] OTHER -> 11
BinaryOps == {"*", "/", "+", "-", "<<", "<", "==", "&", "^", "|", "&&", "||"}
AssignOps == {"=", "+="}
Terminators == {"eof", ";", ")", "]", "}"}
PostfixTokens == {"(", "[", ".", "->", "++", "--"}
CastTargets == {"id", "lit", "(", "++", "--", "!", "~", "sizeof", "{", "&", "*", "-", "+"}

----------------------------------------------------------------------------
(* States, in the order of the enumeration.                                *)

Levels == <<"HS_PRIMARY", "HS_POSTFIX", "HS_UNARY", "HS_CAST_EXPR", "HS_MULT", "HS_ADD",
            "HS_SHIFT", "HS_REL", "HS_EQ", "HS_BAND", "HS_BXOR", "HS_BOR", "HS_LAND",
            "HS_LOR", "HS_COND", "HS_ASSIGN", "HS_EXPR">>
HaveExpr == {Levels[i] : i \in DOMAIN Levels}
LevelOf == [s \in HaveExpr |-> CHOOSE i \in DOMAIN Levels : Levels[i] = s]
state_prec(s) == IF LevelOf[s] \in 5..16 THEN LevelOf[s] - 4 ELSE 0
passthrough_of(s) == IF s = "HS_EXPR" THEN <<"error">> ELSE <<"pass", Levels[LevelOf[s] + 1]>>

OperandStates == {"S_ENTRY", "S_LPAREN", "S_POSTFIX_LBRACK", "S_POSTFIX_LPAREN", "S_TERNARY_Q"}
PrefixStates == {"S_UNARY_OP", "S_SIZEOF", "S_PREFIX_INC", "S_PREFIX_DEC"}
Tight == {"HS_PRIMARY", "HS_POSTFIX", "HS_UNARY", "HS_CAST_EXPR", "HS_MULT", "HS_ADD"}

\* goto_table; a cell that nobody sets is 0, which is S_ENTRY.
Goto(s, sym) ==
  CASE s \in OperandStates -> IF sym = "ARG_LIST" THEN "S_ENTRY" ELSE sym
    [] s \in PrefixStates /\ sym \in Tight ->
         IF sym = "HS_PRIMARY" THEN "S_BINRHS_PRIMARY"
         ELSE IF sym = "HS_POSTFIX" THEN "S_BINRHS_POSTFIX" ELSE "S_UNARY_RHS"
    [] s \in {"S_BINARY_OP", "S_ASSIGN_OP"} ->
         IF sym \in {"HS_PRIMARY", "ARG_LIST"} THEN "S_BINRHS_PRIMARY"
         ELSE IF sym = "HS_POSTFIX" THEN "S_BINRHS_POSTFIX"
         ELSE IF sym = "HS_UNARY" THEN "S_BINRHS_UNARY"
         ELSE IF s = "S_BINARY_OP" THEN "S_BINARY_RHS" ELSE "S_ASSIGN_RHS"
    [] s = "S_TERNARY_COLON" -> "S_TERNARY_RHS"
    [] s \in HaveExpr /\ sym = "HS_POSTFIX" -> "HS_POSTFIX"
    [] s \in {"S_BINRHS_PRIMARY", "S_BINRHS_POSTFIX"} /\ sym = "HS_POSTFIX" -> "S_BINRHS_POSTFIX"
    [] OTHER -> "S_ENTRY"

\* fill_op_state: what an operand may start with.
OperandAction(k) ==
  CASE k = "lit" -> <<"shift", "S_LIT">>          [] k = "id" -> <<"shift", "S_IDENT">>
    [] k = "(" -> <<"shift", "S_LPAREN">>         [] k = "sizeof" -> <<"shift", "S_SIZEOF">>
    [] k = "_Generic" -> <<"shift", "S_GENERIC">> [] k = "va_arg" -> <<"shift", "S_VA_ARG">>
    [] k = "++" -> <<"shift", "S_PREFIX_INC">>    [] k = "--" -> <<"shift", "S_PREFIX_DEC">>
    [] k \in UnaryOps -> <<"shift", "S_UNARY_OP">>
    [] OTHER -> <<"error">>

PostfixAction(k) ==
  CASE k = "[" -> <<"shift", "S_POSTFIX_LBRACK">> [] k = "(" -> <<"shift", "S_POSTFIX_LPAREN">>
    [] k = "." -> <<"shift", "S_POSTFIX_DOT">>    [] k = "->" -> <<"shift", "S_POSTFIX_ARROW">>
    [] k = "++" -> <<"shift", "S_POSTFIX_INC">>   [] k = "--" -> <<"shift", "S_POSTFIX_DEC">>
    [] OTHER -> <<"error">>

HaveExprAction(s, k) ==
  CASE k \in {")", "]"} -> <<"rparen">>
    [] k \in Terminators -> <<"accept">>
    [] k \in BinaryOps -> IF state_prec(s) = 0 \/ prec_of(k) < state_prec(s)
                          THEN <<"shift", "S_BINARY_OP">> ELSE passthrough_of(s)
    [] k \in AssignOps -> <<"shift", "S_ASSIGN_OP">>
    [] k = "," -> <<"comma">>
    [] k = "?" -> <<"shift", "S_TERNARY_Q">>
    [] k = ":" -> <<"colon">>
    [] s \in {"HS_PRIMARY", "HS_POSTFIX"} -> PostfixAction(k)
    [] OTHER -> <<"error">>

action_table(s, k) ==
  CASE s = "S_LIT" \/ s = "S_IDENT" -> <<"primary">>
    [] s = "S_ENTRY" /\ k \in {")", "]"} -> <<"rparen">>
    [] s = "S_POSTFIX_LPAREN" /\ k = ")" -> <<"empty_args">>
    [] s \in OperandStates \cup {"S_UNARY_OP", "S_SIZEOF", "S_BINARY_OP", "S_ASSIGN_OP",
                                 "S_TERNARY_COLON"} -> OperandAction(k)
    [] s \in {"S_PREFIX_INC", "S_PREFIX_DEC"} ->
         IF k \in {"lit", "id", "("} THEN OperandAction(k) ELSE <<"error">>
    [] s \in {"S_POSTFIX_INC", "S_POSTFIX_DEC"} -> <<"postfix">>
    [] s \in {"S_POSTFIX_DOT", "S_POSTFIX_ARROW"} ->
         IF k = "id" THEN <<"shift", "S_POSTFIX_MEMBER">> ELSE <<"error">>
    [] s = "S_POSTFIX_MEMBER" -> <<"member">>
    [] s \in HaveExpr -> HaveExprAction(s, k)
    [] s \in {"S_BINRHS_PRIMARY", "S_BINRHS_POSTFIX"} ->
         IF k \in PostfixTokens THEN PostfixAction(k)
         ELSE <<"pass", IF s = "S_BINRHS_PRIMARY" THEN "HS_POSTFIX" ELSE "HS_UNARY">>
    [] s = "S_BINRHS_UNARY" -> <<"pass", "HS_CAST_EXPR">>
    [] s = "S_UNARY_RHS" -> <<"unary">>
    [] s = "S_BINARY_RHS" -> IF k \in BinaryOps \cup {","} THEN <<"binary_rhs">>
                             ELSE IF k \in AssignOps \cup Terminators \cup {"?", ":"}
                             THEN <<"binary">> ELSE <<"error">>
    [] s = "S_ASSIGN_RHS" -> IF k \in BinaryOps \cup {","} THEN <<"binary_rhs">>
                             ELSE IF k \in AssignOps THEN <<"shift", "S_ASSIGN_OP">>
                             ELSE IF k = "?" THEN <<"shift", "S_TERNARY_Q">>
                             ELSE <<"binary">>
    [] s = "S_TERNARY_RHS" -> IF k \in PostfixTokens THEN PostfixAction(k)
                              ELSE IF k = "?" THEN <<"shift", "S_TERNARY_Q">>
                              ELSE IF k \in BinaryOps THEN <<"shift", "S_BINARY_OP">>
                              ELSE IF k = ":" THEN <<"ternary_colon">> ELSE <<"ternary">>
    [] OTHER -> <<"error">>

----------------------------------------------------------------------------
(* The parser: the token list and position, the stack (its first frame is  *)
(* index 0 of the code), the pending casts (innermost first), the nesting  *)
(* of brackets, the token to stop at, the contexts that wait, the outcome. *)

Frame(s, t, n) == [state |-> s, tok |-> t, node |-> n]
Context == [stack |-> <<Frame("S_ENTRY", NoToken, NoNode)>>, casts |-> << >>, depth |-> 0]

Parser(toks, types, unmatched) ==
  [toks |-> toks, pos |-> 1, ctx |-> Context, stop |-> 0, outer |-> << >>,
   typedefs |-> types, unmatched |-> unmatched, status |-> "run", result |-> NoNode]

At(p, i) == IF i <= Len(p.toks) THEN p.toks[i] ELSE Token("eof", "")
Kind(p, i) == At(p, i).k
Sp(p) == Len(p.ctx.stack)
FrameAt(p, i) == p.ctx.stack[i]
Top(p) == FrameAt(p, Sp(p))

Fail(p) == [p EXCEPT !.status = "error"]
Advance(p) == [p EXCEPT !.pos = @ + 1]
Pop(p, n) == [p EXCEPT !.ctx.stack = SubSeq(@, 1, Len(@) - n)]
PushFrame(p, f) == IF Sp(p) >= MAX_STACK THEN Fail(p) ELSE [p EXCEPT !.ctx.stack = Append(@, f)]
goto_push(p, node, sym) == PushFrame(p, Frame(Goto(Top(p).state, sym), NoToken, node))
do_shift(p, target) ==
  PushFrame(Advance(IF Kind(p, p.pos) \in {"(", "["} THEN [p EXCEPT !.ctx.depth = @ + 1] ELSE p),
            Frame(target, At(p, p.pos), NoNode))

\* The closing bracket of a group.
LeaveGroup(p) == Advance([p EXCEPT !.ctx.depth = @ - 1])

\* apply_pending_casts_where: the longest prefix of the chain within both bounds.
Qualify(p, min_pd, min_sp) ==
  LET ok(i) == p.ctx.casts[i].pd >= min_pd /\ p.ctx.casts[i].sp >= min_sp
      n == {m \in 0..Len(p.ctx.casts) : \A i \in 1..m : ok(i)}
  IN CHOOSE m \in n : \A o \in n : o <= m
Wrap(p, node, n) ==
  LET w[i \in 0..n] == IF i = 0 THEN node ELSE Node("cast", "", <<p.ctx.casts[i].type, w[i - 1]>>)
  IN w[n]
apply_pending_casts_where(p, at, min_pd, min_sp) ==
  LET n == Qualify(p, min_pd, min_sp)
  IN [p EXCEPT !.ctx.stack[at].node = Wrap(p, @, n), !.ctx.casts = SubSeq(@, n + 1, Len(@))]

\* apply_pending_cast_at_reduce: after every reduction.
AtReduce(p) ==
  LET st == Top(p).state
      unary == st = "S_UNARY_RHS" /\ Sp(p) > 1
      latch == st \in {"HS_PRIMARY", "HS_POSTFIX"} /\ Kind(p, p.pos) \in BinaryOps
  IN IF p.status # "run" \/ p.ctx.casts = << >> \/ Kind(p, p.pos) \in PostfixTokens
          \/ ~(st \in {"HS_UNARY", "HS_CAST_EXPR", "S_BINRHS_UNARY"} \/ unary \/ latch)
     THEN p
     ELSE IF Top(p).node = NoNode THEN [p EXCEPT !.ctx.casts = << >>]
     ELSE apply_pending_casts_where(p, Sp(p), p.ctx.depth, IF unary THEN Sp(p) - 1 ELSE 0)

----------------------------------------------------------------------------
(* Reductions.  Each pops its frames and pushes the node it makes.         *)

Reduce(p, n, node, sym) == goto_push(Pop(p, n), node, sym)
Below(p, i) == FrameAt(p, Sp(p) - i)

reduce_primary(p) ==
  Reduce(p, 1, Node(Top(p).tok.k, Top(p).tok.v, << >>), "HS_PRIMARY")
reduce_postfix(p) ==
  Reduce(p, 2, Node("post", Top(p).tok.k, <<Below(p, 1).node>>), "HS_POSTFIX")
reduce_member_access(p) ==
  Reduce(p, 3, Node(Below(p, 1).tok.k, Top(p).tok.v, <<Below(p, 2).node>>), "HS_POSTFIX")
reduce_index(p) ==
  Reduce(LeaveGroup(p), 3, Node("index", "", <<Below(p, 2).node, Top(p).node>>), "HS_POSTFIX")
reduce_unary_rhs(p) ==
  LET op == Below(p, 1).tok.k
  IN Reduce(p, 2, Node(IF op = "sizeof" THEN op ELSE "unary", IF op = "sizeof" THEN "" ELSE op,
                       <<Top(p).node>>), "HS_UNARY")

op_to_lhs(k) == IF k = "," THEN "HS_EXPR"
                ELSE IF k \in BinaryOps THEN Levels[prec_of(k) + 4] ELSE "HS_ASSIGN"
reduce_binary_op(p) ==
  LET op == Below(p, 1).tok.k
  IN Reduce(p, 3, Node("binary", op, <<Below(p, 2).node, Top(p).node>>), op_to_lhs(op))

\* Mutant: an operator of the same precedence is shifted too.
RightToLeft(p) ==
  IF prec_of(Kind(p, p.pos)) <= prec_of(Below(p, 1).tok.k)
  THEN do_shift(p, "S_BINARY_OP") ELSE reduce_binary_op(p)

lr1_binary_rhs_action(p) ==
  IF prec_of(Kind(p, p.pos)) < prec_of(Below(p, 1).tok.k)
  THEN do_shift(p, "S_BINARY_OP") ELSE reduce_binary_op(p)

reduce_ternary(p) ==
  Reduce(p, 5, Node("?:", "", <<Below(p, 4).node, Below(p, 2).node, Top(p).node>>), "HS_COND")

\* The frames of a state, from the top down.
LastFrame(p, S) == LET I == {i \in 1..Sp(p) : p.ctx.stack[i].state \in S}
                   IN IF I = {} THEN 0 ELSE CHOOSE i \in I : \A j \in I : j <= i

\* lr1_handle_colon: a ':' belongs to the last '?' that has none yet, or to a label.
lr1_handle_colon(p) ==
  LET open(i) == Cardinality({j \in i..Sp(p) : FrameAt(p, j).state = "S_TERNARY_COLON"})
                   < Cardinality({j \in i..Sp(p) : FrameAt(p, j).state = "S_TERNARY_Q"})
  IN IF \E i \in 1..Sp(p) : open(i) THEN do_shift(p, "S_TERNARY_COLON")
     ELSE [p EXCEPT !.status = "accept"]
lr1_ternary_rhs_colon(p) ==
  LET i == LastFrame(Pop(p, 1), {"S_TERNARY_COLON", "S_TERNARY_Q"})
  IN IF i = 0 THEN Fail(p)
     ELSE IF FrameAt(p, i).state = "S_TERNARY_COLON" THEN reduce_ternary(p)
     ELSE do_shift(p, "S_TERNARY_COLON")

\* lr1_handle_comma: an argument ends here if a call is the innermost bracket.
lr1_handle_comma(p) ==
  LET i == LastFrame(p, {"S_LPAREN", "S_POSTFIX_LPAREN"})
      q == IF Top(p).node = NoNode THEN p ELSE apply_pending_casts_where(p, Sp(p), p.ctx.depth, 0)
  IN IF i = 0 \/ FrameAt(p, i).state = "S_LPAREN" THEN do_shift(p, "S_ASSIGN_OP")
     ELSE Advance(Reduce(q, 1, Top(q).node, "ARG_LIST"))

\* Mutant: the casts inside a group stay pending.
CloseParenOnly(p) == Reduce(LeaveGroup(p), 2, Top(p).node, "HS_PRIMARY")

\* reduce_primary_paren_close: casts recorded inside the group wrap here; those just
\* outside wait if the group is the operand of a prefix or a postfix operator follows.
reduce_primary_paren_close(p) ==
  LET waits == \/ Sp(p) > 2 /\ Below(p, 2).state \in PrefixStates
               \/ p.ctx.casts # << >> /\ Kind(p, p.pos + 1) \in PostfixTokens
      q == IF Top(p).node = NoNode THEN p
           ELSE apply_pending_casts_where(p, Sp(p), IF waits THEN p.ctx.depth ELSE p.ctx.depth - 1, 0)
  IN Reduce(LeaveGroup(q), 2, Top(q).node, "HS_PRIMARY")

reduce_call_close(p) ==
  LET i == LastFrame(Pop(p, 1), {"S_POSTFIX_LPAREN"})
      q == IF Top(p).node = NoNode THEN p ELSE apply_pending_casts_where(p, Sp(p), p.ctx.depth, 0)
      nodes == [j \in 1..(Sp(p) - i) |-> FrameAt(q, i + j).node]
      args == SelectSeq(nodes, LAMBDA n : n # NoNode)
  IN IF i = 0 THEN Fail(p)
     ELSE Reduce(LeaveGroup(q), Sp(p) - i + 2, Node("call", "", <<FrameAt(q, i - 1).node>> \o args),
                 "HS_POSTFIX")

\* lr1_handle_rparen: closes the innermost bracket of its kind, or ends the expression
\* of a statement that owns the ')'.
lr1_handle_rparen(p) ==
  LET open == IF Kind(p, p.pos) = "]" THEN "[" ELSE "("
      I == {i \in 1..Sp(p) : FrameAt(p, i).tok.k = open}
      st == FrameAt(p, CHOOSE i \in I : \A j \in I : j <= i).state
  IN IF I = {}
     THEN IF p.unmatched THEN Advance([p EXCEPT !.unmatched = FALSE, !.status = "accept"])
          ELSE Fail(p)
     ELSE CASE st = "S_POSTFIX_LBRACK" -> reduce_index(p)
            [] st = "S_LPAREN" -> reduce_primary_paren_close(p)
            [] st = "S_POSTFIX_LPAREN" -> reduce_call_close(p)
            [] OTHER -> Fail(p)

Act(p, a) ==
  CASE a[1] = "shift" -> do_shift(p, a[2])
    [] a[1] = "pass" ->
         [p EXCEPT !.ctx.stack[Sp(p)].state = Goto(Below(p, 1).state, a[2])]
    [] a[1] = "primary" -> reduce_primary(p)    [] a[1] = "postfix" -> reduce_postfix(p)
    [] a[1] = "member" -> reduce_member_access(p) [] a[1] = "unary" -> reduce_unary_rhs(p)
    [] a[1] = "binary" -> reduce_binary_op(p)   [] a[1] = "binary_rhs" -> lr1_binary_rhs_action(p)
    [] a[1] = "ternary" -> reduce_ternary(p)    [] a[1] = "ternary_colon" -> lr1_ternary_rhs_colon(p)
    [] a[1] = "empty_args" -> goto_push(p, NoNode, "ARG_LIST")
    [] a[1] = "comma" -> lr1_handle_comma(p)    [] a[1] = "colon" -> lr1_handle_colon(p)
    [] a[1] = "rparen" -> lr1_handle_rparen(p)  [] a[1] = "accept" -> [p EXCEPT !.status = "accept"]
    [] OTHER -> Fail(p)

----------------------------------------------------------------------------
(* Casts, sizeof(type) and compound literals, decided at a '(' before it   *)
(* is shifted.                                                             *)

StarsEnd(p, i) == LET E == {j \in i..(Len(p.toks) + 1) : Kind(p, j) # "*"}
                  IN CHOOSE j \in E : \A o \in E : j <= o

\* ll_parse_type_name from position i: the type, and the position after it.
TypeName(p, i) == [type |-> Node("type", At(p, i).v, SubSeq(p.toks, i + 1, StarsEnd(p, i + 1) - 1)),
                   pos |-> StarsEnd(p, i + 1)]
StartsType(p, i) == Kind(p, i) = "type" \/ Kind(p, i) = "id"

is_cast_start(p, i) ==
  \/ Kind(p, i) = "type"
  \/ /\ Kind(p, i) = "id"
     /\ IF Kind(p, i + 1) = "*" THEN Kind(p, StarsEnd(p, i + 1)) = ")"
        ELSE Kind(p, i + 1) = ")" /\ Kind(p, i + 2) \in CastTargets

\* cast_lookahead_gate: where both readings are possible a name must be a typedef.
Gated(p, i) ==
  /\ Kind(p, i) = "id" /\ Kind(p, i + 1) = ")"
  /\ Kind(p, i + 2) \in {"(", "&", "*", "-", "+", "++", "--"}
  /\ At(p, i).v \notin p.typedefs

cast_inside_sizeof(p) ==
  LET i == LastFrame(p, {"S_SIZEOF", "S_LPAREN", "S_POSTFIX_LPAREN"})
  IN i # 0 /\ FrameAt(p, i).state = "S_SIZEOF"

NoCastAfter == HaveExpr \cup {"S_IDENT", "S_BINRHS_PRIMARY", "S_BINRHS_POSTFIX", "S_BINRHS_UNARY",
                              "S_UNARY_RHS", "S_ASSIGN_RHS", "S_TERNARY_RHS"}
CastHere(p) == /\ Kind(p, p.pos) = "(" /\ Top(p).state \notin NoCastAfter
               /\ is_cast_start(p, p.pos + 1) /\ ~Gated(p, p.pos + 1)

SkipParen(p, i) == IF Kind(p, i) = ")" THEN i + 1 ELSE i
parse_sizeof_type(p, t) ==
  goto_push(Pop([p EXCEPT !.pos = SkipParen(p, t.pos)], 1),
            Node("sizeof", "type", <<t.type>>), "HS_UNARY")

\* skip_compound_literal: the braces are parsed once the expression is complete.
CloseBrace(p, i) ==
  LET C == {j \in i..Len(p.toks) :
              /\ Kind(p, j) = "}"
              /\ Cardinality({o \in i..j : Kind(p, o) = "{"})
                   = Cardinality({o \in i..j : Kind(p, o) = "}"})}
  IN IF C = {} THEN Len(p.toks) ELSE CHOOSE j \in C : \A o \in C : j <= o
skip_compound_literal(p, t, i) ==
  goto_push([p EXCEPT !.pos = CloseBrace(p, i) + 1], Node("literal", "", <<t.type>>), "HS_PRIMARY")

try_parse_cast(p) ==
  LET t == TypeName(p, p.pos + 1)
      i == SkipParen(p, t.pos)
  IN CASE cast_inside_sizeof(p) -> parse_sizeof_type(p, t)
       [] ~cast_inside_sizeof(p) /\ Kind(p, i) = "{" -> skip_compound_literal(p, t, i)
       [] OTHER -> [p EXCEPT !.pos = i, !.ctx.casts =
                      <<[type |-> t.type, pd |-> p.ctx.depth, sp |-> Sp(p)]>> \o @]

----------------------------------------------------------------------------
(* _Generic and __builtin_va_arg: the inner expressions are parsed by the  *)
(* same parser, from an empty stack, while the outer context waits.        *)

\* parse_until_sep: the first ',' or closing bracket that is not inside brackets.
Separator(p, i) ==
  LET nest(j) == Cardinality({o \in i..j : Kind(p, o) \in {"(", "[", "{"}})
                   - Cardinality({o \in i..j : Kind(p, o) \in {")", "]", "}"}})
      S == {j \in i..Len(p.toks) : \/ Kind(p, j) = "," /\ nest(j) = 0
                                   \/ Kind(p, j) \in {")", "]", "}"} /\ nest(j) = -1}
  IN IF S = {} THEN 0 ELSE CHOOSE j \in S : \A o \in S : j <= o

\* An expression inside starts at position i; "waits" says what it is a part of.
Enter(p, i, waits) ==
  IF Separator(p, i) = 0 THEN Fail(p)
  ELSE [p EXCEPT !.pos = i, !.stop = Separator(p, i), !.ctx = Context, !.outer = <<waits>> \o @]

OpenWholesale(p) ==
  Enter(p, p.pos + 1, [ctx |-> p.ctx, stop |-> p.stop, what |-> Top(p).state, kids |-> << >>, arm |-> << >>])

\* The whole construct is read: back to the outer context, where it is a primary.
CloseWholesale(p, w, i) ==
  goto_push(Pop([p EXCEPT !.pos = i, !.ctx = w.ctx, !.stop = w.stop, !.outer = Tail(@)], 1),
            Node(IF w.what = "S_GENERIC" THEN "_Generic" ELSE "va_arg", "", w.kids), "HS_PRIMARY")

\* parse_generic_arm from position i, or the end of the selection.
NextArm(p, w, i) ==
  LET t == IF Kind(p, i) = "default" THEN [type |-> NoNode, pos |-> i + 1] ELSE TypeName(p, i)
  IN IF Kind(p, i) = ")" THEN CloseWholesale(p, w, i + 1)
     ELSE IF Kind(p, i) \notin {"default", "type", "id"} \/ Kind(p, t.pos) # ":" THEN Fail(p)
     ELSE Enter([p EXCEPT !.outer = Tail(@)], t.pos + 1, [w EXCEPT !.arm = <<t.type>>])

\* An inner expression has been parsed to node n.
ResumeWholesale(p, n) ==
  LET w == Head(p.outer)
      i == p.stop + 1
      t == TypeName(p, i)
      whole == [w EXCEPT !.kids = @ \o w.arm \o <<n>>]
  IN IF w.arm = << >> /\ Kind(p, p.stop) # "," THEN Fail(p)
     ELSE CASE w.what = "S_VA_ARG" ->
                 IF StartsType(p, i) /\ Kind(p, t.pos) = ")"
                 THEN CloseWholesale(p, [whole EXCEPT !.kids = Append(@, t.type)], t.pos + 1)
                 ELSE Fail(p)
            [] w.arm # << >> /\ Kind(p, p.stop) # "," -> CloseWholesale(p, whole, i)
            [] OTHER -> NextArm(p, whole, i)

----------------------------------------------------------------------------
(* One turn of the loop of lr1_parse_expr_inner.                           *)

\* LR_ACCEPT: what is still pending wraps the result.
Accepted(p) ==
  LET n == IF Top(p).node = NoNode THEN NoNode ELSE Wrap(p, Top(p).node, Len(p.ctx.casts))
  IN IF p.outer = << >> THEN [p EXCEPT !.result = n]
     ELSE IF n = NoNode THEN Fail(p)
     ELSE ResumeWholesale([p EXCEPT !.status = "run"], n)

Turn(p) ==
  LET next == IF p.pos = p.stop THEN ";" ELSE Kind(p, p.pos)
      q == IF CastHere(p) THEN try_parse_cast(p)
           ELSE IF Top(p).state \in {"S_GENERIC", "S_VA_ARG"} /\ Kind(p, p.pos) = "("
           THEN OpenWholesale(p)
           ELSE AtReduce(Act(p, action_table(Top(p).state, next)))
  IN IF q.status = "accept" THEN Accepted(q) ELSE q

----------------------------------------------------------------------------
(* The parser at work on the expressions of a set, each ended by a ';'.    *)

VARIABLES written,      \* the expression
          parser

vars == <<written, parser>>

Init == /\ \E x \in Operands : written \in Around(x)
        /\ parser = Parser(written.toks \o <<Token(";", "")>>, Typedefs, FALSE)

lr1_parse_expr_inner == /\ parser.status = "run"
                        /\ parser' = Turn(parser)
                        /\ UNCHANGED written

Next == lr1_parse_expr_inner

Spec == Init /\ [][Next]_vars

----------------------------------------------------------------------------
\* Every expression is accepted, with the tree that C's grammar gives it:
\* precedence, associativity, the reach of a cast and of sizeof, the '?' of a
\* ':' and the call of a ','.  It holds of expressions in which something makes
\* the parser apply each cast in time: a binary operator, a bracket, a unary
\* operator around it.  b[(T)a] and (T)a ? b : c are among the others, which
\* MCExpressionRun brackets.
ParsedAsWritten ==
  parser.status # "run" => parser.status = "accept" /\ parser.result = written.tree

\* A cast that waits was read at a frame that is still on the stack, inside
\* brackets that are still open, and the chain is in the order of reading: no
\* cast is left behind by the reduction of what it was written in.  The nesting
\* depth that casts are compared with is the number of brackets that are open,
\* across reductions and inner expressions.  The expressions are those of
\* ParsedAsWritten: in b[(T)a] the cast is left behind by the index.
CastsWaitInside ==
  LET casts == parser.ctx.casts
      open == {i \in DOMAIN parser.ctx.stack : parser.ctx.stack[i].tok.k \in {"(", "["}}
  IN /\ parser.ctx.depth = Cardinality(open)
     /\ parser.status = "run" =>
          \A i \in DOMAIN casts :
            /\ casts[i].sp <= Sp(parser) /\ casts[i].pd <= parser.ctx.depth
            /\ \A j \in 1..(i - 1) : casts[j].sp >= casts[i].sp /\ casts[j].pd >= casts[i].pd
=============================================================================

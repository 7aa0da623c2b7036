----------------------------- MODULE CArithmetic -----------------------------
(***************************************************************************)
(* What C says of integer arithmetic, on types of a few bits: conversions, *)
(* the usual arithmetic conversions, and the value of each operator, which *)
(* may be undefined.  The compiler's own arithmetic is compared with it.   *)
(***************************************************************************)
EXTENDS Integers, Sequences, FiniteSets, FiniteSetsExt

CONSTANTS CHAR_BITS, INT_BITS, LONG_BITS

ASSUME WidthsAssumption ==
  /\ CHAR_BITS \in Nat \ {0} /\ INT_BITS \in Nat /\ LONG_BITS \in Nat
  /\ CHAR_BITS < INT_BITS /\ INT_BITS < LONG_BITS

SignedTypes == {"char", "int", "long"}
Bits(t) == CASE t \in {"char", "uchar"} -> CHAR_BITS
             [] t \in {"int", "uint"} -> INT_BITS
             [] t \in {"long", "ulong"} -> LONG_BITS
             [] OTHER -> 1

Val(t, v) == [t |-> t, v |-> v]
Undef == Val("undefined", 0)

Wrap2(w, v) == LET m == v % 2^w IN IF m >= 2^(w - 1) THEN m - 2^w ELSE m
Convert(t, v) == CASE t = "bool" -> IF v = 0 THEN 0 ELSE 1
                   [] t \in SignedTypes -> Wrap2(Bits(t), v)
                   [] OTHER -> v % 2^Bits(t)
CastTo(t, x) == IF x = Undef THEN Undef ELSE Val(t, Convert(t, x.v))

Promote(t) == IF t \in {"bool", "char", "uchar"} THEN "int" ELSE t
Usual(s, t) ==
  LET both == {Promote(s), Promote(t)}
  IN CASE "ulong" \in both -> "ulong" [] "long" \in both -> "long"
       [] "uint" \in both -> "uint"   [] OTHER -> "int"

\* A result in type t: unsigned types wrap, signed ones must hold it.
InType(t, v) == IF t \in SignedTypes /\ Convert(t, v) # v THEN Undef ELSE Val(t, Convert(t, v))

Quotient(a, b) == LET q == (IF a < 0 THEN -a ELSE a) \div (IF b < 0 THEN -b ELSE b)
                  IN IF (a < 0) = (b < 0) THEN q ELSE -q
Bit(v, i) == (v \div 2^i) % 2
Bitwise2(w, Pick(_, _), a, b) ==
  MapThenSumSet(LAMBDA i : IF Pick(Bit(a, i) = 1, Bit(b, i) = 1) THEN 2^i ELSE 0, 0..(w - 1))
AndBits(w, a, b) == Bitwise2(w, LAMBDA p, q : p /\ q, a, b)
OrBits(w, a, b) == Bitwise2(w, LAMBDA p, q : p \/ q, a, b)
XorBits(w, a, b) == Bitwise2(w, LAMBDA p, q : p # q, a, b)

Truth(b) == IF b THEN 1 ELSE 0
Comparisons == {"==", "!=", "<", ">", "<=", ">="}
Compare(op, a, b) == CASE op = "==" -> a = b [] op = "!=" -> a # b [] op = "<" -> a < b
                       [] op = ">" -> a > b [] op = "<=" -> a <= b [] OTHER -> a >= b

Shift(op, x, y) ==
  LET t == Promote(x.t)
  IN IF y.v < 0 \/ y.v >= Bits(t) THEN Undef
     ELSE IF op = ">>" THEN Val(t, x.v \div 2^y.v)
     ELSE IF x.v < 0 THEN Undef ELSE InType(t, x.v * 2^y.v)

Binary(op, x, y) ==
  LET t == Usual(x.t, y.t)
      a == Convert(t, x.v)
      b == Convert(t, y.v)
  IN CASE x = Undef \/ y = Undef -> Undef
       [] x # Undef /\ y # Undef /\ op \in {"<<", ">>"} -> Shift(op, x, y)
       [] x # Undef /\ y # Undef /\ op \in Comparisons -> Val("int", Truth(Compare(op, a, b)))
       [] x # Undef /\ y # Undef /\ op = "," -> y
       [] x # Undef /\ y # Undef /\ op \in {"/", "%"} ->
            IF b = 0 THEN Undef
            ELSE IF op = "/" THEN InType(t, Quotient(a, b)) ELSE InType(t, a - b * Quotient(a, b))
       [] x # Undef /\ y # Undef /\ op \in {"+", "-", "*"} ->
            InType(t, CASE op = "+" -> a + b [] op = "-" -> a - b [] OTHER -> a * b)
       [] x # Undef /\ y # Undef /\ op \in {"&", "|", "^"} ->
            Val(t, Convert(t, CASE op = "&" -> AndBits(Bits(t), a, b)
                                [] op = "|" -> OrBits(Bits(t), a, b)
                                [] OTHER -> XorBits(Bits(t), a, b)))

Unary(op, x) ==
  LET t == Promote(x.t)
  IN CASE x = Undef -> Undef
       [] x # Undef /\ op = "-" -> InType(t, -x.v)
       [] x # Undef /\ op = "~" -> Val(t, Convert(t, -x.v - 1))
       [] x # Undef /\ op = "!" -> Val("int", Truth(x.v = 0))
       [] x # Undef /\ op = "+" -> Val(t, x.v)
==============================================================================

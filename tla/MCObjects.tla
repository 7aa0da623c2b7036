------------------------------ MODULE MCObjects ------------------------------
(***************************************************************************)
(* Fields of every size, with bit-fields of widths below, at and across    *)
(* the units; objects whose elements are elided, designated, braced and    *)
(* strings.                                                                *)
(***************************************************************************)
EXTENDS Objects

CharT == Scalar(1)
ShortT == Scalar(2)
IntT == Scalar(4)
LongT == Scalar(8)
Pair == StructType(<<Field("x", CharT), Field("y", ShortT)>>)
Mixed == StructType(<<Bits("a", IntT, 3), Bits("", IntT, 2), Bits("b", IntT, 5), Field("c", CharT)>>)
Either == UnionType(<<Field("i", ShortT), Field("c", CharT)>>)
Text == ArrayType(CharT, 3)

MCFields == {Field("n", t) : t \in {CharT, ShortT, IntT, LongT, ArrayType(CharT, 3), ArrayType(CharT, 9), Pair, Mixed, Either}}
            \cup {Bits("n", t, w) : t \in {CharT, ShortT, IntT, LongT}, w \in {1, 8}}
            \cup {Bits("n", IntT, 9), Bits("n", IntT, 20), Bits("n", LongT, 40), Bits("", IntT, 0), Bits("", ShortT, 3), Bits("", CharT, 0)}

Line == StructType(<<Field("p", Pair), Field("z", CharT)>>)
Record == StructType(<<Field("s", Text), Field("u", Either), Field("z", ShortT)>>)
Grid == ArrayType(ArrayType(ShortT, 2), 2)
Pairs == ArrayType(Pair, 2)
Deep == StructType(<<Field("l", Line), Field("g", ArrayType(CharT, 2))>>)
Tagged == StructType(<<Bits("t", IntT, 3), Field("p", Pair), Field("z", CharT)>>)
Holder == StructType(<<Field("m", Mixed), Field("z", CharT)>>)
MCTypes == {Line, Record, Grid, Pairs, Mixed, Deep, Tagged, Text, Holder}

Designators(t) == {<<i>> : i \in (IF t.k = "array" THEN 1..t.n ELSE {f.name : f \in {g \in ToSet(t.fields) : g.name # ""}})}
Under(t, s) == IF t.k = "array" THEN t.inner ELSE t.fields[ir_struct_field_index(t, s[1])].ty
Chains(t) == Designators(t) \cup UNION {{s \o u : u \in Designators(Under(t, s))} : s \in {r \in Designators(t) : IsAggregate(Under(t, r))}}
Values == {NumI(1), StrI(<<1, 2>>), ListI(<<NumI(3)>>), ListI(<<NumI(1), NumI(2)>>)}
MCElements(t) == Values \cup {NumI(-2)} \cup {DesigI(s, v) : s \in Chains(t), v \in Values}
                 \cup (IF t = Deep THEN {DesigI(<<"l", "p", f>>, NumI(1)) : f \in {"x", "y"}} ELSE {})

Plain(op, n) == Step(op, n, "", None)
MCSteps(t) == {Plain("[]", i) : i \in {0, 1, 2}} \cup {Plain("+", k) : k \in {1, -1}}
              \cup {Plain(op, 0) : op \in {"&", "*", "-", "==", "<", "sizeof"}}
              \cup {Step(".", 0, f, None) : f \in {"p", "x", "y", "z", "u", "i", "l", "g", "a", "c", "s", "m"}}
              \cup {Step("->", 0, f, None) : f \in {"p", "x", "y", "z", "l", "g", "c", "m"}}
              \cup {Step("cast", 0, "", c) : c \in {PtrType(t), PtrType(CharT), PtrType(Pair), LongT}}
==============================================================================

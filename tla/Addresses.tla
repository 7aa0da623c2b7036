------------------------------ MODULE Addresses ------------------------------
(***************************************************************************)
(* Address constants and sizeof in the evaluator of constant expressions   *)
(* (src/ir/gen/sa).  An expression is the steps that are applied, in turn, *)
(* to the name of a global object or to the constant 0: a member, an       *)
(* element, &, *, + k, a difference or a comparison with the global, a     *)
(* cast, sizeof.  Of each, the code asks for three things: the type        *)
(* (ice_expr_type), the address when it is an operand of &, . or [] (     *)
(* ice_addr_of), and the value (ice_eval).                                 *)
(***************************************************************************)
EXTENDS Abi

PtrType(t) == [Type("ptr", 0, 8, 8) EXCEPT !.inner = t]
Step(op, n, f, t) == [op |-> op, n |-> n, f |-> f, ty |-> t]

\* An address is that of an object ("": none) and an offset, with the size of
\* what it points to; an integer has its value in off.
Addr(name, off, elem) == [k |-> "ptr", name |-> name, off |-> off, elem |-> elem]
Integer(v) == [k |-> "int", name |-> "", off |-> v, elem |-> 0]
Fail == [k |-> "fail", name |-> "", off |-> 0, elem |-> 0]

\* core: the value of the operand inside the casts; cast: the node is a cast.
Asked(type, addr, value) == [type |-> type, addr |-> addr, value |-> value, core |-> value, cast |-> FALSE]

ice_eval_ident(t) == Asked(t, Addr("g", 0, t.size), IF t.k = "array" THEN Addr("g", 0, t.inner.size) ELSE Fail)

ice_type_index(e) == IF e.type.k \in {"array", "ptr"} THEN e.type.inner ELSE None
ice_index(e, i) ==
  LET t == e.type
      known == t.k = "array"
  IN Asked(ice_type_index(e),
           IF ~known \/ e.addr = Fail THEN Fail ELSE Addr(e.addr.name, e.addr.off + i * t.inner.size, t.inner.size),
           IF ~known \/ e.value.k # "ptr" \/ e.value.elem = 0 \/ t.inner.k # "array" THEN Fail
           ELSE Addr(e.value.name, e.value.off + i * e.value.elem, t.inner.inner.size))

RecordOf(e) == IF e.type.k = "ptr" THEN e.type.inner ELSE e.type
ice_type_member(e, f) == IF ~IsRecord(RecordOf(e)) THEN None ELSE RecordOf(e).fields[ir_struct_field_index(RecordOf(e), f)].ty
\* The object of a member and the offset of the object.
ice_addr_member_base(e, op) ==
  IF op = "->"
  THEN IF ~e.cast \/ e.type.k # "ptr" \/ e.core.k # "int" THEN Fail ELSE Addr("", e.core.off, 0)
  ELSE IF ~IsRecord(e.type) THEN Fail ELSE e.addr
\* Mutant: the offset of the record is forgotten.
MemberFromStart(e, op, f) ==
  LET base == ice_addr_member_base(e, op)
      i == ir_struct_field_index(RecordOf(e), f)
  IN IF base = Fail \/ ir_has_bitfields(RecordOf(e)) THEN Fail
     ELSE Addr(base.name, ir_struct_field_offset(RecordOf(e), i), ice_type_member(e, f).size)
ice_addr_member(e, op, f) ==
  LET base == ice_addr_member_base(e, op)
      rec == RecordOf(e)
      i == ir_struct_field_index(rec, f)
  IN IF base = Fail \/ (ir_has_bitfields(rec) /\ ir_field_info(rec, i).width # 0) THEN Fail
     ELSE Addr(base.name,
               base.off + (IF ir_has_bitfields(rec) THEN ir_field_info(rec, i).byte ELSE ir_struct_field_offset(rec, i)),
               ice_type_member(e, f).size)

ice_type_unary(op, t) ==
  CASE t = None -> None
    [] t # None /\ op = "&" -> PtrType(t)
    [] t # None /\ op = "*" -> IF t.k \in {"ptr", "array"} THEN t.inner ELSE None
\* Arithmetic on an address is a pointer to characters.
ice_type_binary(t) == IF t = None THEN None ELSE IF t.k \in {"ptr", "array"} THEN PtrType(Scalar(1)) ELSE Scalar(8)

ice_bin_ptr_arith(v, k) == CASE v.k = "ptr" -> IF v.elem = 0 THEN Fail ELSE [v EXCEPT !.off = @ + k * v.elem]
                             [] v.k = "int" -> Integer(v.off + k)
                             [] OTHER -> Fail
Truncated(a, b) == IF a < 0 THEN -((-a) \div b) ELSE a \div b
ice_bin_ptr2(op, l, r) ==
  CASE l.k # "ptr" \/ r.k # "ptr" -> Fail
    [] l.k = "ptr" /\ r.k = "ptr" /\ op = "-" ->
         IF l.name # r.name \/ l.elem = 0 \/ l.elem # r.elem THEN Fail
         ELSE Integer(Truncated(l.off - r.off, l.elem))
    [] l.k = "ptr" /\ r.k = "ptr" /\ op = "==" -> Integer(IF l.name = r.name /\ l.off = r.off THEN 1 ELSE 0)
    [] OTHER -> IF l.name # r.name THEN Fail ELSE Integer(IF l.off < r.off THEN 1 ELSE 0)

ice_eval_cast(t, v) ==
  CASE v = Fail -> Fail
    [] v # Fail /\ t.k = "ptr" -> IF v.k = "ptr" THEN [v EXCEPT !.elem = t.inner.size] ELSE Fail
    [] OTHER -> IF v.k = "ptr" /\ v.name # "" THEN Fail ELSE Integer(v.off)
ice_eval_sizeof(t) == IF t = None THEN Fail ELSE Integer(t.size)

\* The next expression; g is the type of the global.
ice_step(g, e, s) ==
  CASE s.op = "[]" -> ice_index(e, s.n)
    [] s.op \in {".", "->"} -> Asked(ice_type_member(e, s.f), ice_addr_member(e, s.op, s.f), Fail)
    [] s.op = "&" -> Asked(ice_type_unary("&", e.type), Fail, e.addr)
    [] s.op = "*" -> Asked(ice_type_unary("*", e.type), Fail, Fail)
    [] s.op = "+" -> Asked(ice_type_binary(e.type), Fail, ice_bin_ptr_arith(e.value, s.n))
    [] s.op \in {"-", "==", "<"} -> Asked(ice_type_binary(e.type), Fail, ice_bin_ptr2(s.op, e.value, ice_eval_ident(g).value))
    [] s.op = "cast" -> [Asked(s.ty, Fail, ice_eval_cast(s.ty, e.value)) EXCEPT !.core = e.core, !.cast = TRUE]
    [] s.op = "sizeof" -> Asked(Scalar(8), Fail, ice_eval_sizeof(e.type))
ice_eval(g, root, steps) ==
  FoldLeft(LAMBDA e, s : ice_step(g, e, s),
           IF root = "g" THEN ice_eval_ident(g) ELSE Asked(Scalar(4), Fail, Integer(0)), steps)

----------------------------------------------------------------------------
(* What C says of it: an object of a type ("bits": a bit-field) at an      *)
(* offset of the global or of address 0, a pointer to one, or an integer.  *)

Thing(k, name, at, ty) == [k |-> k, name |-> name, at |-> at, ty |-> ty]
Invalid == Thing("invalid", "", 0, None)
Decayed(x) == IF x.k = "object" /\ x.ty.k = "array" THEN Thing("pointer", x.name, x.at, x.ty.inner) ELSE x
MemberOf(x, f) ==
  LET i == ir_struct_field_index(x.ty, f)
  IN IF ~IsRecord(x.ty) \/ i = 0 THEN Invalid
     ELSE IF x.ty.fields[i].width # NoWidth THEN Thing("bits", x.name, 0, x.ty.fields[i].ty)
     ELSE Thing("object", x.name, x.at + AbiOffset(x.ty, i) \div 8, x.ty.fields[i].ty)
Moved(p, k) == IF p.k # "pointer" THEN Invalid ELSE [p EXCEPT !.at = @ + k * AbiSize(p.ty)]
Pointee(p) == IF p.k # "pointer" THEN Invalid ELSE [p EXCEPT !.k = "object"]
Number(v) == Thing("number", "", v, Scalar(8))
Against(op, p, q) ==
  IF p.k # "pointer" \/ q.k # "pointer" \/ p.name # q.name \/ p.ty # q.ty THEN Invalid
  ELSE Number(CASE op = "-" -> Truncated(p.at - q.at, AbiSize(p.ty))
                [] op = "==" -> IF p.at = q.at THEN 1 ELSE 0
                [] OTHER -> IF p.at < q.at THEN 1 ELSE 0)
CastTo(t, x) ==
  CASE x.k \notin {"pointer", "number"} \/ (t.k # "ptr" /\ x.name # "") -> Invalid
    [] x.k \in {"pointer", "number"} /\ t.k = "ptr" -> Thing("pointer", x.name, x.at, t.inner)
    [] OTHER -> Number(x.at)
SizeOf(x) == CASE x.k = "object" -> Number(AbiSize(x.ty)) [] x.k = "pointer" -> Number(8) [] OTHER -> Invalid
Means(g, x, s) ==
  CASE s.op = "[]" -> Pointee(Moved(Decayed(x), s.n))
    [] s.op = "." -> IF x.k = "object" THEN MemberOf(x, s.f) ELSE Invalid
    [] s.op = "->" -> IF Pointee(x) = Invalid THEN Invalid ELSE MemberOf(Pointee(x), s.f)
    [] s.op = "&" -> IF x.k = "object" THEN [x EXCEPT !.k = "pointer"] ELSE Invalid
    [] s.op = "*" -> Pointee(Decayed(x))
    [] s.op = "+" -> Moved(Decayed(x), s.n)
    [] s.op \in {"-", "==", "<"} -> Against(s.op, Decayed(x), Decayed(Thing("object", "g", 0, g)))
    [] s.op = "cast" -> CastTo(s.ty, Decayed(x))
    [] s.op = "sizeof" -> SizeOf(x)
Meaning(g, root, steps) ==
  FoldLeft(LAMBDA x, s : Means(g, x, s), IF root = "g" THEN Thing("object", "g", 0, g) ELSE Number(0), steps)
=============================================================================

---------------------------- MODULE Initializers ----------------------------
(***************************************************************************)
(* The two walks over an initializer (src/ir/gen/init): the one that makes *)
(* the stores of a local object, here the bits that they leave, and the    *)
(* one that makes the constant of a static one.  Positions and indices     *)
(* count from 1; a continuation is the path of <<aggregate, index>> that a *)
(* designator of two steps or more leaves for the elements after it.       *)
(***************************************************************************)
EXTENDS Abi

CONSTANT CONT_MAX

\* Code that the assembler of the IR refuses.
Bad == {-1}

Level(t, i) == [agg |-> t, idx |-> i]
Elided(e, t) == e.k \notin {"list", "str"} /\ IsAggregate(t)
\* How many of the elements from e on go to an elided aggregate t.
Capacity(t) == IF t.k = "array" THEN t.n
               ELSE IF ir_has_bitfields(t) THEN ir_struct_named_count(t) ELSE Len(Members(t))
MemberCapacity(t) == IF t.k = "array" THEN t.n ELSE Len(Members(t))
Run(es, i, cap) == LET stops == {j \in (i + 1)..Len(es) : es[j].k = "desig"}
                   IN Min({i + Max({cap, 1}) - 1, Len(es)} \cup {j - 1 : j \in stops})
gen_const_absorb(es, i, cap) == <<Valued(es[i])>> \o SubSeq(es, i + 1, Run(es, i, cap))

Kept(cont) == IF Len(cont) < 2 THEN << >> ELSE cont
\* Mutant: the walk ends with the innermost aggregate.
AdvanceInnermost(cont) ==
  IF cont # << >> /\ Last(cont).idx < ir_agg_count(Last(cont).agg)
  THEN [cont EXCEPT ![Len(cont)].idx = @ + 1] ELSE << >>
cont_advance(cont) ==
  LET bumped(l) == Level(l.agg, IF ir_has_bitfields(l.agg) THEN ir_struct_next_named(l.agg, l.idx + 1)
                                ELSE l.idx + 1)
      more == {d \in DOMAIN cont : bumped(cont[d]).idx <= ir_agg_count(cont[d].agg)}
  IN IF more = {} THEN << >> ELSE Append(SubSeq(cont, 1, Max(more) - 1), bumped(cont[Max(more)]))

----------------------------------------------------------------------------
(* At run time: a place is the first bit, the width of a bit-field (0 for  *)
(* a whole object) and the type.                                           *)

Dest(at, width, t) == [at |-> at, width |-> width, ty |-> t]
bf_fill_loc(at, t, i) == LET info == ir_field_info(t, i)
                         IN Dest(at + 8 * info.byte + info.bit, info.width, t.fields[i].ty)
init_child_type(t, i) == IF t.k = "array" THEN t.inner
                         ELSE IF i \in DOMAIN t.fields THEN t.fields[i].ty ELSE None
step_member_slot(d, i) ==
  IF ir_has_bitfields(d.ty) THEN bf_fill_loc(d.at, d.ty, i)
  ELSE Dest(d.at + 8 * (IF d.ty.k = "array" THEN (i - 1) * d.ty.inner.size
                        ELSE ir_struct_field_offset(d.ty, i)),
            0, init_child_type(d.ty, i))

\* The walk down a designator: "first" while no step has left a record
\* without bit-fields, "top" the position that the last such step had.
WalkFrom(d) == [d |-> d, cont |-> << >>, top |-> 0, first |-> TRUE, ok |-> TRUE]
StepIndex(t, s) == IF t.k = "array" THEN s ELSE ir_struct_field_index(t, s)
WalkStep(w, s) ==
  LET i == StepIndex(w.d.ty, s)
      valid == i >= 1 /\ (w.d.ty.k = "array" => i <= w.d.ty.n) /\ w.d.width = 0
  IN IF ~w.ok \/ ~valid THEN [w EXCEPT !.ok = FALSE]
     ELSE [d |-> step_member_slot(w.d, i),
           cont |-> IF Len(w.cont) < CONT_MAX THEN Append(w.cont, Level(w.d.ty, i)) ELSE w.cont,
           top |-> IF w.first THEN i ELSE w.top,
           first |-> w.first /\ ir_has_bitfields(w.d.ty),
           ok |-> TRUE]
desig_walk_slot(d, steps) == FoldLeft(WalkStep, WalkFrom(d), steps)
cont_walk_slot(d, cont) == FoldLeft(LAMBDA x, l : step_member_slot(x, l.idx), d, cont)

\* The place of the next element without a designator; None: it is skipped.
init_positional_slot(d, pos) ==
  LET t == d.ty
      raw == ir_struct_named_at(t, pos)
  IN IF t.k = "union" /\ pos > 1 THEN None
     ELSE IF ir_has_bitfields(t)
     THEN IF raw = 0 THEN None
          ELSE LET loc == bf_fill_loc(d.at, t, raw)
               IN IF loc.width = 8 * loc.ty.size THEN [loc EXCEPT !.width = 0] ELSE loc
     ELSE IF IsAggregate(t)
     THEN IF pos > (IF t.k = "array" THEN t.n ELSE Len(t.fields)) THEN None ELSE step_member_slot(d, pos)
     ELSE d

Store(bits, d, v) == LET n == IF d.width > 0 THEN d.width ELSE 8 * d.ty.size
                     IN (bits \ Region(d.at, n)) \cup Ones(v, n, d.at)
gen_string_array_init(bits, d, bytes) ==
  LET n == d.ty.n
  IN (bits \ Region(d.at, 8 * n)) \cup UNION {Ones(bytes[i], 8, d.at + 8 * (i - 1)) : i \in (1..n) \cap DOMAIN bytes}

RECURSIVE ir_gen_init_one(_, _, _), init_slot_for_element(_, _, _, _, _, _),
          init_elided_aggregate(_, _, _, _, _, _, _)

ir_gen_init_one(bits, d, e) ==
  CASE e.k = "list" /\ d.width > 0 -> Bad
    [] e.k = "list" -> init_slot_for_element(bits, d, e.elems, 1, 1, << >>)
    [] e.k = "str" -> gen_string_array_init(bits, d, Bytes(e))
    [] OTHER -> Store(bits, d, e.v)

\* The elements from the i-th on, at position pos or on the path cont.
init_slot_for_element(bits, d, es, i, pos, cont) ==
  IF i > Len(es) THEN bits
  ELSE LET e == es[i]
           w == desig_walk_slot(d, e.steps)
           slot == init_positional_slot(d, pos)
       IN IF e.k = "desig"
          THEN IF ~w.ok THEN init_slot_for_element(bits, d, es, i + 1, pos, << >>)
               ELSE init_elided_aggregate(bits, d, es, i, w.d, Kept(w.cont),
                         (IF ir_has_bitfields(d.ty) THEN ir_struct_named_before(d.ty, w.top) + 1 ELSE w.top) + 1)
          ELSE IF cont # << >> THEN init_elided_aggregate(bits, d, es, i, cont_walk_slot(d, cont), cont, pos)
          ELSE IF e.k = "str" /\ IsChars(d.ty)
          THEN init_slot_for_element(gen_string_array_init(bits, d, Bytes(e)), d, es, i + 1, pos + d.ty.n, << >>)
          ELSE IF slot = None THEN init_slot_for_element(bits, d, es, i + 1, pos + 1, << >>)
          ELSE init_elided_aggregate(bits, d, es, i, slot, << >>, pos + 1)

\* The i-th element goes to the slot, with those that an elided aggregate absorbs.
init_elided_aggregate(bits, d, es, i, slot, cont, pos) ==
  LET val == Valued(es[i])
  IN IF Elided(val, slot.ty)
     THEN init_slot_for_element(init_slot_for_element(bits, slot, gen_const_absorb(es, i, Capacity(slot.ty)), 1, 1, << >>),
                   d, es, Run(es, i, Capacity(slot.ty)) + 1, pos, Kept(cont_advance(cont)))
     ELSE init_slot_for_element(ir_gen_init_one(bits, slot, val), d, es, i + 1, pos, Kept(cont_advance(cont)))

\* The whole object is zero before.
Local(t, e) == ir_gen_init_one({}, Dest(0, 0, t), e)

----------------------------------------------------------------------------
(* Static objects: a constant is a scalar with its bits, an aggregate with *)
(* its elements (those of a zero are not made), or not set yet.            *)

Constant(k, t, bits, elems) == [k |-> k, ty |-> t, bits |-> bits, elems |-> elems]
Unset == Constant("unset", None, {}, << >>)
gen_const_scalar(t, v) == Constant("scalar", t, Ones(v, 8 * t.size, 0), << >>)
ir_const_aggregate(t, elems) == Constant("aggregate", t, {}, elems)
gen_const_zero(t) == Constant(IF IsAggregate(t) THEN "zero" ELSE "scalar", t, {}, << >>)
gen_const_string(t, bytes) ==
  ir_const_aggregate(t, [i \in 1..t.n |-> gen_const_scalar(t.inner, IF i \in DOMAIN bytes THEN bytes[i] ELSE 0)])

\* The type of a child; int where there is none.
gen_const_child_type(t, i) == IF t.k = "array" THEN t.inner
                              ELSE IF i \in DOMAIN t.fields THEN t.fields[i].ty ELSE Scalar(4)
ir_struct_member_type(t, m) == IF m \in DOMAIN Members(t) THEN Members(t)[m] ELSE Scalar(4)

\* Mutant: a field of a tile replaces what the tile had.
StoredAlone(elems, t, i, v) ==
  [elems EXCEPT ![IF ir_has_bitfields(t) THEN bf_fill_loc(0, t, i).at \div (8 * t.align) + 1 ELSE i] =
     IF ir_has_bitfields(t) THEN Constant("scalar", ir_struct_member_type(t, 1), v.bits, << >>) ELSE v]
\* A field's constant is set, or joined to the bits that its tiles have.
gen_const_field_store(elems, t, i, v) ==
  IF ~ir_has_bitfields(t) THEN [elems EXCEPT ![i] = v]
  ELSE LET loc == bf_fill_loc(0, t, i)
           width == IF loc.width > 0 THEN loc.width ELSE 8 * loc.ty.size
           tile == 8 * t.align
           bits == {loc.at + b : b \in v.bits \cap (0..(width - 1))}
           touched == {b \div tile + 1 : b \in Region(loc.at, width)}
       IN [m \in DOMAIN elems |->
             IF m \notin touched THEN elems[m]
             ELSE Constant("scalar", ir_struct_member_type(t, m),
                           elems[m].bits \cup {b - (m - 1) * tile : b \in bits \cap Region((m - 1) * tile, tile)}, << >>)]

gen_const_desig_inner_type(t, steps) ==
  FoldLeft(LAMBDA x, s : gen_const_child_type(x, StepIndex(x, s)), t, steps)
\* The slot of a level among the elements of its aggregate: the tile where
\* the field begins, in a record with bit-fields.
SlotOf(l) == IF ir_has_bitfields(l.agg) THEN bf_fill_loc(0, l.agg, l.idx).at \div (8 * l.agg.align) + 1
             ELSE l.idx
ContOf(c, s) == LET i == StepIndex(c.ty, s)
                IN [ty |-> gen_const_child_type(c.ty, i), cont |-> Append(c.cont, Level(c.ty, i))]
gen_const_cont_build(t, steps) == FoldLeft(ContOf, [ty |-> t, cont |-> << >>], steps).cont

Slots(t) == IF t.k = "union" THEN 1 ELSE IF t.k = "array" THEN t.n ELSE Len(Members(t))
Filled(elems, t) ==
  [i \in DOMAIN elems |->
     IF elems[i] # Unset THEN elems[i]
     ELSE gen_const_zero(IF t.k = "union" THEN ir_union_largest_member(t)
                         ELSE IF ir_has_bitfields(t) THEN ir_struct_member_type(t, i)
                         ELSE gen_const_child_type(t, i))]

RECURSIVE Image(_), gen_const_union_aggregate(_, _), gen_const_cont_set(_, _, _, _),
          gen_const_init(_, _), gen_const_init_list(_, _, _, _, _, _), gen_const_desig(_, _, _),
          gen_const_union_store(_, _, _, _)

\* The bits of a constant in memory; its elements must have the members' types.
Image(c) ==
  LET t == c.ty
      types == IF t.k = "array" THEN [i \in 1..t.n |-> t.inner]
               ELSE IF t.k = "union" THEN <<ir_union_largest_member(t)>> ELSE Members(t)
      at(i) == IF t.k = "array" THEN (i - 1) * t.inner.size
               ELSE IF ir_has_bitfields(t) THEN (i - 1) * t.align ELSE ir_struct_field_offset(t, i)
  IN CASE c.k = "scalar" -> IF IsAggregate(t) THEN Bad ELSE c.bits
       [] c.k = "zero" -> {}
       [] OTHER -> IF ~IsAggregate(t) \/ [i \in DOMAIN c.elems |-> c.elems[i].ty] # types THEN Bad
                   ELSE UNION {LET bits == Image(c.elems[i]) IN IF bits = Bad THEN Bad ELSE {8 * at(i) + b : b \in bits} :
                                 i \in DOMAIN types}

\* The low bits of a constant as another scalar, or in an aggregate's first one.
Reinterpreted(v, t) == Constant("scalar", t, Image(v) \cap (0..(8 * t.size - 1)), << >>)
gen_const_union_aggregate(t, v) ==
  LET first == gen_const_child_type(t, 1)
  IN ir_const_aggregate(t, [i \in 1..Slots(t) |->
       IF i > 1 THEN gen_const_zero(gen_const_child_type(t, i))
       ELSE IF first.k \in {"array", "struct"} THEN gen_const_union_aggregate(first, v)
       ELSE Reinterpreted(v, first)])
gen_const_union_store(t, member, steps, val) ==
  LET largest == ir_union_largest_member(t)
      v == gen_const_desig(member, steps, val)
  IN IF largest = member THEN v
     ELSE IF largest.k \notin {"array", "struct"} THEN Reinterpreted(v, largest)
     ELSE IF v.k = "scalar" THEN gen_const_union_aggregate(largest, v)
     ELSE gen_const_union_aggregate(largest, gen_const_zero(Scalar(4)))

\* A constant of type t that has val at the end of the steps and else zeros.
gen_const_desig(t, steps, val) ==
  IF steps = << >>
  THEN gen_const_init(t, IF val.k # "list" /\ IsAggregate(t) THEN ListI(<<val>>) ELSE val)
  ELSE LET i == StepIndex(t, Head(steps))
           n == IF t.k = "array" THEN t.n ELSE Len(Members(t))
           v == gen_const_desig(gen_const_child_type(t, i), Tail(steps), val)
           elems == gen_const_field_store([j \in 1..n |-> Unset], t, i, v)
       IN ir_const_aggregate(t, [j \in 1..n |-> IF elems[j] # Unset THEN elems[j]
                                                ELSE gen_const_zero(IF ir_has_bitfields(t) THEN ir_struct_member_type(t, j)
                                                                    ELSE gen_const_child_type(t, j))])

\* v in the place of what is on the path, from its level d on.
gen_const_cont_set(c, cont, d, v) ==
  IF c.k # "aggregate" THEN Constant("aggregate", None, {}, << >>)
  ELSE IF d = Len(cont)
  THEN [c EXCEPT !.elems = gen_const_field_store(@, cont[d].agg, cont[d].idx, v)]
  ELSE [c EXCEPT !.elems[SlotOf(cont[d])] = gen_const_cont_set(@, cont, d + 1, v)]

gen_const_init(t, e) ==
  CASE e.k = "num" -> gen_const_scalar(t, e.v)
    [] e.k = "str" -> gen_const_string(t, Bytes(e))
    [] ~IsAggregate(t) -> ir_const_aggregate(t, [i \in DOMAIN e.elems |-> gen_const_init(Scalar(4), e.elems[i])])
    [] OTHER -> gen_const_init_list(t, e.elems, 1, [i \in 1..Slots(t) |-> Unset], 1, << >>)

\* The elements from the i-th on, at position pos or on the path cont.
gen_const_union_elem(t, es, i, elems, pos) ==
  LET e == es[i]
      steps == IF e.k = "desig" THEN e.steps ELSE << >>
      member == gen_const_child_type(t, IF steps = << >> THEN 1 ELSE StepIndex(t, Head(steps)))
      absorbs == Len(steps) = 1 /\ Valued(e).k # "list" /\ IsAggregate(member)
  IN IF e.k # "desig" /\ pos > 1 THEN gen_const_init_list(t, es, i + 1, elems, pos, << >>)
     ELSE gen_const_init_list(t, es, IF absorbs THEN Run(es, i, Capacity(member)) + 1 ELSE i + 1,
                    <<gen_const_union_store(t, member, IF steps = << >> THEN << >> ELSE Tail(steps),
                                            IF absorbs THEN ListI(gen_const_absorb(es, i, Capacity(member))) ELSE Valued(e))>>,
                    2, << >>)
gen_const_desig_elem(t, es, i, elems) ==
  LET e == es[i]
      top == StepIndex(t, Head(e.steps))
      member == gen_const_child_type(t, top)
      inner == gen_const_desig_inner_type(member, Tail(e.steps))
      absorbs == Valued(e).k # "list" /\ IsAggregate(inner)
      val == IF absorbs THEN ListI(gen_const_absorb(es, i, Capacity(inner))) ELSE Valued(e)
      cont == Kept(gen_const_cont_build(t, e.steps))
  IN IF top \notin 1..(IF ir_has_bitfields(t) THEN Len(t.fields) ELSE Slots(t))
     THEN gen_const_init_list(t, es, i + 1, elems, top + 1, << >>)
     ELSE gen_const_init_list(t, es, IF absorbs THEN Run(es, i, Capacity(inner)) + 1 ELSE i + 1,
                    gen_const_field_store(elems, t, top, gen_const_desig(member, Tail(e.steps), val)),
                    top + 1, Kept(cont_advance(cont)))
gen_const_cont_elem(t, es, i, elems, pos, cont) ==
  LET inner == gen_const_child_type(Last(cont).agg, Last(cont).idx)
      absorbs == es[i].k # "list" /\ IsAggregate(inner)
      v == gen_const_init(inner, IF absorbs THEN ListI(gen_const_absorb(es, i, MemberCapacity(inner))) ELSE es[i])
      root == SlotOf(cont[1])
  IN gen_const_init_list(t, es, IF absorbs THEN Run(es, i, MemberCapacity(inner)) + 1 ELSE i + 1,
               [elems EXCEPT ![root] = gen_const_cont_set(@, cont, 2, v)], pos, Kept(cont_advance(cont)))
gen_const_elided_elem(t, es, i, elems, pos) ==
  LET raw == IF ir_has_bitfields(t) THEN ir_struct_named_at(t, pos) ELSE pos
      child == gen_const_child_type(t, raw)
      absorbs == Elided(es[i], child)
      val == IF absorbs THEN ListI(gen_const_absorb(es, i, Capacity(child))) ELSE es[i]
  IN IF raw \notin 1..(IF ir_has_bitfields(t) THEN Len(t.fields) ELSE Slots(t))
     THEN gen_const_init_list(t, es, i + 1, elems, pos + 1, << >>)
     ELSE gen_const_init_list(t, es, IF absorbs THEN Run(es, i, Capacity(child)) + 1 ELSE i + 1,
                    gen_const_field_store(elems, t, raw, gen_const_init(child, val)), pos + 1, << >>)
gen_const_init_list(t, es, i, elems, pos, cont) ==
  CASE i > Len(es) -> ir_const_aggregate(t, Filled(elems, t))
    [] i <= Len(es) /\ t.k = "union" -> gen_const_union_elem(t, es, i, elems, pos)
    [] i <= Len(es) /\ t.k # "union" /\ es[i].k = "desig" -> gen_const_desig_elem(t, es, i, elems)
    [] OTHER -> IF cont # << >> THEN gen_const_cont_elem(t, es, i, elems, pos, cont)
                ELSE IF es[i].k = "str" /\ IsChars(t) THEN gen_const_string(t, Bytes(es[i]))
                ELSE gen_const_elided_elem(t, es, i, elems, pos)

Static(t, e) == Image(gen_const_init(t, e))
=============================================================================

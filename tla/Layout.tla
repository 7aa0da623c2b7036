------------------------------- MODULE Layout -------------------------------
(***************************************************************************)
(* Sizes, alignments and offsets of the compiler's types (src/ir/type).    *)
(* A struct or union keeps its fields in the order of their declaration;   *)
(* one with a bit-field has, instead of a member per field, tiles of its   *)
(* alignment and a table of places, which ir_build_bitfield_struct makes.  *)
(***************************************************************************)
EXTENDS Integers, Sequences, SequencesExt, FiniteSetsExt

None == [k |-> "none"]

\* width NoWidth: not a bit-field; name "": unnamed.
NoWidth == -1
Bits(name, t, w) == [name |-> name, ty |-> t, width |-> w]
Field(name, t) == Bits(name, t, NoWidth)

round_up(v, m) == ((v + m - 1) \div m) * m

----------------------------------------------------------------------------
(* The walk that places bit-fields: the storage units, the next free bit,  *)
(* the alignment, the unit that is open (0: none) and the places so far.   *)

Place(byte, bit, width) == [byte |-> byte, bit |-> bit, width |-> width]
BfStart == [units |-> << >>, bitpos |-> 0, align |-> 1, cur |-> 0, lays |-> << >>]

\* A member of a union: at byte 0, and the next free bit follows it.
bf_place_union_field(w, size, width) ==
  [w EXCEPT !.units = IF @ = << >> THEN <<[start |-> 0, size |-> size]>>
                      ELSE [@ EXCEPT ![1].size = Max({@, size})],
            !.bitpos = size * 8,
            !.lays = Append(@, Place(0, 0, Max({width, 0})))]

bf_place_plain_field(w, size, al) ==
  LET at == round_up(w.bitpos, 8 * al)
  IN [w EXCEPT !.bitpos = at + 8 * size,
               !.units = Append(@, [start |-> at \div 8, size |-> size]),
               !.lays = Append(@, Place(at \div 8, 0, 0))]

\* The least doubling of a unit's size that reaches the end of the field.
Needed(size, end) == CHOOSE n \in {size * 2^i : i \in 0..6} :
                       /\ end <= 8 * n
                       /\ \A m \in {size * 2^i : i \in 0..6} : end <= 8 * m => n <= m
Opened(w) == IF w.cur # 0 THEN w
             ELSE [w EXCEPT !.units = Append(@, [start |-> round_up(w.bitpos, 8) \div 8, size |-> 1]),
                            !.cur = Len(w.units) + 1]
\* Mutant: the slot of the field's own type is not looked at.
AcrossSlots(w, S, W) ==
  LET u == w.units[w.cur]
      in_unit == w.bitpos - 8 * u.start
  IN [w EXCEPT !.units[w.cur].size = Max({u.size, Needed(u.size, in_unit + W)}),
               !.lays = Append(@, Place(u.start, in_unit, W)),
               !.bitpos = @ + W]
InOpenUnit(w, S, W) ==
  LET u == w.units[w.cur]
      slot_end == (w.bitpos \div (8 * S) + 1) * (8 * S)
      in_unit == w.bitpos - 8 * u.start
      grown == Max({u.size, Min({Needed(u.size, in_unit + W), S})})
  IN IF w.bitpos + W <= slot_end /\ in_unit + W <= 8 * grown
     THEN [w EXCEPT !.units[w.cur].size = grown,
                    !.lays = Append(@, Place(u.start, in_unit, W)),
                    !.bitpos = @ + W]
     ELSE LET start == round_up(w.bitpos, 8 * S) \div 8
          IN [w EXCEPT !.units = Append(@, [start |-> start, size |-> S]),
                       !.cur = Len(w.units) + 1,
                       !.lays = Append(@, Place(start, 0, W)),
                       !.bitpos = start * 8 + W]
\* W bits in the open unit where they fit it and the slot of their type, else
\* in a new one; a width of zero closes the unit.
bf_place_bitfield_field(w, S, W) ==
  IF W = 0
  THEN LET at == round_up(w.bitpos, 8 * S)
       IN [w EXCEPT !.bitpos = at, !.cur = 0, !.lays = Append(@, Place(at \div 8, 0, 0))]
  ELSE InOpenUnit(Opened(w), S, Min({W, 8 * S}))

\* The size of a bit-field's base type.
field_base_info(t) == IF t.size \in 1..8 THEN t.size ELSE 4

bf_place(k, w, f) ==
  LET base == field_base_info(f.ty)
      plain == f.width = NoWidth
      aligned == [w EXCEPT !.align = Max({@, IF plain THEN f.ty.align ELSE base})]
  IN IF k = "union" THEN bf_place_union_field(aligned, IF plain THEN f.ty.size ELSE base, f.width)
     ELSE IF plain THEN bf_place_plain_field(aligned, f.ty.size, f.ty.align)
     ELSE bf_place_bitfield_field(aligned, base, f.width)
bf_walk(k, fs) == FoldLeft(LAMBDA w, f : bf_place(k, w, f), BfStart, fs)

----------------------------------------------------------------------------
(* Types, each with the size and the alignment that the code computes when *)
(* it is asked (ir_type_size, ir_type_align).                              *)

Type(k, n, size, align) == [k |-> k, n |-> n, size |-> size, align |-> align,
                            inner |-> None, fields |-> << >>, lays |-> << >>]
Scalar(bytes) == Type("int", bytes, bytes, bytes)
ArrayType(t, n) == [Type("array", n, n * t.size, t.align) EXCEPT !.inner = t]

HasBits(fs) == \E i \in DOMAIN fs : fs[i].width # NoWidth
\* Where the member after a part of a struct that ends at "end" begins.
OffsetAfter(end, t) == round_up(end, t.align)
EndOf(fs) == FoldLeft(LAMBDA end, f : OffsetAfter(end, f.ty) + f.ty.size, 0, fs)
\* The size of a record without bit-fields.
PlainSize(k, fs, align) ==
  round_up(IF k = "struct" THEN EndOf(fs) ELSE Max({0} \cup {f.ty.size : f \in ToSet(fs)}), align)
RecordType(k, fs) ==
  LET w == bf_walk(k, fs)
      align == IF HasBits(fs) THEN w.align ELSE Max({1} \cup {f.ty.align : f \in ToSet(fs)})
  IN [Type(k, 0, IF HasBits(fs) THEN round_up(w.bitpos, 8 * align) \div 8 ELSE PlainSize(k, fs, align), align)
      EXCEPT !.fields = fs, !.lays = w.lays]
StructType(fs) == RecordType("struct", fs)
UnionType(fs) == RecordType("union", fs)

IsRecord(t) == t.k \in {"struct", "union"}
IsAggregate(t) == t.k = "array" \/ IsRecord(t)
ir_has_bitfields(t) == IsRecord(t) /\ HasBits(t.fields)

----------------------------------------------------------------------------
(* Queries.  A field index is raw: unnamed fields count.                   *)

ir_struct_field_offset(t, i) ==
  IF t.k = "union" THEN 0 ELSE OffsetAfter(EndOf(SubSeq(t.fields, 1, i - 1)), t.fields[i].ty)
ir_field_info(t, i) == t.lays[i]
Named(t) == SelectSeq([i \in DOMAIN t.fields |-> i], LAMBDA i : t.fields[i].name # "")
ir_struct_named_count(t) == Len(Named(t))
ir_struct_named_at(t, k) == IF k \in DOMAIN Named(t) THEN Named(t)[k] ELSE 0
ir_struct_next_named(t, i) == LET later == {j \in ToSet(Named(t)) : j >= i}
                              IN IF later = {} THEN Len(t.fields) + 1 ELSE Min(later)
ir_struct_named_before(t, i) == Cardinality({j \in ToSet(Named(t)) : j < i})
ir_struct_field_index(t, name) == LET at == {i \in DOMAIN t.fields : t.fields[i].name = name}
                                  IN IF at = {} THEN 0 ELSE Min(at)

\* The tiles of a struct with bit-fields: as many of its alignment as it has.
ir_build_bitfield_members(t) == [i \in 1..(t.size \div t.align) |-> Scalar(t.align)]
Members(t) == IF ir_has_bitfields(t) THEN ir_build_bitfield_members(t)
              ELSE [i \in DOMAIN t.fields |-> t.fields[i].ty]

ir_union_largest_member(t) ==
  LET m == Members(t)
      most == Max({m[i].size : i \in DOMAIN m})
  IN m[Min({i \in DOMAIN m : m[i].size = most})]
ir_agg_count(t) == CASE t.k = "array" -> t.n
                     [] t.k = "union" -> 1
                     [] t.k = "struct" -> Len(t.fields)
                     [] OTHER -> 0
=============================================================================

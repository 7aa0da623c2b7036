-------------------------------- MODULE Abi ---------------------------------
(***************************************************************************)
(* Reference: objects of C as the System V x86-64 ABI lays them out, which *)
(* gcc follows, and the values that C gives them (C11 6.7.9).  An object's *)
(* contents are the set of its bits that are one.                          *)
(***************************************************************************)
EXTENDS Layout

RECURSIVE AbiSize(_), AbiAlign(_), BitsBefore(_, _)

\* Unnamed bit-fields do not align their record.
AbiAlign(t) ==
  CASE t.k = "array" -> AbiAlign(t.inner)
    [] IsRecord(t) -> Max({1} \cup {AbiAlign(f.ty) : f \in {g \in ToSet(t.fields) : g.name # "" \/ g.width = NoWidth}})
    [] OTHER -> t.n

\* The first bit of a field of which the one before ends at bit "end": a
\* bit-field does not cross a boundary of its type, one of width zero ends at one.
FirstBit(f, end) ==
  LET unit == 8 * AbiSize(f.ty)
  IN IF f.width = NoWidth THEN round_up(end, 8 * AbiAlign(f.ty))
     ELSE IF f.width = 0 \/ (end % unit) + f.width > unit THEN round_up(end, unit)
     ELSE end
BitsOf(f) == IF f.width = NoWidth THEN 8 * AbiSize(f.ty) ELSE f.width
BitsBefore(t, i) == IF i = 0 THEN 0 ELSE FirstBit(t.fields[i], BitsBefore(t, i - 1)) + BitsOf(t.fields[i])
AbiOffset(t, i) == IF t.k = "union" THEN 0 ELSE FirstBit(t.fields[i], BitsBefore(t, i - 1))

AbiSize(t) ==
  LET bits == IF t.k = "struct" THEN BitsBefore(t, Len(t.fields))
              ELSE Max({0} \cup {BitsOf(t.fields[i]) : i \in DOMAIN t.fields})
  IN CASE t.k = "array" -> t.n * AbiSize(t.inner)
       [] IsRecord(t) -> round_up(bits, 8 * AbiAlign(t)) \div 8
       [] OTHER -> t.n

----------------------------------------------------------------------------
(* Initializers: a number, a string, a braced list, or (in a list) a       *)
(* designator for one of these.                                            *)

Init0(k, v, steps, elems) == [k |-> k, v |-> v, steps |-> steps, elems |-> elems]
NumI(v) == Init0("num", v, << >>, << >>)
StrI(bytes) == Init0("str", 0, << >>, [i \in DOMAIN bytes |-> NumI(bytes[i])])
Bytes(e) == [i \in DOMAIN e.elems |-> e.elems[i].v]
ListI(es) == Init0("list", 0, << >>, es)
DesigI(steps, e) == Init0("desig", 0, steps, <<e>>)

\* The bits that are one of the v of that many bits, from the bit "at" on.
Ones(v, bits, at) == {at + i : i \in {j \in 0..(bits - 1) : IF j > 20 THEN v < 0 ELSE (v \div 2^j) % 2 = 1}}
Region(at, bits) == at .. (at + bits - 1)

IsChars(t) == t.k = "array" /\ t.inner.k = "int" /\ t.inner.n = 1
Positions(t) == IF t.k = "array" THEN 1..t.n
                ELSE {i \in DOMAIN t.fields : t.fields[i].name # ""}

RECURSIVE SpotOf(_, _), FirstSpot(_, _, _), AfterSpot(_, _), Written(_, _, _, _), Listed(_, _, _, _, _, _)

\* The object on a path of positions: its first bit, its bits and its type.
Spot(at, bits, t) == [at |-> at, bits |-> bits, ty |-> t]
SpotIn(s, i) == LET t == s.ty
                IN IF t.k = "array" THEN Spot(s.at + (i - 1) * 8 * AbiSize(t.inner), 8 * AbiSize(t.inner), t.inner)
                   ELSE Spot(s.at + AbiOffset(t, i), BitsOf(t.fields[i]), t.fields[i].ty)
SpotOf(t, p) == IF p = << >> THEN Spot(0, 8 * AbiSize(t), t) ELSE SpotIn(SpotOf(t, Front(p)), Last(p))

\* Without braces, a value initializes the first scalar of the object (a
\* string the first array of characters).
FirstSpot(t, p, k) ==
  LET here == SpotOf(t, p).ty
  IN IF ~IsAggregate(here) \/ (k = "str" /\ IsChars(here)) THEN p
     ELSE FirstSpot(t, Append(p, Min(Positions(here))), k)
\* The object after the one at p: << >> when there is none.
AfterSpot(t, p) ==
  IF p = << >> THEN << >>
  ELSE LET whole == SpotOf(t, Front(p)).ty
           later == {i \in Positions(whole) : i > Last(p)}
       IN IF whole.k = "union" \/ later = {} THEN AfterSpot(t, Front(p)) ELSE Append(Front(p), Min(later))

PathOf(t, steps) == FoldLeft(LAMBDA p, s : Append(p, LET here == SpotOf(t, p).ty
                                                     IN IF here.k = "array" THEN s ELSE ir_struct_field_index(here, s)),
                             << >>, steps)
Target(t, e, p) == IF e.k = "desig" THEN PathOf(t, e.steps) ELSE p
Valued(e) == IF e.k = "desig" THEN e.elems[1] ELSE e
Reached(t, e, p) == IF Valued(e).k = "list" THEN Target(t, e, p) ELSE FirstSpot(t, Target(t, e, p), Valued(e).k)

\* The bits of the object s after the initializer e for it.
Written(bits, base, s, e) ==
  LET at == base + s.at
      rest == bits \ Region(at, s.bits)
  IN CASE e.k = "num" -> rest \cup Ones(e.v, s.bits, at)
       [] e.k = "str" -> rest \cup UNION {Ones(Bytes(e)[i], 8, at + 8 * (i - 1)) : i \in (1..s.ty.n) \cap DOMAIN e.elems}
       [] OTHER -> IF IsAggregate(s.ty) THEN Listed(rest, at, s.ty, e.elems, 1, <<Min(Positions(s.ty))>>)
                   ELSE Written(bits, base, s, e.elems[1])
\* ... after the elements from the i-th on of a list for it, of which the next
\* without a designator is for the object at p; those in excess are ignored.
Listed(bits, at, t, es, i, p) ==
  IF i > Len(es) THEN bits
  ELSE IF Target(t, es[i], p) = << >> THEN Listed(bits, at, t, es, i + 1, p)
  ELSE Listed(Written(bits, at, SpotOf(t, Reached(t, es[i], p)), Valued(es[i])), at, t, es, i + 1,
              AfterSpot(t, Reached(t, es[i], p)))

\* The contents of an object of type t declared with the initializer e.
AsWritten(t, e) == Written({}, 0, SpotOf(t, << >>), e)
=============================================================================

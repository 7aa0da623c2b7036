------------------------------- MODULE Objects -------------------------------
(***************************************************************************)
(* A record is declared field by field, or an object of a chosen type gets *)
(* an initializer element by element, as a local and as a static object.   *)
(***************************************************************************)
EXTENDS Initializers, Addresses

CONSTANTS Fields, MaxFields,    \* of the records that are declared
          Types,                \* of the objects that are initialized
          Elements(_), MaxElements,
          Steps(_), MaxSteps    \* of constant expressions

VARIABLES type,    \* of the object
          root,    \* of a constant expression: "g", the object, or "0"
          steps,   \* of the expression
          list,    \* the elements of its initializer
          reached  \* the paths of the subobjects that C gives them

vars == <<type, root, steps, list, reached>>

Init == /\ type \in {StructType(<< >>), UnionType(<< >>)} \cup Types
        /\ root \in {"g", "0"} /\ steps = << >>
        /\ list = << >> /\ reached = << >>

\* A field without a name is a bit-field.
Declare(f) ==
  /\ type \notin Types /\ root = "g" /\ Len(type.fields) < MaxFields
  /\ f.name = "" => f.width # NoWidth
  /\ type' = RecordType(type.k, Append(type.fields, f))
  /\ UNCHANGED <<root, steps, list, reached>>

\* The object for an element after those that were: a string is for characters,
\* braces hold one value or are for an aggregate.
Before(i) == IF i = 1 THEN <<Min(Positions(type))>> ELSE AfterSpot(type, reached[i - 1])
Initialize(e) ==
  LET for == Target(type, e, Before(Len(list) + 1))
  IN /\ type \in Types /\ root = "g" /\ steps = << >> /\ Len(list) < MaxElements
     /\ for # << >>
     /\ LET t == SpotOf(type, for).ty
        IN Valued(e).k = "list" => IsAggregate(t) \/ Len(Valued(e).elems) = 1
     /\ LET p == IF Valued(e).k = "list" THEN for ELSE FirstSpot(type, for, Valued(e).k)
        IN /\ Valued(e).k = "str" => IsChars(SpotOf(type, p).ty)
           /\ reached' = Append(reached, p)
     /\ list' = Append(list, e)
     /\ UNCHANGED <<type, root, steps>>

\* A constant expression goes on in a way that C allows.
Extend(s) ==
  /\ type \in Types /\ list = << >> /\ Len(steps) < MaxSteps
  /\ root = "0" /\ steps = << >> => s.op = "cast" /\ s.ty = PtrType(type)
  /\ Meaning(type, root, Append(steps, s)) # Invalid
  /\ steps' = Append(steps, s)
  /\ UNCHANGED <<type, root, list, reached>>

Next == \/ \E f \in Fields : Declare(f)
        \/ \E e \in Elements(type) : Initialize(e)
        \/ \E s \in Steps(type) : Extend(s)

Spec == Init /\ [][Next]_vars

----------------------------------------------------------------------------
BitFields(t) == {i \in DOMAIN t.fields : t.fields[i].width > 0}
Unit(t, i) == 8 * AbiSize(t.fields[i].ty)
FieldEnd(t, i) == AbiOffset(t, i) + BitsOf(t.fields[i])

\* Where the unit of a bit-field begins.  The code keeps it open through whole
\* fields; a width of zero closes it, and a bit-field at a boundary of its type
\* that it does not hold begins another.
RECURSIVE UnitStart(_, _)
UnitStart(t, i) ==
  LET before == {j \in BitFields(t) : j < i /\ \A k \in j..i : t.fields[k].width # 0}
      start == UnitStart(t, Max(before))
  IN IF \/ before = {}
        \/ AbiOffset(t, i) % Unit(t, i) = 0 /\ FieldEnd(t, i) > start + Unit(t, i)
     THEN AbiOffset(t, i) ELSE start

\* What the layout's rules are right for: a bit-field ends, from the start of its
\* unit, within the bits of its type (the code measures from there, the ABI from
\* a boundary of the type); no unnamed field has the greatest alignment; the last
\* member of a union with a bit-field fills as much as any other, and not nothing.
PlainUnits(t) ==
  /\ t.k = "union" /\ ir_has_bitfields(t) =>
       AbiSize(t) > 0 /\ \A f \in ToSet(t.fields) : round_up(AbiSize(f.ty), AbiAlign(t)) <= round_up(AbiSize(Last(t.fields).ty), AbiAlign(t))
  /\ \A i \in DOMAIN t.fields : t.fields[i].ty.align <= AbiAlign(t)
  /\ \A i \in BitFields(t) : FieldEnd(t, i) <= UnitStart(t, i) + Unit(t, i)

Offset(t, i) == IF ir_has_bitfields(t) THEN bf_fill_loc(0, t, i).at ELSE 8 * ir_struct_field_offset(t, i)

\* A record has the size, the alignment and the places of its fields that other
\* compilers give it ("matches gcc exactly", src/ir/type/ir_type_bf_emit.c): its
\* bit-fields may be of several types, as PlainUnits says.
LaidOutAsTheABI ==
  type \notin Types /\ PlainUnits(type) =>
    /\ type.size = AbiSize(type) /\ type.align = AbiAlign(type)
    /\ \A i \in DOMAIN type.fields : type.fields[i].name # "" => Offset(type, i) = AbiOffset(type, i)

\* sizeof of what an address that was computed points to.
OfArithmetic == \E i, j \in DOMAIN steps :
                  /\ i < j /\ steps[i].op = "+" /\ steps[j].op = "sizeof"
                  /\ \A k \in i..j : steps[k].op # "cast"
\* The address or the size of a member or an element of the object is constant,
\* and every constant that is accepted is what C means, in the ABI.
Direct == root = "g" /\ steps # << >> /\ Last(steps).op \in {"&", "sizeof"}
          /\ \A i \in 1..(Len(steps) - 1) : steps[i].op \in {".", "[]"}
AddressesOfTheABI ==
  LET c == ice_eval(type, root, steps).value
      x == Decayed(Meaning(type, root, steps))
  IN type \in Types =>
       /\ Direct => c # Fail
       /\ c # Fail /\ ~OfArithmetic =>
            CASE x.k = "pointer" -> c = Addr(x.name, x.at, AbiSize(x.ty))
              [] x.k = "number" -> c = Integer(x.at)
              [] OTHER -> FALSE

For(i) == Target(type, list[i], Before(i))
Positional(i, k) == \A j \in i..k : list[j].k # "desig"

\* An elided aggregate gets as many elements as it has members of its own, or
\* those before a designator; C counts the members of its members instead, and
\* one member of a union.  The lists where the two part are left out.
ElidedUnevenly(i) ==
  \E m \in Len(For(i))..(Len(reached[i]) - 1), k \in (i + 1)..Len(list) :
    LET whole == SubSeq(reached[i], 1, m)
    IN Positional(i + 1, k) /\ (k < i + Capacity(SpotOf(type, whole).ty)) # IsPrefix(whole, reached[k])

\* The walk of a local keeps what the braces do not give of an object that
\* earlier elements gave, stores nothing for a bit-field in braces and, in a
\* record with bit-fields, goes on after a designator of two steps from the
\* position of its second step.
Given(i) ==
  LET next(ps, e) == Append(ps, AfterSpot(type, Last(ps)))
  IN IF Valued(list[i]).k # "list" THEN {reached[i]}
     ELSE ToSet(FoldLeft(next, <<FirstSpot(type, reached[i], "num")>>, Tail(Valued(list[i]).elems)))
BracedAgain(i) == /\ Valued(list[i]).k = "list"
                  /\ \E j \in 1..(i - 1) : \E p \in Given(j) :
                       IsPrefix(reached[i], p) /\ \A q \in Given(i) : ~IsPrefix(q, p)
BracedScalar(i) == Valued(list[i]).k = "list" /\ ~IsAggregate(SpotOf(type, For(i)).ty)
BitFieldAt(p) == SpotOf(type, p).bits < 8 * AbiSize(SpotOf(type, p).ty)
AfterChain(i) == /\ ir_has_bitfields(type) /\ Len(For(i)) = 1
                 /\ \E j \in 1..(i - 1) : list[j].k = "desig" /\ Len(list[j].steps) > 1 /\ Positional(j + 1, i)
LocalMeant(i) == /\ ~ElidedUnevenly(i) /\ ~BracedAgain(i) /\ ~AfterChain(i)
                 /\ ~(BracedScalar(i) /\ BitFieldAt(For(i)))

\* The stores of a local's initializer leave what C says, each value in the
\* object it is for, but in the lists above (src/ir/gen/init).
LocalAsWritten ==
  list # << >> /\ (\A i \in DOMAIN list : LocalMeant(i)) => Local(type, ListI(list)) = AsWritten(type, ListI(list))

\* The constant of a static forgets what a member had when a designator returns
\* to a part of it (to any bit-field: the values are joined), gives the elements
\* after a designated string to its array, and counts the unnamed fields after a
\* designator; scalars in braces, a designator into a union, and aggregates in
\* a record with bit-fields, make constants of a wrong type.
ReturnsTo(i) == \E j \in 1..(i - 1) :
                  /\ Head(reached[j]) = Head(reached[i])
                  /\ list[i].k = "desig" \/ Head(reached[i - 1]) # Head(reached[i])
                  /\ ir_has_bitfields(type) \/ ~IsPrefix(reached[i], reached[j])
ThroughUnion(i) == \E k \in 1..(Len(For(i)) - 1) : SpotOf(type, SubSeq(For(i), 1, k)).ty.k = "union"
StringFirst(i) == list[i].k = "desig" /\ Valued(list[i]).k = "str" /\ i < Len(list) /\ list[i + 1].k # "desig"
AmongUnnamed(i) == type.k = "struct" /\ \E j \in 1..(i - 1) :
                     /\ list[j].k = "desig" /\ Positional(j + 1, i)
                     /\ \E u \in 1..Head(reached[j]) : type.fields[u].name = ""
StaticMeant(i) ==
  /\ ~ElidedUnevenly(i) /\ ~BracedScalar(i) /\ ~ReturnsTo(i) /\ ~ThroughUnion(i) /\ ~StringFirst(i) /\ ~AmongUnnamed(i)
  /\ ir_has_bitfields(type) => Len(reached[i]) = 1 /\ ~IsAggregate(SpotOf(type, reached[i]).ty)

\* The image of a static's constant is what C says, but in those lists
\* (src/ir/gen/init/desig).
StaticAsWritten ==
  list # << >> /\ (\A i \in DOMAIN list : StaticMeant(i)) => Static(type, ListI(list)) = AsWritten(type, ListI(list))
=============================================================================

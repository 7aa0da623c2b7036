----------------------------- MODULE Declarations -----------------------------
(***************************************************************************)
(* A translation unit from its tokens to what the module declares: the     *)
(* parser reads one declaration at a time (ll.c), then ir_gen_module.c     *)
(* prepares the unit, pass after pass over all of it, because C's order of *)
(* declarations is not the order in which the passes find out what a name  *)
(* stands for; then the globals and the functions are made.                *)
(*                                                                         *)
(* A unit comes with what C says it declares: the objects, parameters and  *)
(* functions with their types, the members of its records, the definitions *)
(* and the bodies.                                                         *)
(***************************************************************************)
EXTENDS TypeTrees

CONSTANTS Units,       \* tokens, valid, names, records, globals, funcs, bodies
          IsDevice     \* whether the module is the one of the device

VARIABLES unit, p, u, phase, at

vars == <<unit, p, u, phase, at>>

Init == /\ unit \in Units
        /\ p = Parser(unit.toks)
        /\ u = Unit(p)
        /\ phase = "reading"
        /\ at = 1

Reading == phase = "reading" /\ Cur(p) # "eof" /\ ~p.error

ll_parse_program ==
  /\ Reading
  /\ p' = ll_parse_decl_or_stmt(p)
  /\ u' = IF p'.error THEN u
          ELSE [u EXCEPT !.nodes = @ \o p'.nodes, !.types = p'.types, !.lists = p'.lists]
  /\ UNCHANGED <<unit, phase, at>>

\* A unit with an error is compiled no further.
parse == /\ phase = "reading" /\ ~Reading
         /\ phase' = IF p.error THEN "rejected" ELSE "names"
         /\ u' = IF p.error THEN u ELSE update_opaque_typedefs(collect_typedefs(u))
         /\ UNCHANGED <<unit, p, at>>

Pass(name, next, result) ==
  /\ phase = name
  /\ u' = result
  /\ phase' = next
  /\ UNCHANGED <<unit, p, at>>
PassOver(name, next, result) ==
  /\ phase = name
  /\ IF at > Len(u.nodes) THEN u' = u /\ at' = 1 /\ phase' = next
     ELSE u' = result /\ at' = at + 1 /\ UNCHANGED phase
  /\ UNCHANGED <<unit, p>>

ResolveNames == PassOver("names", "references", resolve_ast_node(u, u.nodes[at]))
ResolveReferences == Pass("references", "enumerators", resolve_struct_refs_all(u))
CollectEnumerators == Pass("enumerators", "bounds", collect_enum_vals(u))
SizeArrays == Pass("bounds", "signatures", resolve_array_sizes_pass(u))
CollectSignatures == Pass("signatures", "globals", collect_func_sigs(u))
EmitGlobals == PassOver("globals", "functions", emit_module_global(u, u.nodes[at]))
\* What was found wrong on the way makes no module.
GenerateFunctions ==
  /\ phase = "functions"
  /\ u' = gen_module_functions(u, IsDevice)
  /\ phase' = IF u'.bad THEN "rejected" ELSE "done"
  /\ UNCHANGED <<unit, p, at>>

Next == \/ ll_parse_program
        \/ parse
        \/ ResolveNames
        \/ ResolveReferences
        \/ CollectEnumerators
        \/ SizeArrays
        \/ CollectSignatures
        \/ EmitGlobals
        \/ GenerateFunctions

Spec == Init /\ [][Next]_vars

----------------------------------------------------------------------------
(* What C says of the unit.                                                *)

Finished == phase \in {"done", "rejected"}
Record(tag) == [k |-> "rec", tag |-> tag]

\* A type of the module with its records by their tags.
RECURSIVE Shape(_)
Shape(t) ==
  CASE t.k = "rec" -> Record(u.recs[t.n].name)
    [] t.k \in {"ptr", "array"} -> [t EXCEPT !.of = Shape(@)]
    [] t.k = "func" -> [t EXCEPT !.of = Shape(@), !.args = [i \in DOMAIN @ |-> Shape(@[i])]]
    [] OTHER -> t
Typed(seq) == {<<x.name, Shape(x.ty)>> : x \in ToSet(seq)}

\* Every name has the type that its declaration says: a declarator is read
\* from the name outwards, suffixes before stars, whatever the parser rotates
\* and whichever way a function and a pointer are written in the tree; a
\* parameter is adjusted; a typedef stands for its type, wherever it is used.  A
\* unit is rejected when it is not valid, a bound is no constant or a limit of
\* the parser is exceeded, and only then.
DeclaredAsWritten ==
  Finished => /\ phase = "done" <=> unit.valid
              /\ unit.valid => Typed(u.globals) \cup Typed(u.sigs) \cup Typed(u.locals) = unit.names

\* Every record that the module lays out has all of its members, with their
\* types, though it was named before it was defined, or through a pointer, or
\* by another name.
MembersAsWritten ==
  phase = "done" =>
    \A r \in ToSet(u.recs) :
      <<r.name, r.union, [i \in DOMAIN r.members |-> Shape(r.members[i])]>> \in unit.records

\* Every object is defined once, with the linkage and the value that its
\* declarations have together; a name that is only declared has no value.
GlobalsAsWritten ==
  phase = "done" => /\ IsInjective([i \in DOMAIN u.globals |-> u.globals[i].name])
                    /\ {[g EXCEPT !.ty = NoType] : g \in ToSet(u.globals)} = unit.globals
                    /\ {[name |-> f.name, link |-> f.link, ctor |-> f.ctor] : f \in ToSet(u.funcs)} = unit.funcs

\* The statements of a body are those that are written, each below the one it
\* belongs to, with their expressions and initializers.
RECURSIVE Written(_)
Written(chain) ==
  [i \in DOMAIN chain |->
     [chain[i] EXCEPT !.ty = 0, !.fields = 0, !.kids = [j \in DOMAIN @ |-> Written(@[j])]]]
BodiesAsWritten == phase = "done" => Written(Bodies(u)) = unit.bodies

==============================================================================

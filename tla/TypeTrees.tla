------------------------------ MODULE TypeTrees ------------------------------
(***************************************************************************)
(* What ir/gen makes of the types of a parsed unit before it generates any *)
(* code: the names of types are looked up (ir/gen/resolve), references to  *)
(* records get the fields of their definition, array bounds their value;   *)
(* and the types of the IR, which ir/type builds from the result.          *)
(*                                                                         *)
(* A unit is a record: its nodes, the heaps of types and of lists of       *)
(* fields, the tables of typedefs, enumerators and record definitions, the *)
(* records of the IR, and as registers the last type, AST and IR.  A named *)
(* type points to the type it is another name of, which it shares.         *)
(***************************************************************************)
EXTENDS DeclParse

CONSTANTS MAX_VISITED,    \* statements of a block whose types are resolved
          MAX_SEEN,       \* lists of fields that a walk remembers
          MAX_LAYERS      \* pointers and arrays above a function's result

Unit(p) == [nodes |-> << >>, types |-> p.types, lists |-> p.lists, typedefs |-> << >>,
            enums |-> << >>, defs |-> << >>, recs |-> << >>, seen |-> {}, bad |-> FALSE,
            ty |-> NoType, ir |-> NoType, args |-> << >>, sigs |-> << >>, globals |-> << >>,
            funcs |-> << >>, locals |-> << >>]

\* The nodes of a chain and all below it, in the order of ast_walk.
RECURSIVE ast_walk(_)
ast_walk(nodes) ==
  FoldLeft(LAMBDA acc, n : acc \o <<n>> \o ast_walk(FlattenSeq(n.kids)), << >>, nodes)

\* The latest entry of a table for a name.
LastFor(table, name) == LET at == {i \in DOMAIN table : table[i].name = name}
                        IN IF at = {} THEN 0 ELSE Max(at)

----------------------------------------------------------------------------
(* Names of types.                                                         *)

\* Every typedef of the unit, those inside functions too, in one table.
collect_typedefs(u) ==
  [u EXCEPT !.typedefs = SelectSeq(ast_walk(u.nodes), LAMBDA n : n.k = "typedef")]
typedef_lookup(u, name) == LET i == LastFor(u.typedefs, name)
                           IN IF i = 0 THEN 0 ELSE u.typedefs[i].ty

\* The latest typedef of a tag gets the fields of the definition.
Opaque(u, def) ==
  LET at == {i \in DOMAIN u.typedefs :
               LET t == u.types[u.typedefs[i].ty] IN t.k \in {"struct", "union"} /\ t.name = def.name}
  IN IF def.name = "" \/ def.fields = 0 \/ at = {} THEN u
     ELSE [u EXCEPT !.types[u.typedefs[Max(at)].ty].fields = def.fields]
IsRecord(n) == n.k \in {"struct", "union"}
update_opaque_typedefs(u) == FoldLeft(Opaque, u, SelectSeq(u.nodes, IsRecord))

RECURSIVE resolve_type_tree_ex(_, _, _)
StoreType(u, id) == [u EXCEPT !.types[id] = u.ty]
StoreField(u, id, i) == [u EXCEPT !.lists[id][i].ty = u.ty]
Resolved(u, id, fields) == StoreType(resolve_type_tree_ex(u, u.types[id], fields), id)
ResolvedFields(u, id) ==
  FoldLeft(LAMBDA acc, i : StoreField(resolve_type_tree_ex(acc, acc.lists[id][i].ty, TRUE), id, i),
           u, [i \in DOMAIN u.lists[id] |-> i])
WithInner(u, t) == [u EXCEPT !.ty = [t EXCEPT !.inner = u.ty]]
AddParam(u, t, i) == [u EXCEPT !.ty = [t EXCEPT !.params[i].ty = u.ty]]
ResolvedParams(u) ==
  FoldLeft(LAMBDA acc, i : AddParam(resolve_type_tree_ex(acc, acc.ty.params[i].ty, TRUE), acc.ty, i),
           u, [i \in DOMAIN u.ty.params |-> i])
Linked(u, t, id, fields) == [Resolved(u, id, fields) EXCEPT !.ty = [t EXCEPT !.alias = id]]
AliasOf(u, t) == IF t.alias # 0 THEN t.alias ELSE typedef_lookup(u, t.name)
\* A pointer is a firewall: the fields of a record behind it are not entered.
resolve_type_tree_ex(u, t, fields) ==
  CASE t.k = "none" -> [u EXCEPT !.ty = t]
    [] t.k = "named" -> IF AliasOf(u, t) = 0 THEN [u EXCEPT !.ty = t]
                        ELSE Linked(u, t, AliasOf(u, t), fields)
    [] t.k \in {"struct", "union"} ->
         IF fields /\ t.fields # 0 THEN [ResolvedFields(u, t.fields) EXCEPT !.ty = t]
         ELSE [u EXCEPT !.ty = t]
    [] OTHER -> ResolvedParams(WithInner(resolve_type_tree_ex(u, t.inner, fields /\ t.k # "ptr"), t))
resolve_type_tree(u, id) == Resolved(u, id, TRUE)

RECURSIVE resolve_ast_node(_, _)
ResolveChain(u, chain) == FoldLeft(resolve_ast_node, u, chain)
\* A block's statements as far as they are remembered.
resolve_stmt_chain(u, chain) == ResolveChain(u, SubSeq(chain, 1, Min({Len(chain), MAX_VISITED})))
\* A labelled statement is not entered.
resolve_ast_node(u, n) ==
  CASE n.k \in {"var", "typedef"} -> resolve_type_tree(u, n.ty)
    [] n.k \in {"struct", "union"} -> IF n.fields = 0 THEN u ELSE ResolvedFields(u, n.fields)
    [] n.k = "func" -> ResolveChain(resolve_type_tree(u, n.ty), FlattenSeq(n.kids))
    [] n.k = "block" -> resolve_stmt_chain(u, n.kids[1])
    [] n.k \in {"if", "while", "do", "for", "switch", "case", "default"} ->
         ResolveChain(u, FlattenSeq(n.kids))
    [] OTHER -> u

----------------------------------------------------------------------------
(* Fields of records.                                                      *)

RecordDef(n) == [name |-> n.name, fields |-> n.fields, union |-> n.k = "union"]
DefOf(u, t) == LastFor(u.defs, t.name)

\* A reference gets the fields of its tag's definition.
Attached(u, t) ==
  IF t.name = "" \/ t.fields # 0 \/ DefOf(u, t) = 0 THEN t
  ELSE [t EXCEPT !.fields = u.defs[DefOf(u, t)].fields,
                 !.k = IF u.defs[DefOf(u, t)].union THEN "union" ELSE @]

RECURSIVE resolve_struct_refs_type_ex(_, _)
RefFields(u, id) ==
  FoldLeft(LAMBDA acc, i : StoreField(resolve_struct_refs_type_ex(acc, acc.lists[id][i].ty), id, i),
           u, [i \in DOMAIN u.lists[id] |-> i])
RefParams(u) ==
  FoldLeft(LAMBDA acc, i : AddParam(resolve_struct_refs_type_ex(acc, acc.ty.params[i].ty), acc.ty, i),
           u, [i \in DOMAIN u.ty.params |-> i])
RefRecord(u, t) ==
  CASE t.fields = 0 \/ t.fields \in u.seen -> [u EXCEPT !.ty = t]
    [] t.name = "" \/ Cardinality(u.seen) >= MAX_SEEN -> [RefFields(u, t.fields) EXCEPT !.ty = t]
    [] OTHER -> [RefFields([u EXCEPT !.seen = @ \cup {t.fields}], t.fields) EXCEPT !.ty = t]
RefAlias(u, t, id) ==
  [StoreType(resolve_struct_refs_type_ex(u, u.types[id]), id) EXCEPT !.ty = t]
resolve_struct_refs_type_ex(u, t) ==
  CASE t.k = "none" -> [u EXCEPT !.ty = t]
    [] t.k \in {"struct", "union"} -> RefRecord(u, Attached(u, t))
    [] t.k = "named" -> IF t.alias = 0 THEN [u EXCEPT !.ty = t] ELSE RefAlias(u, t, t.alias)
    [] OTHER -> RefParams(WithInner(resolve_struct_refs_type_ex(u, t.inner), t))
resolve_struct_refs_type(u, id) ==
  StoreType(resolve_struct_refs_type_ex([u EXCEPT !.seen = {}], u.types[id]), id)

\* The variables of a body, except behind a label.
RECURSIVE resolve_struct_refs_stmt(_, _)
resolve_struct_refs_stmt(u, n) ==
  CASE n.k = "var" -> resolve_struct_refs_type(u, n.ty)
    [] n.k \in {"block", "if", "while", "do", "for", "switch", "case", "default"} ->
         FoldLeft(resolve_struct_refs_stmt, u, FlattenSeq(n.kids))
    [] OTHER -> u

Bodies(u) == FlattenSeq(FlattenSeq([i \in DOMAIN u.nodes |->
                          IF u.nodes[i].k = "func" THEN u.nodes[i].kids ELSE << >>]))
collect_local_struct_def_cb(n) == IsRecord(n) /\ n.name # "" /\ n.fields # 0
WithDefs(u, nodes) == [u EXCEPT !.defs = @ \o [i \in DOMAIN nodes |-> RecordDef(nodes[i])]]
RefDecl(u, n) == IF n.k \in {"var", "func", "typedef"} THEN resolve_struct_refs_type(u, n.ty) ELSE u
RefDefField(u, id, i) ==
  StoreField(resolve_struct_refs_type_ex([u EXCEPT !.seen = {}], u.lists[id][i].ty), id, i)
RefDef(u, n) == IF n.fields = 0 THEN u
                ELSE FoldLeft(LAMBDA acc, i : RefDefField(acc, n.fields, i), u,
                              [i \in DOMAIN u.lists[n.fields] |-> i])
\* The definitions of the unit; its declarations and definitions; then those in
\* functions, for all functions; their variables.
RefTop(u) == FoldLeft(RefDef, FoldLeft(RefDecl, u, u.nodes), SelectSeq(u.nodes, IsRecord))
\* Mutant: a definition inside a function is known to nobody.
UnitDefsOnly(u) == FoldLeft(resolve_struct_refs_stmt, u, Bodies(u))
RefBodies(u) ==
  FoldLeft(resolve_struct_refs_stmt,
           WithDefs(u, SelectSeq(ast_walk(Bodies(u)), collect_local_struct_def_cb)), Bodies(u))
resolve_struct_refs_all(u) ==
  RefBodies(RefTop(WithDefs(u, SelectSeq(u.nodes, LAMBDA n : IsRecord(n) /\ n.name # ""))))

----------------------------------------------------------------------------
(* Enumerators and array bounds.                                           *)

\* A value that is not given is the one before, and one.
register_enum_def(enums, def) ==
  FoldLeft(LAMBDA acc, i :
             Append(acc, [name |-> def.enums[i].name,
                          value |-> IF def.enums[i].width # -1 THEN def.enums[i].width
                                    ELSE IF i = 1 THEN 0 ELSE acc[Len(acc)].value + 1]),
           enums, [i \in DOMAIN def.enums |-> i])
collect_enum_vals(u) ==
  [u EXCEPT !.enums = FoldLeft(register_enum_def, << >>,
                               SelectSeq(ast_walk(u.nodes), LAMBDA n : n.k = "enum"))]

\* The value of a bound: a name's must not be 0, any other must be positive.
BoundOf(u, tok) ==
  CASE tok.k = "id" -> IF LastFor(u.enums, tok.v) = 0 THEN 0 ELSE u.enums[LastFor(u.enums, tok.v)].value
    [] tok.v = "const" -> tok.n
    [] OTHER -> 0
RECURSIVE resolve_array_sizes_ex(_, _)
SizedBy(u, t, n) ==
  IF n = 0 \/ (n < 0 /\ t.bound.k # "id")
  THEN [u EXCEPT !.bad = TRUE, !.ty = t] ELSE [u EXCEPT !.ty = [t EXCEPT !.size = n]]
SizeArray(u, t) == IF t.k # "array" \/ t.size # 0 \/ t.bound.k = "" THEN [u EXCEPT !.ty = t]
                   ELSE SizedBy(u, t, BoundOf(u, t.bound))
SizeFields(u, id) ==
  FoldLeft(LAMBDA acc, i : StoreField(resolve_array_sizes_ex(acc, acc.lists[id][i].ty), id, i),
           u, [i \in DOMAIN u.lists[id] |-> i])
SizeRecord(u, t) == IF t.fields = 0 \/ t.fields \in u.seen THEN [u EXCEPT !.ty = t]
                    ELSE [SizeFields([u EXCEPT !.seen = @ \cup {t.fields}], t.fields) EXCEPT !.ty = t]
SizeAlias(u, t, id) == [StoreType(resolve_array_sizes_ex(u, u.types[id]), id) EXCEPT !.ty = t]
SizeOuter(u) == SizeArray(u, u.ty)
resolve_array_sizes_ex(u, t) ==
  CASE t.k = "none" -> [u EXCEPT !.ty = t]
    [] t.k \in {"struct", "union"} -> SizeRecord(u, t)
    [] t.k = "named" -> IF t.alias = 0 THEN [u EXCEPT !.ty = t] ELSE SizeAlias(u, t, t.alias)
    [] OTHER -> SizeOuter(WithInner(resolve_array_sizes_ex(u, t.inner), t))
resolve_array_sizes(u, id) ==
  StoreType(resolve_array_sizes_ex([u EXCEPT !.seen = {}], u.types[id]), id)

\* The parameters of a definition, though pointers took the place of arrays.
SizeParams(u, id) ==
  FoldLeft(LAMBDA acc, i :
             LET v == resolve_array_sizes_ex([acc EXCEPT !.seen = {}], acc.types[id].params[i].ty)
             IN [v EXCEPT !.types[id].params[i].ty = v.ty],
           u, [i \in DOMAIN u.types[id].params |-> i])
resolve_local_arr_cb(u, n) == IF n.k = "var" THEN resolve_array_sizes(u, n.ty) ELSE u
SizeDecl(u, n) ==
  CASE n.k = "var" -> resolve_array_sizes(u, n.ty)
    [] n.k \in {"struct", "union"} ->
         IF n.fields = 0 THEN u ELSE SizeFields([u EXCEPT !.seen = {}], n.fields)
    [] n.k = "func" -> FoldLeft(resolve_local_arr_cb,
                                SizeParams(resolve_array_sizes(u, n.ty), n.ty),
                                ast_walk(FlattenSeq(n.kids)))
    [] OTHER -> u
resolve_array_sizes_pass(u) == FoldLeft(SizeDecl, u, u.nodes)

----------------------------------------------------------------------------
(* Types of the IR.  A record is its number in the unit's list.            *)

IR(k) == [k |-> k, of |-> NoType, n |-> 0, args |-> << >>, va |-> FALSE]
ir_ptr_type(t) == [IR("ptr") EXCEPT !.of = t]
ir_array_type(t, n) == [IR("array") EXCEPT !.of = t, !.n = n]
ir_func_type(ret, params, va) == [IR("func") EXCEPT !.of = ret, !.args = params, !.va = va]

unsigned_of(t) == CASE t.k = "i8" -> IR("u8") [] t.k = "i16" -> IR("u16")
                    [] t.k = "i32" -> IR("u32") [] t.k = "i64" -> IR("u64") [] OTHER -> t
Scalars == [void |-> "void", char |-> "i8", short |-> "i16", int |-> "i32", float |-> "f32",
            double |-> "f64", enum |-> "i32", _Bool |-> "i1"]
RECURSIVE ScalarOf(_)
ScalarOf(t) ==
  CASE t.k = "long" -> IR(IF t.next.k = "double" THEN "f64" ELSE "i64")
    [] t.k = "signed" -> IF t.next.k = "none" THEN IR("i32") ELSE ScalarOf(t.next)
    [] t.k = "unsigned" -> IF t.next.k = "none" THEN IR("u32") ELSE unsigned_of(ScalarOf(t.next))
    [] OTHER -> IR(Scalars[t.k])

\* A record that was built for the node, else the latest of its tag, unless that
\* one is incomplete and this is its definition.
struct_cache_get_ty(u, t) ==
  LET same == {i \in DOMAIN u.recs : u.recs[i].node = t.node}
      tagged == {i \in DOMAIN u.recs : t.name # "" /\ u.recs[i].name = t.name}
  IN IF same # {} THEN Max(same)
     ELSE IF tagged # {} /\ (\/ u.recs[Max(tagged)].members # << >>
                             \/ t.fields = 0 \/ u.recs[Max(tagged)].fields = t.fields)
     THEN Max(tagged) ELSE 0
struct_cache_put(u, t) ==
  [u EXCEPT !.recs = Append(@, [name |-> t.name, union |-> t.k = "union", node |-> t.node,
                                fields |-> t.fields, members |-> << >>])]

RECURSIVE ast_to_ir_type_ctx(_, _, _), ast_to_func_type(_, _, _)
RECURSIVE NamedRoot(_, _)
NamedRoot(u, t) == IF t.k = "named" /\ t.alias # 0 THEN NamedRoot(u, u.types[t.alias]) ELSE t

Member(t) == IF t.k = "void" THEN IR("i8") ELSE t
AddMember(u, id) == [u EXCEPT !.recs[id].members = Append(@, Member(u.ir))]
Members(u, t, id) ==
  IF t.fields = 0 THEN [u EXCEPT !.ir = [IR("rec") EXCEPT !.n = id]]
  ELSE [FoldLeft(LAMBDA acc, f : AddMember(ast_to_ir_type_ctx(acc, f.ty, FALSE), id),
                 u, u.lists[t.fields]) EXCEPT !.ir = [IR("rec") EXCEPT !.n = id]]
ast_to_struct_type(u, t) ==
  IF struct_cache_get_ty(u, t) # 0
  THEN [u EXCEPT !.ir = [IR("rec") EXCEPT !.n = struct_cache_get_ty(u, t)]]
  ELSE Members(struct_cache_put(u, t), t, Len(u.recs) + 1)

\* The pointers and arrays above a function's result, the outermost first.
RECURSIVE LayersOf(_, _)
LayersOf(t, n) == IF t.k \in {"ptr", "array"} /\ n > 0 THEN <<t>> \o LayersOf(t.inner, n - 1) ELSE << >>
Below(t) == LET layers == LayersOf(t, MAX_LAYERS)
            IN IF layers = << >> THEN t ELSE layers[Len(layers)].inner
wrap_return_layers(t, layers) ==
  FoldRight(LAMBDA l, acc : IF l.k = "ptr" THEN ir_ptr_type(acc) ELSE ir_array_type(acc, Max({l.size, 0})),
            layers, t)

DecayedIR(t) == IF t.k = "array" THEN ir_ptr_type(t.of) ELSE t
AddArg(u, args) == [u EXCEPT !.args = Append(args, DecayedIR(u.ir))]
ParamTypes(u, params) ==
  FoldLeft(LAMBDA acc, v : AddArg(ast_to_ir_type_ctx(acc, v.ty, FALSE), acc.args),
           [u EXCEPT !.args = << >>], params)

\* FUNC(result): pointers and arrays above the result are those of a pointer to
\* the function, unless the function is itself what one points to, or they lead
\* to another function.
FuncOf(u, va, params) == [u EXCEPT !.ir = ir_func_type(@, params, va)]
Layered(u, layers) == [u EXCEPT !.ir = wrap_return_layers(@, layers)]
FuncResult(u, t, pointee) ==
  CASE pointee -> FuncOf(ast_to_ir_type_ctx(u, t.inner, FALSE), t.va, u.args)
    [] Below(t.inner).k = "func" ->
         FuncOf(Layered(ast_to_func_type(u, Below(t.inner), TRUE), LayersOf(t.inner, MAX_LAYERS)),
                t.va, u.args)
    [] OTHER -> Layered(FuncOf(ast_to_ir_type_ctx(u, Below(t.inner), FALSE), t.va, u.args),
                        LayersOf(t.inner, MAX_LAYERS))
ast_to_func_type(u, t, pointee) == FuncResult(ParamTypes(u, t.params), t, pointee)

\* A name is a complete type, of which a function keeps what points to it.
FunctionForm(u, t) == NamedRoot(u, t).k = "func" /\ NamedRoot(u, t).form
PtrTo(u) == [u EXCEPT !.ir = ir_ptr_type(@)]
ArrayOf(u, n) == [u EXCEPT !.ir = ir_array_type(@, Max({n, 0}))]
ast_to_ir_type_ctx(u, t, pointee) ==
  CASE t.k = "none" -> [u EXCEPT !.ir = IR("void")]
    [] t.k = "ptr" -> PtrTo(ast_to_ir_type_ctx(u, t.inner, TRUE))
    [] t.k = "array" -> ArrayOf(ast_to_ir_type_ctx(u, t.inner, TRUE), t.size)
    [] t.k = "func" -> ast_to_func_type(u, t, pointee)
    [] t.k \in {"struct", "union"} -> ast_to_struct_type(u, t)
    [] t.k = "named" /\ t.alias = 0 -> [u EXCEPT !.ir = IR("i32")]
    [] t.k = "named" -> ast_to_ir_type_ctx(u, u.types[t.alias], pointee /\ FunctionForm(u, t))
    [] OTHER -> [u EXCEPT !.ir = ScalarOf(t)]
ir_type_from_ast(u, t) == ast_to_ir_type_ctx(u, t, FALSE)

----------------------------------------------------------------------------
(* Functions and globals of the module.                                    *)

Unresolved(t) == t.k = "named" /\ t.alias = 0
\* The result and the parameters, each by itself; a name that is no type is a
\* pointer.
SigParam(u, v, args) ==
  [u EXCEPT !.args = Append(args, IF Unresolved(v.ty) THEN ir_ptr_type(IR("i8")) ELSE DecayedIR(u.ir))]
SigParams(u, params) ==
  FoldLeft(LAMBDA acc, v : SigParam(ir_type_from_ast(acc, v.ty), v, acc.args),
           [u EXCEPT !.args = << >>], params)
SigOf(u, t, ret) == [u EXCEPT !.ir = ir_func_type(ret, u.args, t.va)]
WithSig(u, t) == SigOf(SigParams(u, t.params), t, u.ir)
Signature(u, n) == WithSig(ir_type_from_ast(u, u.types[n.ty].inner), u.types[n.ty])
AddSig(u, n) == [u EXCEPT !.sigs = Append(@, [name |-> n.name, ty |-> u.ir])]
collect_func_sigs(u) ==
  FoldLeft(LAMBDA acc, n : AddSig(Signature(acc, n), n), u, SelectSeq(u.nodes, LAMBDA n : n.k = "func"))

\* A body's function has the type its own declarator says.
FuncLinkage(link, device) ==
  CASE link = "global" -> "kernel"
    [] link = "device" \/ (link = "host_device" /\ device) -> "device"
    [] link = "static" -> "internal"
    [] OTHER -> "external"
AddFunc(u, n, device) ==
  [u EXCEPT !.bad = @ \/ (n.link = "global" /\ u.ir.of.k # "void"),
            !.funcs = Append(@, [name |-> n.name, ty |-> u.ir, ctor |-> n.ctor,
                                 link |-> FuncLinkage(n.link, device)])]
\* Each variable of the body, with the type of its place.
AddLocal(u, n) == [u EXCEPT !.locals = Append(@, [name |-> n.name, ty |-> Member(u.ir)])]
Locals(u, n) == FoldLeft(LAMBDA acc, v : AddLocal(ir_type_from_ast(acc, acc.types[v.ty]), v), u,
                         SelectSeq(ast_walk(FlattenSeq(n.kids)), LAMBDA v : v.k = "var"))
ir_gen_function(u, n, device) == Locals(AddFunc(Signature(u, n), n, device), n)
gen_module_functions(u, device) ==
  FoldLeft(LAMBDA acc, n : ir_gen_function(acc, n, device), u,
           SelectSeq(u.nodes, LAMBDA n : n.k = "func" /\ n.kids # << >>))

\* An array whose elements have a name that is no type has pointers, and no size.
RECURSIVE PtrElements(_)
PtrElements(t) == IF t.k = "array" THEN ir_array_type(PtrElements(t.inner), 0)
                  ELSE ir_ptr_type(IR("i8"))
GlobalType(u, t) ==
  CASE u.ir.k = "array" /\ t.k = "array" /\ Unresolved(Element(t)) -> PtrElements(t)
    [] OTHER -> Member(u.ir)
Zero == [k |-> "zero"]
AddGlobal(u, n) ==
  [u EXCEPT !.globals = Append(@, [name |-> n.name, ty |-> GlobalType(u, u.types[n.ty]),
                                   space |-> n.space, link |-> IF n.link = "static" THEN "internal"
                                                               ELSE "external",
                                   value |-> IF n.init # NoInit THEN n.init
                                             ELSE IF n.link = "extern" THEN NoInit ELSE Zero])]
emit_global(u, n) == AddGlobal(ir_type_from_ast(u, u.types[n.ty]), n)
\* Mutant: a later declaration that is no definition gives a value as well.
DefinedByExtern(u, n, i) ==
  IF u.globals[i].value = NoInit
  THEN [u EXCEPT !.globals[i].value = IF n.init # NoInit THEN n.init ELSE Zero] ELSE u
\* A name that has no value yet gets one by a definition.
upgrade_existing_global(u, n, i) ==
  IF u.globals[i].value = NoInit /\ (n.init # NoInit \/ n.link = "host")
  THEN [u EXCEPT !.globals[i].value = IF n.init # NoInit THEN n.init ELSE Zero] ELSE u
emit_module_global(u, n) ==
  CASE n.k # "var" -> u
    [] LastFor(u.globals, n.name) = 0 -> emit_global(u, n)
    [] OTHER -> upgrade_existing_global(u, n, LastFor(u.globals, n.name))

==============================================================================

-------------------------------- MODULE Scopes --------------------------------
(***************************************************************************)
(* Which declaration a name denotes while the body of a function is        *)
(* generated: the symbol table of ir/gen/ir_gen.c with its list of saved   *)
(* bindings, driven by blocks, declarations and for statements, beside the *)
(* scopes of C (C11 6.2.1).                                                *)
(*                                                                         *)
(* Declarations are numbered in the order in which they are generated.  0  *)
(* is NULL in the table, where the generator then looks among the globals, *)
(* and in C's reading a name that no open scope declares, which denotes    *)
(* the global if there is one.                                             *)
(***************************************************************************)
EXTENDS Integers, Sequences

CONSTANTS Names,
          Marker,       \* the null name of a SymSave that marks a scope
          MaxDecls,     \* bound on the declarations of a function
          MaxDepth      \* bound on the scopes it has open

ASSUME ScopesAssumption == /\ Marker \notin Names
                           /\ MaxDecls \in Nat
                           /\ MaxDepth \in Nat

VARIABLES syms,       \* GenCtx.syms
          scope_top,  \* the list GenCtx.scope_top heads, innermost last
          nDecls,     \* declarations so far
          scopes,     \* C's open scopes, outermost first
          inFor       \* the names that a for statement has declared

vars == <<syms, scope_top, nDecls, scopes, inFor>>

(***************************************************************************)
(* An open scope: whether it is a block, which the generator marks at      *)
(* index `at' of its list, what each name denotes in it, and the table as  *)
(* it was when the scope was opened.                                       *)
(***************************************************************************)
Tables == [Names -> Nat]

Scope == [block : BOOLEAN, at : Nat, binds : Tables, table : Tables]

Current == scopes[Len(scopes)]

Outside == SubSeq(scopes, 1, Len(scopes) - 1)

Empty == [n \in Names |-> 0]

\* The function's own scope, of its parameters and of the declarations of its
\* body: the mark that gen_stmt sets between them goes when the function ends.
Init == /\ syms = Empty
        /\ scope_top = << >>
        /\ nDecls = 0
        /\ scopes = <<[block |-> TRUE, at |-> 0, binds |-> Empty, table |-> Empty]>>
        /\ inFor = {}

(***************************************************************************)
(* The table                                                               *)
(***************************************************************************)

\* Mutant: what is saved is the new binding.
sym_add_late(n, d) ==
  /\ scope_top' = Append(scope_top, [name |-> n, old |-> d])
  /\ syms' = [syms EXCEPT ![n] = d]

sym_add(n, d) ==
  /\ scope_top' = Append(scope_top, [name |-> n, old |-> syms[n]])
  /\ syms' = [syms EXCEPT ![n] = d]

MarkersOf(list) == {i \in DOMAIN list : list[i].name = Marker}

LastMarker(list) == CHOOSE i \in MarkersOf(list) : \A j \in MarkersOf(list) : j <= i

\* The bindings of n saved above index i; those of a name that had none are
\* not written back.
Saved(list, n, i) == {j \in i + 1 .. Len(list) : list[j].name = n /\ list[j].old # 0}

Least(S) == CHOOSE i \in S : \A j \in S : i <= j

\* Mutant: the last binding of a name stays.
RestoredLast(list, table, i) ==
  [n \in Names |->
     LET S == Saved(list, n, i)
     IN  IF S = {} THEN table[n] ELSE list[CHOOSE j \in S : \A k \in S : k <= j].old]

\* The bindings saved above index i are written back from the last to the
\* first, so that the first one of a name stays.
Restored(list, table, i) ==
  [n \in Names |->
     LET S == Saved(list, n, i) IN IF S = {} THEN table[n] ELSE list[Least(S)].old]

sym_scope_pop ==
  /\ syms' = Restored(scope_top, syms, LastMarker(scope_top))
  /\ scope_top' = SubSeq(scope_top, 1, LastMarker(scope_top) - 1)

(***************************************************************************)
(* What the body of a function does with it                                *)
(***************************************************************************)

\* C allows one declaration of a name in a scope.
DeclaredHere(n) == Current.binds[n] # 0 /\ (Len(scopes) > 1 => Current.binds[n] # Outside[Len(scopes) - 1].binds[n])

\* gen_stmt_var_decl, and the parameters of ir_gen_function.
Declare(n) ==
  /\ nDecls < MaxDecls
  /\ Current.block /\ ~DeclaredHere(n)
  /\ sym_add(n, nDecls + 1)
  /\ nDecls' = nDecls + 1
  /\ scopes' = [scopes EXCEPT ![Len(scopes)].binds[n] = nDecls + 1]
  /\ UNCHANGED inFor

\* AST_BLOCK, from sym_scope_push ...
OpenBlock ==
  /\ Len(scopes) < MaxDepth
  /\ scope_top' = Append(scope_top, [name |-> Marker, old |-> 0])
  /\ scopes' = Append(scopes, [block |-> TRUE, at |-> Len(scope_top) + 1,
                               binds |-> Current.binds, table |-> syms])
  /\ UNCHANGED <<syms, nDecls, inFor>>

\* ... to sym_scope_pop.
CloseBlock ==
  /\ Len(scopes) > 1 /\ Current.block
  /\ sym_scope_pop
  /\ scopes' = Outside
  /\ UNCHANGED <<nDecls, inFor>>

\* gen_stmt_for with a declaration: a scope in C, none in the generator.
OpenFor(n) ==
  /\ nDecls < MaxDecls /\ Len(scopes) < MaxDepth
  /\ sym_add(n, nDecls + 1)
  /\ nDecls' = nDecls + 1
  /\ scopes' = Append(scopes, [block |-> FALSE, at |-> Len(scope_top),
                               binds |-> [Current.binds EXCEPT ![n] = nDecls + 1],
                               table |-> syms])
  /\ inFor' = inFor \cup {n}

CloseFor ==
  /\ ~Current.block
  /\ scopes' = Outside
  /\ UNCHANGED <<syms, scope_top, nDecls, inFor>>

Next == \/ \E n \in Names : Declare(n)
        \/ OpenBlock
        \/ CloseBlock
        \/ \E n \in Names : OpenFor(n)
        \/ CloseFor

Spec == Init /\ [][Next]_vars

(***************************************************************************)
(* Properties                                                              *)
(***************************************************************************)

SymSave == [name : Names \cup {Marker}, old : Nat]

\* The lists are well-formed, and the blocks that are open are the ones marked.
TypeOK == /\ syms \in Tables
          /\ scope_top \in Seq(SymSave)
          /\ nDecls \in Nat
          /\ scopes \in Seq(Scope) /\ Len(scopes) >= 1
          /\ inFor \subseteq Names
          /\ MarkersOf(scope_top) = {scopes[k].at : k \in {j \in 2 .. Len(scopes) : scopes[j].block}}

\* A name denotes in the generated code what it denotes in C wherever an open
\* scope declares it, however blocks shadow one another; names that a for
\* statement has declared excepted.
LocalsResolve ==
  \A n \in Names \ inFor : Current.binds[n] # 0 => syms[n] = Current.binds[n]

\* Closing a block gives back every binding there was when it was opened,
\* whatever was declared in it, in nested blocks and in for statements.
BlockGivesBack ==
  [][CloseBlock => \A n \in Names : Current.table[n] # 0 => syms'[n] = Current.table[n]]_vars
==============================================================================

----------------------------- MODULE OptimizeRun -----------------------------
(***************************************************************************)
(* optimize() on a program of a set: opt_enum once, then fold, propagate,  *)
(* fold and dead until none of them changes anything.                      *)
(***************************************************************************)
EXTENDS StaticAsserts

CONSTANTS Seeds,      \* trees
          Around(_),  \* the programs in which one of them occurs
          Params, Fuel

VARIABLES written,  \* the program
          ast,      \* what it has become
          pass,     \* the pass that is next
          changed   \* whether a pass of this round changed something

vars == <<written, ast, pass, changed>>

Init == /\ \E s \in Seeds : written \in Around(s)
        /\ ast = written
        /\ pass = "enum" /\ changed = FALSE

Run(p, result, next) ==
  /\ pass = p
  /\ ast' = result
  /\ changed' = (changed \/ ast' # ast)
  /\ pass' = next
  /\ UNCHANGED written

RunEnum == Run("enum", opt_enum(ast), "fold")
RunFold == Run("fold", opt_fold(ast), "propagate")
RunPropagate == Run("propagate", opt_propagate(ast), "fold again")
RunFoldAgain == Run("fold again", opt_fold(ast), "dead")
RunDead == Run("dead", opt_dead(ast), "while")

\* do { changed = 0; ... } while (changed)
Again == /\ pass = "while"
         /\ pass' = IF changed THEN "fold" ELSE "done"
         /\ changed' = FALSE
         /\ UNCHANGED <<written, ast>>

Next == RunEnum \/ RunFold \/ RunPropagate \/ RunFoldAgain \/ RunDead \/ Again

Spec == Init /\ [][Next]_vars

----------------------------------------------------------------------------
\* After every pass the program does what was written, for every argument for
\* which C defines it: the values that are folded and propagated, the entries
\* that an assignment, ++ or & must end, what is unreachable.
OptimizedDoesWhatIsWritten ==
  ast # written =>
  \A p \in Params : Refines(Behaviour(ast, p, Fuel), Behaviour(written, p, Fuel))

\* A constant expression has the type and the value that C gives it.
ConstantsAreTheirValues == pass = "enum" => \A n \in ToSet(PreOrder(written)) : ConstantIsItsValue(n)

\* An assertion sees the declarations that are in scope where it stands, before
\* the passes and after them; a name is declared once, and few scopes are nested.
AssertionsSeeTheirScope ==
  pass \in {"enum", "done"} =>
    \A f \in {n \in ToSet(ast.kids) : n.op = "func"} :
      DeclaredOnce(f) /\ Depth(f) <= SA_MAX_FRAMES => ir_check_static_asserts(f) = ScopesOf(f)
=============================================================================

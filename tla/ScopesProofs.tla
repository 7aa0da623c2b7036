----------------------------- MODULE ScopesProofs -----------------------------
(***************************************************************************)
(* The symbol table resolves names as C does, for any number of names,     *)
(* declarations and nested scopes.                                         *)
(***************************************************************************)
EXTENDS Scopes, LeastElement

\* The marks lie in the list in the order in which the scopes were opened.
MarksInOrder ==
  /\ scopes[1].block
  /\ \A k \in 1 .. Len(scopes) : scopes[k].at <= Len(scope_top)
  /\ \A k \in 2 .. Len(scopes) : \A j \in 1 .. k - 1 :
       /\ scopes[j].at <= scopes[k].at
       /\ scopes[k].block => scopes[j].at < scopes[k].at

\* Closing any open block now would give back what it found.
EachGivesBack ==
  \A k \in 2 .. Len(scopes) :
    scopes[k].block =>
      \A n \in Names :
        scopes[k].table[n] # 0 =>
          Restored(scope_top, syms, scopes[k].at)[n] = scopes[k].table[n]

\* The table a block found resolved the names of the scope around it, and a
\* for statement declares its own name only.
EachWasResolved ==
  \A k \in 2 .. Len(scopes) : \A n \in Names \ inFor :
    IF scopes[k].block
    THEN scopes[k - 1].binds[n] # 0 => scopes[k].table[n] = scopes[k - 1].binds[n]
    ELSE scopes[k].binds[n] = scopes[k - 1].binds[n]

IInv == TypeOK /\ MarksInOrder /\ EachGivesBack /\ EachWasResolved /\ LocalsResolve

(***************************************************************************)
(* Lists of saved bindings.                                                *)
(***************************************************************************)

\* A binding that would come back still does after another one is saved.
LEMMA AddKeeps ==
  ASSUME NEW list \in Seq(SymSave), NEW table \in Tables, NEW n \in Names, NEW d \in Nat,
         NEW i \in 0 .. Len(list), NEW m \in Names, Restored(list, table, i)[m] # 0
  PROVE  Restored(Append(list, [name |-> n, old |-> table[n]]), [table EXCEPT ![n] = d], i)[m]
           = Restored(list, table, i)[m]
<1>. DEFINE L == Len(list)
            new == Append(list, [name |-> n, old |-> table[n]])
            S == Saved(list, m, i)
            T == Saved(new, m, i)
<1>1. /\ Len(new) = L + 1 /\ new[L + 1] = [name |-> n, old |-> table[n]]
      /\ \A j \in 1 .. L : new[j] = list[j]
  BY DEF SymSave, Tables
<1>2. S \in SUBSET Nat /\ \A j \in S : j <= L
  BY DEF Saved
<1>3. T = S \cup (IF m = n /\ table[n] # 0 THEN {L + 1} ELSE {})
  BY <1>1 DEF Saved
<1>4. CASE S # {}
  <2>1. PICK f \in S : \A j \in S : f <= j
    BY <1>2, <1>4, LeastExists
  <2>2. Least(S) = f
    BY <2>1, <1>2 DEF Least
  <2>3. Least(T) = f
    BY <2>1, <1>2, <1>3 DEF Least
  <2>4. f \in 1 .. L
    BY DEF Saved
  <2>. QED
    BY <1>1, <1>3, <1>4, <2>2, <2>3, <2>4 DEF Restored
<1>5. CASE S = {}
  <2>1. Restored(list, table, i)[m] = table[m]
    BY <1>5 DEF Restored
  <2>2. CASE m = n
    <3>1. T = {L + 1}
      BY <1>3, <1>5, <2>1, <2>2
    <3>2. Least(T) = L + 1
      BY <3>1 DEF Least
    <3>. QED
      BY <1>1, <2>1, <2>2, <3>1, <3>2 DEF Restored
  <2>3. CASE m # n
    BY <1>3, <1>5, <2>1, <2>3 DEF Restored, Tables
  <2>. QED
    BY <2>2, <2>3
<1>. QED
  BY <1>4, <1>5

\* A mark changes nothing of what is below it.
LEMMA MarkKeeps ==
  ASSUME NEW list \in Seq(SymSave), NEW table \in Tables, NEW i \in 0 .. Len(list)
  PROVE  /\ Restored(Append(list, [name |-> Marker, old |-> 0]), table, i)
              = Restored(list, table, i)
         /\ Restored(Append(list, [name |-> Marker, old |-> 0]), table, Len(list) + 1) = table
<1>. DEFINE new == Append(list, [name |-> Marker, old |-> 0])
<1>1. /\ Len(new) = Len(list) + 1 /\ new[Len(list) + 1] = [name |-> Marker, old |-> 0]
      /\ \A j \in 1 .. Len(list) : new[j] = list[j]
  BY DEF SymSave
<1>2. \A n \in Names : Saved(new, n, i) = Saved(list, n, i) /\ Saved(new, n, Len(list) + 1) = {}
  BY <1>1, ScopesAssumption DEF Saved
<1>3. \A n \in Names : Saved(list, n, i) # {} => Least(Saved(list, n, i)) \in 1 .. Len(list)
  <2>. SUFFICES ASSUME NEW n \in Names, Saved(list, n, i) # {}
                PROVE  Least(Saved(list, n, i)) \in 1 .. Len(list)
    OBVIOUS
  <2>1. Saved(list, n, i) \in SUBSET Nat
    BY DEF Saved
  <2>2. Least(Saved(list, n, i)) \in Saved(list, n, i)
    BY <2>1, LeastExists DEF Least
  <2>. QED
    BY <2>2 DEF Saved
<1>. QED
  BY <1>1, <1>2, <1>3 DEF Restored, Tables

\* Writing back in two parts, from a mark at p and then from i below it, is
\* writing back from i at once.
LEMMA PopKeeps ==
  ASSUME NEW list \in Seq(SymSave), NEW table \in Tables,
         NEW p \in 1 .. Len(list), list[p].name = Marker, NEW i \in 0 .. p - 1
  PROVE  Restored(SubSeq(list, 1, p - 1), Restored(list, table, p), i)
           = Restored(list, table, i)
<1>. DEFINE short == SubSeq(list, 1, p - 1)
<1>1. /\ Len(short) = p - 1
      /\ \A j \in 1 .. p - 1 : short[j] = list[j]
  OBVIOUS
<1>. SUFFICES ASSUME NEW n \in Names
              PROVE  Restored(short, Restored(list, table, p), i)[n] = Restored(list, table, i)[n]
  BY DEF Restored
<1>. DEFINE S == Saved(list, n, i)
            T == Saved(short, n, i)
            U == Saved(list, n, p)
<1>2. S \in SUBSET Nat /\ T \in SUBSET Nat /\ S = T \cup U
      /\ (\A j \in T : j \in 1 .. p - 1) /\ \A j \in U : j > p
  BY <1>1, ScopesAssumption DEF Saved, SymSave
<1>3. CASE T # {}
  <2>1. PICK f \in T : \A j \in T : f <= j
    BY <1>2, <1>3, LeastExists
  <2>2. Least(T) = f
    BY <2>1, <1>2 DEF Least
  <2>3. Least(S) = f
    <3>1. f \in S /\ \A j \in S : f <= j
      BY <2>1, <1>2
    <3>. QED
      BY <3>1, <1>2 DEF Least
  <2>. QED
    BY <1>1, <1>2, <1>3, <2>2, <2>3 DEF Restored
<1>4. CASE T = {}
  BY <1>2, <1>4 DEF Restored
<1>. QED
  BY <1>3, <1>4

\* What comes back is a table.
LEMMA RestoredType ==
  ASSUME NEW list \in Seq(SymSave), NEW table \in Tables, NEW i \in Nat
  PROVE  Restored(list, table, i) \in Tables
<1>. SUFFICES ASSUME NEW n \in Names
              PROVE  Restored(list, table, i)[n] \in Nat
  BY DEF Restored, Tables
<1>1. Saved(list, n, i) \in SUBSET Nat
  BY DEF Saved
<1>2. CASE Saved(list, n, i) # {}
  <2>1. Least(Saved(list, n, i)) \in Saved(list, n, i)
    BY <1>1, <1>2, LeastExists DEF Least
  <2>2. Least(Saved(list, n, i)) \in 1 .. Len(list)
    BY <2>1 DEF Saved
  <2>3. list[Least(Saved(list, n, i))] \in SymSave
    BY <2>2
  <2>. QED
    BY <1>2, <2>3 DEF Restored, SymSave
<1>3. CASE Saved(list, n, i) = {}
  BY <1>3 DEF Restored, Tables
<1>. QED
  BY <1>2, <1>3

(***************************************************************************)
(* The invariant.                                                          *)
(***************************************************************************)

LEMMA InitInv == Init => IInv
BY ScopesAssumption DEF Init, IInv, TypeOK, MarksInOrder, EachGivesBack, EachWasResolved,
   LocalsResolve, Empty, Tables, Scope, SymSave, MarkersOf, Current

\* The parts of an open scope.
LEMMA ScopeParts ==
  ASSUME TypeOK, MarksInOrder, NEW k \in 1 .. Len(scopes)
  PROVE  /\ scopes[k].at \in 0 .. Len(scope_top)
         /\ scopes[k].block \in BOOLEAN
         /\ scopes[k].binds \in Tables /\ scopes[k].table \in Tables
<1>1. scopes[k] \in Scope /\ Len(scope_top) \in Nat
  BY DEF TypeOK
<1>. QED
  BY <1>1 DEF Scope, MarksInOrder

\* The scopes of C after a declaration.
LEMMA DeclaredScopes ==
  ASSUME TypeOK, NEW n \in Names, Declare(n)
  PROVE  /\ Len(scopes') = Len(scopes) /\ scopes' \in Seq(Scope)
         /\ \A k \in 1 .. Len(scopes) :
              /\ scopes'[k].block = scopes[k].block /\ scopes'[k].at = scopes[k].at
              /\ scopes'[k].table = scopes[k].table
              /\ \A m \in Names :
                   scopes'[k].binds[m] = IF k = Len(scopes) /\ m = n THEN nDecls + 1
                                         ELSE scopes[k].binds[m]
<1>. DEFINE L == Len(scopes)
            s == [scopes[L] EXCEPT !.binds = [@ EXCEPT ![n] = nDecls + 1]]
<1>1. L \in 1 .. L /\ scopes[L] \in Scope /\ nDecls + 1 \in Nat /\ scopes \in Seq(Scope)
  BY DEF TypeOK
<1>2. /\ s \in Scope
      /\ s.block = scopes[L].block /\ s.at = scopes[L].at /\ s.table = scopes[L].table
      /\ \A m \in Names : s.binds[m] = IF m = n THEN nDecls + 1 ELSE scopes[L].binds[m]
  BY <1>1 DEF Scope, Tables
<1>3. scopes' = [scopes EXCEPT ![L] = s]
  BY <1>1 DEF Declare, Scope
<1>. HIDE DEF s
<1>4. Len(scopes') = L /\ scopes' \in Seq(Scope) /\ scopes'[L] = s
  BY <1>1, <1>2, <1>3
<1>5. \A k \in 1 .. L : k # L => scopes'[k] = scopes[k]
  BY <1>1, <1>3
<1>. QED
  BY <1>2, <1>4, <1>5

\* A declaration in a block.
LEMMA DeclareStep ==
  ASSUME IInv, NEW n \in Names, Declare(n)
  PROVE  IInv'
<1>. USE DEF IInv
<1>0. /\ Len(scopes) \in Nat \ {0} /\ nDecls + 1 \in Nat \ {0} /\ inFor' = inFor
      /\ scopes[Len(scopes)].block
  BY DEF TypeOK, Declare, Current
<1>1. /\ Len(scopes') = Len(scopes) /\ scopes' \in Seq(Scope)
      /\ \A k \in 1 .. Len(scopes) :
           /\ scopes'[k].block = scopes[k].block /\ scopes'[k].at = scopes[k].at
           /\ scopes'[k].table = scopes[k].table
           /\ \A m \in Names :
                scopes'[k].binds[m] = IF k = Len(scopes) /\ m = n THEN nDecls + 1
                                      ELSE scopes[k].binds[m]
  BY DeclaredScopes
<1>2. /\ scope_top' = Append(scope_top, [name |-> n, old |-> syms[n]])
      /\ syms' = [syms EXCEPT ![n] = nDecls + 1]
      /\ syms' \in Tables /\ scope_top' \in Seq(SymSave)
      /\ Len(scope_top') = Len(scope_top) + 1
      /\ scope_top'[Len(scope_top) + 1].name = n
      /\ \A i \in 1 .. Len(scope_top) : scope_top'[i] = scope_top[i]
  BY <1>0 DEF Declare, sym_add, TypeOK, Tables, SymSave
<1>3. TypeOK'
  <2>1. MarkersOf(scope_top') = MarkersOf(scope_top)
    BY <1>2, ScopesAssumption DEF MarkersOf, TypeOK
  <2>. QED
    BY <1>0, <1>1, <1>2, <2>1, SMTT(30) DEF TypeOK, Declare
<1>4. MarksInOrder'
  <2>1. \A k \in 1 .. Len(scopes) : scopes[k].at \in 0 .. Len(scope_top)
    BY ScopeParts
  <2>2. Len(scope_top) \in Nat
    BY DEF TypeOK
  <2>3. scopes'[1].block
    BY <1>0, <1>1 DEF MarksInOrder
  <2>4. \A k \in 1 .. Len(scopes) : scopes'[k].at <= Len(scope_top')
    BY <1>1, <1>2, <2>1, <2>2
  <2>5. \A k \in 2 .. Len(scopes) : \A j \in 1 .. k - 1 :
          /\ scopes'[j].at <= scopes'[k].at
          /\ scopes'[k].block => scopes'[j].at < scopes'[k].at
    BY <1>0, <1>1 DEF MarksInOrder
  <2>. QED
    BY <1>1, <2>3, <2>4, <2>5 DEF MarksInOrder
<1>5. EachGivesBack'
  <2>. SUFFICES ASSUME NEW k \in 2 .. Len(scopes'), scopes'[k].block,
                       NEW m \in Names, scopes'[k].table[m] # 0
                PROVE  Restored(scope_top', syms', scopes'[k].at)[m] = scopes'[k].table[m]
    BY DEF EachGivesBack
  <2>0. nDecls + 1 \in Nat /\ scope_top \in Seq(SymSave) /\ syms \in Tables
    BY DEF TypeOK
  <2>1. scopes[k].at \in 0 .. Len(scope_top)
    BY <1>0, <1>1, ScopeParts
  <2>2. Restored(scope_top, syms, scopes[k].at)[m] = scopes[k].table[m]
    BY <1>0, <1>1 DEF EachGivesBack
  <2>3. Restored(scope_top, syms, scopes[k].at)[m] # 0
    BY <1>0, <1>1, <2>2
  <2>4. Restored(Append(scope_top, [name |-> n, old |-> syms[n]]),
                 [syms EXCEPT ![n] = nDecls + 1], scopes[k].at)[m]
          = Restored(scope_top, syms, scopes[k].at)[m]
    BY <2>0, <2>1, <2>3, AddKeeps
  <2>. QED
    BY <1>0, <1>1, <1>2, <2>2, <2>4
<1>6. EachWasResolved'
  BY <1>0, <1>1 DEF EachWasResolved
<1>7. LocalsResolve'
  BY <1>0, <1>1, <1>2, SMTT(30) DEF LocalsResolve, Current, Tables
<1>. QED
  BY <1>3, <1>4, <1>5, <1>6, <1>7

\* A scope that is opened comes last.
LEMMA NewScopeInOrder ==
  ASSUME TypeOK, MarksInOrder,
         Len(scopes') = Len(scopes) + 1,
         \A k \in 1 .. Len(scopes) : scopes'[k] = scopes[k],
         NEW at \in Nat, scopes'[Len(scopes) + 1].at = at,
         Len(scope_top') \in Nat, at <= Len(scope_top'), Len(scope_top) <= at,
         scopes'[Len(scopes) + 1].block => Len(scope_top) < at
  PROVE  MarksInOrder'
<1>. DEFINE L == Len(scopes)
<1>0. L \in Nat \ {0} /\ Len(scope_top) \in Nat
  BY DEF TypeOK
<1>1. \A k \in 1 .. L : scopes[k].at \in 0 .. Len(scope_top)
  BY ScopeParts
<1>2. scopes'[1].block
  BY <1>0 DEF MarksInOrder
<1>3. \A k \in 1 .. L + 1 : scopes'[k].at <= Len(scope_top')
  <2>. TAKE k \in 1 .. L + 1
  <2>1. k \in 1 .. L \/ k = L + 1
    BY <1>0
  <2>. QED
    BY <1>0, <1>1, <2>1
<1>4. ASSUME NEW k \in 2 .. L + 1, NEW j \in 1 .. k - 1
      PROVE  /\ scopes'[j].at <= scopes'[k].at
             /\ scopes'[k].block => scopes'[j].at < scopes'[k].at
  <2>1. j \in 1 .. L /\ scopes'[j] = scopes[j] /\ scopes[j].at \in 0 .. Len(scope_top)
    BY <1>0, <1>1
  <2>2. CASE k = L + 1
    BY <1>0, <2>1, <2>2
  <2>3. CASE k # L + 1
    <3>1. k \in 2 .. L /\ scopes'[k] = scopes[k]
      BY <1>0, <2>3
    <3>. QED
      BY <2>1, <3>1 DEF MarksInOrder
  <2>. QED
    BY <2>2, <2>3
<1>. QED
  BY <1>2, <1>3, <1>4 DEF MarksInOrder

\* A for statement that declares a variable.
LEMMA OpenForStep ==
  ASSUME IInv, NEW n \in Names, OpenFor(n)
  PROVE  IInv'
<1>. USE DEF IInv
<1>. DEFINE L == Len(scopes)
            new == [block |-> FALSE, at |-> Len(scope_top),
                    binds |-> [Current.binds EXCEPT ![n] = nDecls + 1], table |-> syms]
<1>0. /\ L \in Nat \ {0} /\ nDecls + 1 \in Nat \ {0} /\ inFor' = inFor \cup {n}
      /\ Len(scope_top) \in Nat /\ scope_top \in Seq(SymSave) /\ syms \in Tables
      /\ Current.binds \in Tables
  BY ScopeParts DEF TypeOK, OpenFor, Current
<1>1. /\ Len(scopes') = L + 1 /\ scopes' \in Seq(Scope) /\ scopes'[L + 1] = new
      /\ \A k \in 1 .. L : scopes'[k] = scopes[k]
  BY <1>0 DEF OpenFor, TypeOK, Scope, Tables
<1>1a. /\ ~new.block /\ new.at = Len(scope_top) /\ new.table = syms
       /\ \A m \in Names : new.binds[m] = IF m = n THEN nDecls + 1 ELSE scopes[L].binds[m]
  BY <1>0 DEF Current, Tables
<1>. HIDE DEF new
<1>2. /\ scope_top' = Append(scope_top, [name |-> n, old |-> syms[n]])
      /\ syms' = [syms EXCEPT ![n] = nDecls + 1]
      /\ syms' \in Tables /\ scope_top' \in Seq(SymSave)
      /\ Len(scope_top') = Len(scope_top) + 1
      /\ scope_top'[Len(scope_top) + 1].name = n
      /\ \A i \in 1 .. Len(scope_top) : scope_top'[i] = scope_top[i]
  BY <1>0 DEF OpenFor, sym_add, Tables, SymSave
<1>3. TypeOK'
  <2>1. MarkersOf(scope_top') = MarkersOf(scope_top)
    BY <1>0, <1>2, ScopesAssumption DEF MarkersOf
  <2>2. {scopes'[k].at : k \in {j \in 2 .. Len(scopes') : scopes'[j].block}}
          = {scopes[k].at : k \in {j \in 2 .. L : scopes[j].block}}
    BY <1>0, <1>1, <1>1a
  <2>. QED
    BY <1>0, <1>1, <1>2, <2>1, <2>2 DEF TypeOK, OpenFor
<1>4. MarksInOrder'
  BY <1>0, <1>1, <1>1a, <1>2, NewScopeInOrder
<1>5. EachGivesBack'
  <2>. SUFFICES ASSUME NEW k \in 2 .. Len(scopes'), scopes'[k].block,
                       NEW m \in Names, scopes'[k].table[m] # 0
                PROVE  Restored(scope_top', syms', scopes'[k].at)[m] = scopes'[k].table[m]
    BY DEF EachGivesBack
  <2>0. k \in 2 .. L
    BY <1>0, <1>1, <1>1a
  <2>1. scopes[k].at \in 0 .. Len(scope_top)
    BY <2>0, ScopeParts
  <2>2. Restored(scope_top, syms, scopes[k].at)[m] = scopes[k].table[m]
    BY <1>1, <2>0 DEF EachGivesBack
  <2>3. Restored(scope_top, syms, scopes[k].at)[m] # 0
    BY <1>1, <2>0, <2>2
  <2>4. Restored(Append(scope_top, [name |-> n, old |-> syms[n]]),
                 [syms EXCEPT ![n] = nDecls + 1], scopes[k].at)[m]
          = Restored(scope_top, syms, scopes[k].at)[m]
    BY <1>0, <2>1, <2>3, AddKeeps
  <2>. QED
    BY <1>1, <1>2, <2>0, <2>2, <2>4
<1>6. EachWasResolved'
  <2>. SUFFICES ASSUME NEW k \in 2 .. L + 1, NEW m \in Names \ inFor'
                PROVE  IF scopes'[k].block
                       THEN scopes'[k - 1].binds[m] # 0
                              => scopes'[k].table[m] = scopes'[k - 1].binds[m]
                       ELSE scopes'[k].binds[m] = scopes'[k - 1].binds[m]
    BY <1>1 DEF EachWasResolved
  <2>1. CASE k = L + 1
    BY <1>0, <1>1, <1>1a, <2>1
  <2>2. CASE k # L + 1
    <3>1. k \in 2 .. L /\ k - 1 \in 1 .. L /\ k \in 1 .. L
      BY <1>0, <2>2
    <3>. QED
      BY <1>0, <1>1, <3>1 DEF EachWasResolved
  <2>. QED
    BY <2>1, <2>2
<1>7. LocalsResolve'
  <2>1. Current' = new
    BY <1>1 DEF Current
  <2>. QED
    BY <1>0, <1>1a, <1>2, <2>1 DEF LocalsResolve, Current, Tables
<1>. QED
  BY <1>3, <1>4, <1>5, <1>6, <1>7

\* sym_scope_push.
LEMMA OpenBlockStep ==
  ASSUME IInv, OpenBlock
  PROVE  IInv'
<1>. USE DEF IInv
<1>. DEFINE L == Len(scopes)
            P == Len(scope_top) + 1
            new == [block |-> TRUE, at |-> P, binds |-> Current.binds, table |-> syms]
<1>0. /\ L \in Nat \ {0} /\ Len(scope_top) \in Nat /\ scope_top \in Seq(SymSave)
      /\ syms \in Tables /\ Current.binds \in Tables
  BY ScopeParts DEF TypeOK, Current
<1>1. /\ Len(scopes') = L + 1 /\ scopes' \in Seq(Scope) /\ scopes'[L + 1] = new
      /\ \A k \in 1 .. L : scopes'[k] = scopes[k]
  BY <1>0 DEF OpenBlock, TypeOK, Scope
<1>1a. new.block /\ new.at = P /\ new.binds = scopes[L].binds /\ new.table = syms
  BY DEF Current
<1>. HIDE DEF new
<1>2. /\ scope_top' = Append(scope_top, [name |-> Marker, old |-> 0])
      /\ syms' = syms /\ inFor' = inFor
      /\ scope_top' \in Seq(SymSave)
      /\ Len(scope_top') = P /\ scope_top'[P].name = Marker
      /\ \A i \in 1 .. Len(scope_top) : scope_top'[i] = scope_top[i]
  BY <1>0 DEF OpenBlock, SymSave
<1>3. TypeOK'
  <2>1. MarkersOf(scope_top') = MarkersOf(scope_top) \cup {P}
    BY <1>0, <1>2 DEF MarkersOf
  <2>2. {scopes'[k].at : k \in {j \in 2 .. Len(scopes') : scopes'[j].block}}
          = {scopes[k].at : k \in {j \in 2 .. L : scopes[j].block}} \cup {P}
    BY <1>0, <1>1, <1>1a
  <2>. QED
    BY <1>0, <1>1, <1>2, <2>1, <2>2 DEF TypeOK, OpenBlock
<1>4. MarksInOrder'
  BY <1>0, <1>1, <1>1a, <1>2, NewScopeInOrder
<1>5. EachGivesBack'
  <2>. SUFFICES ASSUME NEW k \in 2 .. Len(scopes'), scopes'[k].block,
                       NEW m \in Names, scopes'[k].table[m] # 0
                PROVE  Restored(scope_top', syms', scopes'[k].at)[m] = scopes'[k].table[m]
    BY DEF EachGivesBack
  <2>1. CASE k = L + 1
    <3>1. Restored(scope_top', syms', P) = syms
      BY <1>0, <1>2, MarkKeeps
    <3>. QED
      BY <1>1, <1>1a, <2>1, <3>1
  <2>2. CASE k # L + 1
    <3>1. k \in 2 .. L
      BY <1>0, <1>1, <2>2
    <3>2. scopes[k].at \in 0 .. Len(scope_top)
      BY <3>1, ScopeParts
    <3>3. Restored(scope_top', syms', scopes[k].at) = Restored(scope_top, syms, scopes[k].at)
      BY <1>0, <1>2, <3>2, MarkKeeps
    <3>. QED
      BY <1>1, <3>1, <3>3 DEF EachGivesBack
  <2>. QED
    BY <2>1, <2>2
<1>6. EachWasResolved'
  <2>. SUFFICES ASSUME NEW k \in 2 .. L + 1, NEW m \in Names \ inFor
                PROVE  IF scopes'[k].block
                       THEN scopes'[k - 1].binds[m] # 0
                              => scopes'[k].table[m] = scopes'[k - 1].binds[m]
                       ELSE scopes'[k].binds[m] = scopes'[k - 1].binds[m]
    BY <1>1, <1>2 DEF EachWasResolved
  <2>1. CASE k = L + 1
    <3>1. scopes[L].binds[m] # 0 => syms[m] = scopes[L].binds[m]
      BY DEF LocalsResolve, Current
    <3>. QED
      BY <1>0, <1>1, <1>1a, <2>1, <3>1
  <2>2. CASE k # L + 1
    <3>1. k \in 2 .. L /\ k - 1 \in 1 .. L /\ k \in 1 .. L
      BY <1>0, <2>2
    <3>. QED
      BY <1>1, <3>1 DEF EachWasResolved
  <2>. QED
    BY <2>1, <2>2
<1>7. LocalsResolve'
  BY <1>1, <1>1a, <1>2 DEF LocalsResolve, Current
<1>. QED
  BY <1>3, <1>4, <1>5, <1>6, <1>7

\* What the scopes around the current one keep when it is closed.
LEMMA Outer ==
  ASSUME TypeOK, Len(scopes) > 1, scopes' = Outside
  PROVE  /\ Len(scopes') = Len(scopes) - 1 /\ scopes' \in Seq(Scope)
         /\ \A k \in 1 .. Len(scopes) - 1 : scopes'[k] = scopes[k]
BY DEF TypeOK, Outside

\* The mark of the current block is the last one.
LEMMA CurrentMark ==
  ASSUME TypeOK, MarksInOrder, Len(scopes) > 1, Current.block
  PROVE  /\ LastMarker(scope_top) = Current.at
         /\ Current.at \in 1 .. Len(scope_top) /\ scope_top[Current.at].name = Marker
<1>. DEFINE L == Len(scopes)
            Ats == {scopes[k].at : k \in {j \in 2 .. L : scopes[j].block}}
<1>0. L \in 2 .. L /\ Current = scopes[L] /\ MarkersOf(scope_top) = Ats
  BY DEF TypeOK, Current
<1>1. scopes[L].at \in Ats
  BY <1>0
<1>2. \A i \in Ats : i <= scopes[L].at /\ i \in Nat
  <2>. TAKE i \in Ats
  <2>1. PICK k \in 2 .. L : scopes[k].block /\ scopes[k].at = i
    OBVIOUS
  <2>2. scopes[k].at \in 0 .. Len(scope_top) /\ scopes[L].at \in 0 .. Len(scope_top)
    BY <1>0, <2>1, ScopeParts
  <2>3. k = L \/ (k \in 1 .. L - 1 /\ scopes[k].at <= scopes[L].at)
    BY <1>0, <2>1 DEF MarksInOrder
  <2>. QED
    BY <2>1, <2>2, <2>3
<1>3. LastMarker(scope_top) = scopes[L].at
  BY <1>0, <1>1, <1>2 DEF LastMarker
<1>4. scopes[L].at \in DOMAIN scope_top /\ scope_top[scopes[L].at].name = Marker
  BY <1>0, <1>1 DEF MarkersOf
<1>. QED
  BY <1>0, <1>3, <1>4 DEF TypeOK

\* sym_scope_pop gives back what the block found.
LEMMA PopGivesBack ==
  ASSUME IInv, CloseBlock
  PROVE  \A n \in Names : Current.table[n] # 0 => syms'[n] = Current.table[n]
<1>1. syms' = Restored(scope_top, syms, Current.at)
  BY CurrentMark DEF IInv, CloseBlock, sym_scope_pop
<1>2. Len(scopes) \in 2 .. Len(scopes)
  BY DEF IInv, TypeOK, CloseBlock
<1>. QED
  BY <1>1, <1>2 DEF IInv, EachGivesBack, CloseBlock, Current

LEMMA CloseBlockStep ==
  ASSUME IInv, CloseBlock
  PROVE  IInv'
<1>. USE DEF IInv
<1>. DEFINE L == Len(scopes)
            P == Current.at
<1>0. /\ L \in Nat /\ L > 1 /\ scopes[L].block /\ Current = scopes[L]
      /\ scope_top \in Seq(SymSave) /\ syms \in Tables
      /\ P \in 1 .. Len(scope_top) /\ scope_top[P].name = Marker
      /\ LastMarker(scope_top) = P
  BY CurrentMark DEF TypeOK, CloseBlock, Current
<1>1. /\ Len(scopes') = L - 1 /\ scopes' \in Seq(Scope)
      /\ \A k \in 1 .. L - 1 : scopes'[k] = scopes[k]
  BY Outer DEF CloseBlock
<1>2. /\ scope_top' = SubSeq(scope_top, 1, P - 1)
      /\ syms' = Restored(scope_top, syms, P)
      /\ nDecls' = nDecls /\ inFor' = inFor
  BY <1>0 DEF CloseBlock, sym_scope_pop
<1>3. /\ scope_top' \in Seq(SymSave) /\ Len(scope_top') = P - 1
      /\ \A i \in 1 .. P - 1 : scope_top'[i] = scope_top[i]
  BY <1>0, <1>2
<1>4. \A k \in 1 .. L - 1 : scopes[k].at \in 0 .. P - 1
  <2>. TAKE k \in 1 .. L - 1
  <2>1. scopes[k].at \in Nat
    BY <1>0, ScopeParts
  <2>. QED
    BY <1>0, <2>1 DEF MarksInOrder
<1>5. TypeOK'
  <2>1. syms' \in Tables
    BY <1>0, <1>2, RestoredType
  <2>2. MarkersOf(scope_top') = MarkersOf(scope_top) \cap (1 .. P - 1)
    BY <1>0, <1>3 DEF MarkersOf
  <2>3. MarkersOf(scope_top) = {scopes[k].at : k \in {j \in 2 .. L : scopes[j].block}}
    BY DEF TypeOK
  <2>4. \A k \in {j \in 2 .. L : scopes[j].block} :
          scopes[k].at \in 1 .. P - 1 <=> k \in 2 .. L - 1
    <3>1. \A k \in {j \in 2 .. L : scopes[j].block} : scopes[k].at \in MarkersOf(scope_top)
      BY <2>3
    <3>2. \A i \in MarkersOf(scope_top) : i \in 1 .. Len(scope_top)
      BY <1>0 DEF MarkersOf
    <3>. QED
      BY <1>0, <1>4, <3>1, <3>2, SMTT(30)
  <2>5. MarkersOf(scope_top')
          = {scopes'[k].at : k \in {j \in 2 .. L - 1 : scopes'[j].block}}
    <3>1. ASSUME NEW i \in MarkersOf(scope_top')
          PROVE  \E k \in 2 .. L - 1 : scopes'[k].block /\ i = scopes'[k].at
      <4>1. i \in MarkersOf(scope_top) /\ i \in 1 .. P - 1
        BY <2>2
      <4>2. PICK k \in {j \in 2 .. L : scopes[j].block} : i = scopes[k].at
        BY <2>3, <4>1
      <4>3. k \in 2 .. L - 1
        BY <2>4, <4>1, <4>2
      <4>4. k \in 1 .. L - 1
        BY <1>0, <4>3
      <4>. QED
        BY <1>1, <4>2, <4>3, <4>4
    <3>2. ASSUME NEW k \in 2 .. L - 1, scopes'[k].block
          PROVE  scopes'[k].at \in MarkersOf(scope_top')
      <4>1. k \in 1 .. L - 1 /\ k \in 2 .. L
        BY <1>0
      <4>2. scopes'[k] = scopes[k]
        BY <1>1, <4>1
      <4>3. scopes[k].block
        BY <3>2, <4>2
      <4>4. scopes[k].at \in MarkersOf(scope_top)
        BY <2>3, <4>1, <4>3
      <4>5. scopes[k].at \in 1 .. P - 1
        BY <2>4, <4>1, <4>3
      <4>. QED
        BY <2>2, <4>2, <4>4, <4>5
    <3>. QED
      BY <3>1, <3>2
  <2>. QED
    BY <1>0, <1>1, <1>2, <1>3, <2>1, <2>5 DEF TypeOK
<1>6. MarksInOrder'
  <2>1. \A k \in 1 .. L - 1 : scopes'[k].at <= P - 1
    BY <1>0, <1>1, <1>4
  <2>2. scopes'[1].block
    BY <1>0, <1>1 DEF MarksInOrder
  <2>3. ASSUME NEW k \in 2 .. L - 1, NEW j \in 1 .. k - 1
        PROVE  /\ scopes'[j].at <= scopes'[k].at
               /\ scopes'[k].block => scopes'[j].at < scopes'[k].at
    <3>1. k \in 1 .. L - 1 /\ j \in 1 .. L - 1 /\ k \in 2 .. L
      BY <1>0
    <3>2. scopes'[k] = scopes[k] /\ scopes'[j] = scopes[j]
      BY <1>1, <3>1
    <3>3. /\ scopes[j].at <= scopes[k].at
          /\ scopes[k].block => scopes[j].at < scopes[k].at
      BY <3>1 DEF MarksInOrder
    <3>. QED
      BY <3>2, <3>3
  <2>4. Len(scopes') = L - 1 /\ Len(scope_top') = P - 1
    BY <1>1, <1>3
  <2>. HIDE DEF P
  <2>. QED
    BY <2>1, <2>2, <2>3, <2>4 DEF MarksInOrder
<1>7. EachGivesBack'
  <2>. SUFFICES ASSUME NEW k \in 2 .. L - 1, scopes[k].block
                PROVE  Restored(scope_top', syms', scopes[k].at)
                         = Restored(scope_top, syms, scopes[k].at)
    BY <1>0, <1>1 DEF EachGivesBack
  <2>1. scopes[k].at \in 0 .. P - 1
    BY <1>0, <1>4
  <2>. QED
    BY <1>0, <1>2, <2>1, PopKeeps
<1>8. EachWasResolved'
  BY <1>0, <1>1, <1>2 DEF EachWasResolved
<1>9. LocalsResolve'
  <2>1. \A n \in Names \ inFor :
          scopes[L - 1].binds[n] # 0 => scopes[L].table[n] = scopes[L - 1].binds[n]
    BY <1>0 DEF EachWasResolved
  <2>2. Current' = scopes[L - 1]
    BY <1>0, <1>1 DEF Current
  <2>. QED
    BY <1>0, <1>2, <2>1, <2>2, PopGivesBack DEF LocalsResolve
<1>. QED
  BY <1>5, <1>6, <1>7, <1>8, <1>9

\* The end of a for statement.
LEMMA CloseForStep ==
  ASSUME IInv, CloseFor
  PROVE  IInv'
<1>. USE DEF IInv
<1>. DEFINE L == Len(scopes)
<1>0. L \in Nat /\ L > 1 /\ ~scopes[L].block /\ Current = scopes[L]
  BY DEF TypeOK, CloseFor, Current, MarksInOrder
<1>1. /\ Len(scopes') = L - 1 /\ scopes' \in Seq(Scope)
      /\ \A k \in 1 .. L - 1 : scopes'[k] = scopes[k]
  BY <1>0, Outer DEF CloseFor
<1>2. syms' = syms /\ scope_top' = scope_top /\ nDecls' = nDecls /\ inFor' = inFor
  BY DEF CloseFor
<1>3. TypeOK'
  <2>1. {scopes'[k].at : k \in {j \in 2 .. L - 1 : scopes'[j].block}}
          = {scopes[k].at : k \in {j \in 2 .. L : scopes[j].block}}
    BY <1>0, <1>1
  <2>. QED
    BY <1>0, <1>1, <1>2, <2>1 DEF TypeOK
<1>4. MarksInOrder' /\ EachGivesBack' /\ EachWasResolved'
  <2>1. MarksInOrder'
    BY <1>0, <1>1, <1>2 DEF MarksInOrder
  <2>2. EachGivesBack'
    BY <1>0, <1>1, <1>2 DEF EachGivesBack
  <2>3. EachWasResolved'
    BY <1>0, <1>1, <1>2 DEF EachWasResolved
  <2>. QED
    BY <2>1, <2>2, <2>3
<1>5. LocalsResolve'
  <2>1. \A n \in Names \ inFor : scopes[L].binds[n] = scopes[L - 1].binds[n]
    BY <1>0 DEF EachWasResolved
  <2>2. Current' = scopes[L - 1]
    BY <1>0, <1>1 DEF Current
  <2>. QED
    BY <1>0, <1>2, <2>1, <2>2 DEF LocalsResolve
<1>. QED
  BY <1>3, <1>4, <1>5

\* IInv is inductive.
LEMMA Inductive == Spec => []IInv
<1>1. IInv /\ [Next]_vars => IInv'
  <2>. SUFFICES ASSUME IInv, [Next]_vars PROVE IInv'
    OBVIOUS
  <2>1. CASE UNCHANGED vars
    BY <2>1 DEF vars, IInv, TypeOK, MarksInOrder, EachGivesBack, EachWasResolved,
                LocalsResolve, Current
  <2>2. CASE Next
    BY <2>2, DeclareStep, OpenForStep, OpenBlockStep, CloseBlockStep, CloseForStep DEF Next
  <2>. QED
    BY <2>1, <2>2
<1>. QED
  BY <1>1, InitInv, PTL DEF Spec

\* The lists of ir_gen.c stay well-formed, with a mark for each open block.
THEOREM ListsWellFormed == Spec => []TypeOK
BY Inductive, PTL DEF IInv

\* Wherever an open scope declares a name, the table holds the declaration C
\* gives it, for names that no for statement has declared.
THEOREM NamesResolve == Spec => []LocalsResolve
BY Inductive, PTL DEF IInv

\* sym_scope_pop gives back every binding its block found.
THEOREM BlocksGiveBack == Spec => BlockGivesBack
<1>1. IInv => [CloseBlock => \A n \in Names : Current.table[n] # 0 => syms'[n] = Current.table[n]]_vars
  BY PopGivesBack
<1>. QED
  BY <1>1, Inductive, PTL DEF BlockGivesBack
=============================================================================

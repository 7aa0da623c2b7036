---------------------------- MODULE HashMapProofs ----------------------------
(***************************************************************************)
(* The hash map of base/hash.c is a dictionary, for every set of keys and  *)
(* every hash function.                                                    *)
(***************************************************************************)
EXTENDS HashMap, LeastElement, FiniteSetTheorems

Caps == Nat \ {0}

\* A key has one slot at most, and no unused slot lies between the home slot
\* of a key and the one that it has.
Good(t, c) ==
  /\ \A i, j \in Used(t, c) : t[i].key = t[j].key => i = j
  /\ \A i \in Used(t, c), j \in 0 .. c - 1 :
       Dist(t[i].key, j, c) < Dist(t[i].key, i, c) => j \in Used(t, c)

\* No slot has key k.
Lacks(t, c, k) == \A i \in Used(t, c) : t[i].key # k

(***************************************************************************)
(* Distances                                                               *)
(***************************************************************************)

\* The distance from a home slot tells the slots apart.
LEMMA DistType ==
  ASSUME NEW c \in Caps, NEW k \in Keys, NEW i \in 0 .. c - 1
  PROVE  Dist(k, i, c) \in Nat
<1>. DEFINE home == Hash[k] % c
<1>1. home \in 0 .. c - 1
  <2>1. Hash[k] \in Nat
    BY HashMapAssumption
  <2>. QED
    BY <2>1 DEF Caps
<1>. HIDE DEF home
<1>2. (IF i >= home THEN i - home ELSE i + c - home) \in Nat
  BY <1>1 DEF Caps
<1>. QED
  BY <1>2 DEF Dist, home

LEMMA DistInjective ==
  ASSUME NEW c \in Caps, NEW k \in Keys, NEW i \in 0 .. c - 1, NEW j \in 0 .. c - 1,
         Dist(k, i, c) = Dist(k, j, c)
  PROVE  i = j
<1>. DEFINE home == Hash[k] % c
            d(x) == IF x >= home THEN x - home ELSE x + c - home
<1>1. home \in 0 .. c - 1
  <2>1. Hash[k] \in Nat
    BY HashMapAssumption
  <2>. QED
    BY <2>1 DEF Caps
<1>2. d(i) = d(j)
  BY DEF Dist
<1>. HIDE DEF home
<1>. QED
  BY <1>1, <1>2 DEF Caps

\* Of some slots one is nearest to the home slot.
LEMMA NearestExists ==
  ASSUME NEW c \in Caps, NEW k \in Keys, NEW S \in SUBSET (0 .. c - 1), S # {}
  PROVE  \E i \in S : \A j \in S : Dist(k, i, c) <= Dist(k, j, c)
<1>. DEFINE D == {Dist(k, i, c) : i \in S}
<1>1. D \in SUBSET Nat /\ D # {}
  BY DistType
<1>. HIDE DEF D
<1>2. PICK d \in D : \A e \in D : d <= e
  BY <1>1, LeastExists
<1>3. PICK i \in S : d = Dist(k, i, c)
  BY DEF D
<1>4. \A j \in S : Dist(k, j, c) \in D
  BY DEF D
<1>. QED
  BY <1>2, <1>3, <1>4

\* A search stops at the nearest of the slots where it may stop.
LEMMA FirstIsNearest ==
  ASSUME NEW c \in Caps, NEW t, NEW k \in Keys, Stops(t, c, k) # {}
  PROVE  /\ First(t, c, k) \in Stops(t, c, k) /\ First(t, c, k) \in 0 .. c - 1
         /\ \A j \in Stops(t, c, k) : Dist(k, First(t, c, k), c) <= Dist(k, j, c)
<1>1. Stops(t, c, k) \in SUBSET (0 .. c - 1)
  BY DEF Stops
<1>2. \E i \in Stops(t, c, k) : \A j \in Stops(t, c, k) : Dist(k, i, c) <= Dist(k, j, c)
  BY <1>1, NearestExists
<1>. QED
  BY <1>1, <1>2 DEF First

(***************************************************************************)
(* Searches                                                                *)
(***************************************************************************)

\* What a slot of a table may hold.
LEMMA Slots ==
  ASSUME NEW c \in Nat, NEW t \in Tables(c), NEW i \in Used(t, c)
  PROVE  i \in 0 .. c - 1 /\ t[i] \in Entry /\ t[i].key \in Keys /\ t[i].value \in Values
BY DEF Tables, Used, Entry

\* hashmap_get finds the key that is in a slot.
LEMMA GetFound ==
  ASSUME NEW c \in Caps, NEW t \in Tables(c), Good(t, c), NEW i \in Used(t, c)
  PROVE  /\ Stops(t, c, t[i].key) # {} /\ First(t, c, t[i].key) = i
         /\ hashmap_get(t, c, t[i].key) = t[i].value
<1>. DEFINE k == t[i].key
            f == First(t, c, k)
<1>1. i \in 0 .. c - 1 /\ k \in Keys /\ t[i] # Unused
  BY Slots DEF Caps, Used
<1>2. i \in Stops(t, c, k)
  BY <1>1 DEF Stops
<1>3. f \in Stops(t, c, k) /\ f \in 0 .. c - 1 /\ Dist(k, f, c) <= Dist(k, i, c)
  BY <1>1, <1>2, FirstIsNearest
<1>4. f = i
  <2>1. CASE f \in Used(t, c)
    BY <1>3, <2>1 DEF Good, Stops, Used
  <2>2. CASE f \notin Used(t, c)
    <3>1. f # i
      BY <2>2
    <3>2. Dist(k, f, c) # Dist(k, i, c)
      BY <1>1, <1>3, <3>1, DistInjective
    <3>3. Dist(k, f, c) \in Nat /\ Dist(k, i, c) \in Nat
      BY <1>1, <1>3, DistType
    <3>4. Dist(k, f, c) < Dist(k, i, c)
      BY <1>3, <3>2, <3>3
    <3>. QED
      BY <1>3, <2>2, <3>4 DEF Good
  <2>. QED
    BY <2>1, <2>2
<1>. QED
  BY <1>1, <1>2, <1>4 DEF hashmap_get

\* It finds nothing for a key that is in none.
LEMMA GetMissing ==
  ASSUME NEW c \in Caps, NEW t, NEW k \in Keys, Lacks(t, c, k)
  PROVE  hashmap_get(t, c, k) = NULL
<1>1. CASE Stops(t, c, k) = {}
  BY <1>1 DEF hashmap_get
<1>2. CASE Stops(t, c, k) # {}
  <2>1. First(t, c, k) \in Stops(t, c, k)
    BY <1>2, FirstIsNearest
  <2>2. t[First(t, c, k)] = Unused
    BY <2>1 DEF Stops, Lacks, Used
  <2>. QED
    BY <2>2 DEF hashmap_get
<1>. QED
  BY <1>1, <1>2

\* Tables with the same entries are the same dictionary.
LEMMA SameEntries ==
  ASSUME NEW c \in Caps, NEW t \in Tables(c), Good(t, c),
         NEW d \in Caps, NEW u \in Tables(d), Good(u, d), NEW k \in Keys,
         \A i \in Used(t, c) : t[i].key = k => \E j \in Used(u, d) : u[j] = t[i],
         \A j \in Used(u, d) : u[j].key = k => \E i \in Used(t, c) : t[i] = u[j]
  PROVE  hashmap_get(t, c, k) = hashmap_get(u, d, k)
<1>1. CASE \E i \in Used(t, c) : t[i].key = k
  <2>1. PICK i \in Used(t, c) : t[i].key = k
    BY <1>1
  <2>2. PICK j \in Used(u, d) : u[j] = t[i]
    BY <2>1
  <2>3. hashmap_get(t, c, k) = t[i].value
    BY <2>1, GetFound
  <2>4. hashmap_get(u, d, k) = u[j].value
    BY <2>1, <2>2, GetFound
  <2>. QED
    BY <2>2, <2>3, <2>4
<1>2. CASE ~ \E i \in Used(t, c) : t[i].key = k
  <2>1. Lacks(t, c, k) /\ Lacks(u, d, k)
    BY <1>2 DEF Lacks
  <2>. QED
    BY <2>1, GetMissing
<1>. QED
  BY <1>1, <1>2

(***************************************************************************)
(* Insertions                                                              *)
(***************************************************************************)

\* The table with an entry written where the search for its key stops.
Written(t, c, k, v) == [t EXCEPT ![First(t, c, k)] = [key |-> k, value |-> v]]

\* The table stays good, and the other keys keep their slots.
LEMMA WriteKeeps ==
  ASSUME NEW c \in Caps, NEW t \in Tables(c), Good(t, c),
         NEW k \in Keys, NEW v \in Values, Stops(t, c, k) # {},
         NEW u, u = Written(t, c, k, v)
  PROVE  /\ u \in Tables(c) /\ Good(u, c)
         /\ Used(u, c) = Used(t, c) \cup {First(t, c, k)}
         /\ u[First(t, c, k)] = [key |-> k, value |-> v]
         /\ \A j \in Used(t, c) : t[j].key # k => u[j] = t[j]
         /\ \A j \in Used(u, c) : u[j].key # k => j \in Used(t, c) /\ u[j] = t[j]
<1>. DEFINE e == [key |-> k, value |-> v]
            i == First(t, c, k)
<1>1. e \in Entry /\ e # Unused /\ e.key = k
  BY HashMapAssumption DEF Entry
<1>2. /\ i \in Stops(t, c, k) /\ i \in 0 .. c - 1
      /\ \A j \in Stops(t, c, k) : Dist(k, i, c) <= Dist(k, j, c)
  BY <1>1, FirstIsNearest
<1>. HIDE DEF i
<1>3. u \in Tables(c) /\ u[i] = e /\ \A j \in 0 .. c - 1 : j # i => u[j] = t[j]
  BY <1>1, <1>2 DEF Tables, i, Written
<1>4. Used(u, c) = Used(t, c) \cup {i}
  BY <1>1, <1>2, <1>3 DEF Used
<1>5. \A j \in Used(t, c) : t[j].key = k => j = i
  <2>. SUFFICES ASSUME NEW j \in Used(t, c), t[j].key = k PROVE j = i
    OBVIOUS
  <2>. QED
    BY GetFound DEF i
<1>6. \A j \in Used(t, c) : t[j].key # k => j # i
  BY <1>2 DEF Stops, Used
<1>7. ASSUME NEW j \in Used(u, c), j # i
      PROVE  j \in Used(t, c) /\ u[j] = t[j] /\ u[j].key # k
  <2>1. j \in Used(t, c) /\ j \in 0 .. c - 1
    BY <1>4, <1>7 DEF Used
  <2>. QED
    BY <1>3, <1>5, <1>7, <2>1
<1>8. \A x, y \in Used(u, c) : u[x].key = u[y].key => x = y
  <2>. SUFFICES ASSUME NEW x \in Used(u, c), NEW y \in Used(u, c), u[x].key = u[y].key
                PROVE  x = y
    OBVIOUS
  <2>1. CASE x # i /\ y # i
    BY <1>7, <2>1 DEF Good
  <2>2. CASE x = i \/ y = i
    BY <1>3, <1>7, <2>2
  <2>. QED
    BY <2>1, <2>2
<1>9. \A x \in Used(u, c), y \in 0 .. c - 1 :
        Dist(u[x].key, y, c) < Dist(u[x].key, x, c) => y \in Used(u, c)
  <2>. SUFFICES ASSUME NEW x \in Used(u, c), NEW y \in 0 .. c - 1,
                       Dist(u[x].key, y, c) < Dist(u[x].key, x, c)
                PROVE  y \in Used(u, c)
    OBVIOUS
  <2>1. CASE x # i
    BY <1>4, <1>7, <2>1 DEF Good
  <2>2. CASE x = i
    <3>1. Dist(k, y, c) < Dist(k, i, c)
      BY <1>3, <2>2
    <3>2. Dist(k, y, c) \in Nat /\ Dist(k, i, c) \in Nat
      BY <1>1, <1>2, DistType
    <3>3. y \notin Stops(t, c, k)
      BY <1>2, <3>1, <3>2
    <3>. QED
      BY <1>4, <3>3 DEF Stops, Used
  <2>. QED
    BY <2>1, <2>2
<1>10. \A j \in Used(t, c) : t[j].key # k => u[j] = t[j]
  BY <1>3, <1>6 DEF Used
<1>11. \A j \in Used(u, c) : u[j].key # k => j \in Used(t, c) /\ u[j] = t[j]
  BY <1>3, <1>7
<1>. QED
  BY <1>3, <1>4, <1>8, <1>9, <1>10, <1>11 DEF Good, i

\* The slot that rehash takes is the one a search for the key would stop at.
LEMMA FreeIsFirst ==
  ASSUME NEW c \in Caps, NEW t, NEW k \in Keys, Lacks(t, c, k), Used(t, c) # 0 .. c - 1
  PROVE  Free(t, c, k) = First(t, c, k) /\ Stops(t, c, k) # {}
         /\ First(t, c, k) \notin Used(t, c)
<1>1. Stops(t, c, k) = {i \in 0 .. c - 1 : t[i] = Unused} /\ Stops(t, c, k) # {}
  BY DEF Lacks, Used, Stops
<1>2. /\ First(t, c, k) \in Stops(t, c, k) /\ First(t, c, k) \in 0 .. c - 1
      /\ \A j \in Stops(t, c, k) : Dist(k, First(t, c, k), c) <= Dist(k, j, c)
  BY <1>1, FirstIsNearest
<1>3. /\ Free(t, c, k) \in Stops(t, c, k) /\ Free(t, c, k) \in 0 .. c - 1
      /\ \A j \in Stops(t, c, k) : Dist(k, Free(t, c, k), c) <= Dist(k, j, c)
  <2>1. \E i \in 0 .. c - 1 :
          /\ t[i] = Unused
          /\ \A j \in 0 .. c - 1 : t[j] = Unused => Dist(k, i, c) <= Dist(k, j, c)
    BY <1>1, <1>2
  <2>2. /\ Free(t, c, k) \in 0 .. c - 1 /\ t[Free(t, c, k)] = Unused
        /\ \A j \in 0 .. c - 1 : t[j] = Unused => Dist(k, Free(t, c, k), c) <= Dist(k, j, c)
    BY <2>1 DEF Free
  <2>. QED
    BY <1>1, <2>2
<1>4. Dist(k, First(t, c, k), c) = Dist(k, Free(t, c, k), c)
  BY <1>2, <1>3, DistType
<1>5. Free(t, c, k) = First(t, c, k)
  BY <1>2, <1>3, <1>4, DistInjective
<1>. QED
  BY <1>1, <1>2, <1>5 DEF Used

\* A table of c slots and what its count says of it.
LEMMA CountUsed ==
  ASSUME NEW c \in Nat, NEW t
  PROVE  /\ IsFiniteSet(Used(t, c)) /\ Cardinality(Used(t, c)) \in Nat
         /\ Cardinality(Used(t, c)) <= c
         /\ Cardinality(Used(t, c)) < c => Used(t, c) # 0 .. c - 1
<1>1. IsFiniteSet(0 .. c - 1) /\ Cardinality(0 .. c - 1) = c
  <2>1. /\ IsFiniteSet(0 .. c - 1)
        /\ Cardinality(0 .. c - 1) = IF 0 > c - 1 THEN 0 ELSE (c - 1) - 0 + 1
    BY FS_Interval
  <2>. QED
    BY <2>1
<1>2. Used(t, c) \in SUBSET (0 .. c - 1)
  BY DEF Used
<1>3. IsFiniteSet(Used(t, c)) /\ Cardinality(Used(t, c)) <= c
  BY <1>1, <1>2, FS_Subset
<1>4. Cardinality(Used(t, c)) \in Nat
  BY <1>3, FS_CardinalityType
<1>. QED
  BY <1>1, <1>3, <1>4

(***************************************************************************)
(* The invariant                                                           *)
(***************************************************************************)

\* While a table is rehashed, the new one holds what the loop has passed.
Halfway ==
  /\ old_cap >= 4 /\ cap = 2 * old_cap /\ Good(old, old_cap)
  /\ len <= next
  /\ \A i \in Used(entries, cap) : \E j \in 0 .. next - 1 : old[j] = entries[i]
  /\ \A j \in 0 .. next - 1 :
       old[j] # Unused => \E i \in Used(entries, cap) : entries[i] = old[j]

MapInv == /\ TypeOK
          /\ Good(entries, cap)
          /\ len = Cardinality(Used(entries, cap))
          /\ pc = "idle" => len < cap
          /\ pc = "insert" => len + 1 < cap
          /\ pc = "rehash" => Halfway

\* A table that is not loaded has room for two more entries.
LEMMA RoomForOne ==
  ASSUME cap \in Nat, cap >= 4, len \in Nat, ~ Loaded
  PROVE  len + 1 < cap
<1>1. MAX_LOAD_PCT \in 1 .. 75
  BY HashMapAssumption
<1>2. cap * MAX_LOAD_PCT <= cap * 75
  BY <1>1
<1>3. len * 100 < cap * 75
  <2>1. cap * MAX_LOAD_PCT \in Nat /\ len * 100 < cap * MAX_LOAD_PCT
    BY <1>1 DEF Loaded
  <2>. QED
    BY <1>2, <2>1
<1>. QED
  BY <1>3

\* A new table is empty.
LEMMA NewTableEmpty ==
  ASSUME NEW c \in Nat
  PROVE  /\ NewTable(c) \in Tables(c) /\ Used(NewTable(c), c) = {}
         /\ Good(NewTable(c), c) /\ Cardinality(Used(NewTable(c), c)) = 0
<1>1. NewTable(c) \in Tables(c) /\ Used(NewTable(c), c) = {}
  BY DEF NewTable, Tables, Used
<1>. QED
  BY <1>1, FS_EmptySet DEF Good

LEMMA NoTable == << >> \in Tables(0)
<1>1. 0 .. 0 - 1 = {} /\ 1 .. 0 = {}
  OBVIOUS
<1>2. << >> = [i \in {} |-> Unused]
  OBVIOUS
<1>. QED
  BY <1>1, <1>2 DEF Tables

LEMMA InitInv == Init => MapInv
<1>. SUFFICES ASSUME Init PROVE MapInv
  OBVIOUS
<1>1. InitialCap \in Nat /\ InitialCap >= 4
  BY HashMapAssumption
<1>2. TypeOK
  BY <1>1, NewTableEmpty, NoTable DEF Init, TypeOK
<1>. QED
  BY <1>1, <1>2, NewTableEmpty DEF Init, MapInv

\* hashmap_put, up to the loop of rehash or the one that inserts.
LEMMA PutKeepsInv ==
  ASSUME MapInv, NEW k \in Keys, NEW v \in Values, Put(k, v)
  PROVE  MapInv'
<1>. USE DEF MapInv, TypeOK
<1>1. CASE Loaded
  <2>1. /\ old' = entries /\ old_cap' = cap /\ next' = 0 /\ cap' = 2 * cap /\ len' = 0
        /\ entries' = NewTable(2 * cap) /\ pc' = "rehash" /\ call' = <<k, v>>
    BY <1>1 DEF Put
  <2>2. /\ entries' \in Tables(cap') /\ Used(entries', cap') = {}
        /\ Good(entries', cap') /\ Cardinality(Used(entries', cap')) = 0
    BY <2>1, NewTableEmpty
  <2>3. Halfway'
    BY <2>1, <2>2 DEF Halfway
  <2>. QED
    BY <2>1, <2>2, <2>3
<1>2. CASE ~ Loaded
  <2>1. pc' = "insert" /\ call' = <<k, v>> /\ pc = "idle"
        /\ UNCHANGED <<entries, cap, len, old, old_cap, next>>
    BY <1>2 DEF Put
  <2>2. len + 1 < cap
    BY <1>2, RoomForOne
  <2>. QED
    BY <2>1, <2>2 DEF Tables
<1>. QED
  BY <1>1, <1>2

\* An entry that the loop of rehash meets is not in the new table yet.
LEMMA NextIsNew ==
  ASSUME MapInv, pc = "rehash", next < old_cap, old[next] # Unused
  PROVE  /\ old[next] \in Entry /\ Lacks(entries, cap, old[next].key)
         /\ next \in Used(old, old_cap)
<1>1. next \in Used(old, old_cap) /\ old \in Tables(old_cap) /\ old_cap \in Nat
  BY DEF MapInv, TypeOK, Used
<1>2. old[next] \in Entry
  BY <1>1, Slots
<1>3. ASSUME NEW i \in Used(entries, cap) PROVE entries[i].key # old[next].key
  <2>1. PICK j \in 0 .. next - 1 : old[j] = entries[i]
    BY DEF MapInv, Halfway
  <2>2. j \in Used(old, old_cap) /\ j # next
    BY <2>1 DEF MapInv, TypeOK, Used
  <2>. QED
    BY <1>1, <2>1, <2>2 DEF MapInv, Halfway, Good
<1>. QED
  BY <1>1, <1>2, <1>3 DEF Lacks

\* One turn of the loop of rehash.
LEMMA RehashOneKeepsInv == ASSUME MapInv, RehashOne PROVE MapInv'
<1>1. /\ pc = "rehash" /\ next < old_cap /\ next' = next + 1
      /\ UNCHANGED <<cap, call, pc, old, old_cap>>
  BY DEF RehashOne
<1>2. /\ cap \in Caps /\ len \in Nat /\ next \in Nat /\ entries \in Tables(cap)
      /\ Good(entries, cap) /\ len = Cardinality(Used(entries, cap))
      /\ Halfway /\ old_cap \in Nat /\ len < cap
  BY <1>1 DEF MapInv, TypeOK, Caps, Halfway
<1>3. CASE old[next] = Unused
  <2>1. UNCHANGED <<entries, len>>
    BY <1>3 DEF RehashOne
  <2>2. Halfway'
    <3>1. \A i \in Used(entries, cap) : \E j \in 0 .. next' - 1 : old[j] = entries[i]
      BY <1>1, <1>2 DEF Halfway
    <3>2. ASSUME NEW j \in 0 .. next' - 1, old[j] # Unused
          PROVE  \E i \in Used(entries, cap) : entries[i] = old[j]
      BY <1>1, <1>2, <1>3, <3>2 DEF Halfway
    <3>. QED
      BY <1>1, <1>2, <2>1, <3>1, <3>2 DEF Halfway
  <2>. QED
    BY <1>1, <2>1, <2>2 DEF MapInv, TypeOK
<1>4. CASE old[next] # Unused
  <2>. DEFINE e == old[next]
              i == First(entries, cap, e.key)
  <2>1. e \in Entry /\ Lacks(entries, cap, e.key) /\ e.key \in Keys
    BY <1>1, <1>4, NextIsNew DEF Entry
  <2>2. Used(entries, cap) # 0 .. cap - 1
    BY <1>2, CountUsed DEF Caps
  <2>3. /\ Free(entries, cap, e.key) = i /\ Stops(entries, cap, e.key) # {}
        /\ i \notin Used(entries, cap)
    BY <1>2, <2>1, <2>2, FreeIsFirst
  <2>4. entries' = [entries EXCEPT ![i] = e] /\ len' = len + 1
    BY <1>4, <2>3 DEF RehashOne
  <2>5. /\ entries' \in Tables(cap) /\ Good(entries', cap)
        /\ Used(entries', cap) = Used(entries, cap) \cup {i} /\ entries'[i] = e
        /\ \A j \in Used(entries, cap) : entries[j].key # e.key => entries'[j] = entries[j]
    <3>1. e = [key |-> e.key, value |-> e.value] /\ e.value \in Values
      BY <2>1 DEF Entry
    <3>2. entries' = Written(entries, cap, e.key, e.value)
      BY <2>4, <3>1 DEF Written
    <3>. QED
      BY <1>2, <2>1, <2>3, <3>1, <3>2, WriteKeeps
  <2>. HIDE DEF e, i
  <2>6. \A j \in Used(entries, cap) : entries'[j] = entries[j]
    BY <2>1, <2>5 DEF Lacks
  <2>7. len' = Cardinality(Used(entries', cap))
    <3>1. IsFiniteSet(Used(entries, cap))
      BY <1>2, CountUsed DEF Caps
    <3>2. Cardinality(Used(entries, cap) \cup {i}) = Cardinality(Used(entries, cap)) + 1
      BY <2>3, <3>1, FS_AddElement
    <3>. QED
      BY <1>2, <2>4, <2>5, <3>2
  <2>8. Halfway'
    <3>1. ASSUME NEW x \in Used(entries', cap)
          PROVE  \E j \in 0 .. next' - 1 : old[j] = entries'[x]
      <4>1. CASE x = i
        <5>1. next \in 0 .. next' - 1 /\ old[next] = entries'[x]
          BY <1>1, <1>2, <2>5, <4>1 DEF e
        <5>. QED
          BY <5>1
      <4>2. CASE x \in Used(entries, cap)
        <5>1. PICK j \in 0 .. next - 1 : old[j] = entries[x]
          BY <1>2, <4>2 DEF Halfway
        <5>. QED
          BY <1>1, <1>2, <2>6, <4>2, <5>1
      <4>. QED
        BY <2>5, <3>1, <4>1, <4>2
    <3>2. ASSUME NEW j \in 0 .. next' - 1, old[j] # Unused
          PROVE  \E x \in Used(entries', cap) : entries'[x] = old[j]
      <4>1. CASE j = next
        BY <2>5, <4>1 DEF e
      <4>2. CASE j # next
        <5>1. PICK x \in Used(entries, cap) : entries[x] = old[j]
          BY <1>1, <1>2, <3>2, <4>2 DEF Halfway
        <5>. QED
          BY <2>5, <2>6, <5>1
      <4>. QED
        BY <4>1, <4>2
    <3>3. len' <= next'
      BY <1>1, <1>2, <2>4 DEF Halfway
    <3>. QED
      BY <1>1, <1>2, <3>1, <3>2, <3>3 DEF Halfway
  <2>. QED
    BY <1>1, <1>2, <2>4, <2>5, <2>7, <2>8 DEF MapInv, TypeOK
<1>. QED
  BY <1>3, <1>4

\* The end of rehash: the new table holds what the old one held.
LEMMA RehashDoneKeepsInv ==
  ASSUME MapInv, RehashDone
  PROVE  /\ MapInv'
         /\ \A k \in Keys : hashmap_get(old, old_cap, k) = hashmap_get(entries, cap, k)
<1>1. /\ pc = "rehash" /\ next = old_cap /\ pc' = "insert"
      /\ old' = << >> /\ old_cap' = 0 /\ next' = 0
      /\ UNCHANGED <<entries, cap, len, call>>
  BY DEF RehashDone
<1>2. /\ cap \in Caps /\ old_cap \in Caps /\ entries \in Tables(cap) /\ old \in Tables(old_cap)
      /\ Good(entries, cap) /\ Good(old, old_cap) /\ Halfway
  BY <1>1 DEF MapInv, TypeOK, Caps, Halfway
<1>3. len + 1 < cap
  BY <1>1 DEF MapInv, TypeOK, Halfway
<1>4. MapInv'
  BY <1>1, <1>3, NoTable DEF MapInv, TypeOK
<1>5. \A i \in Used(entries, cap) : \E j \in Used(old, old_cap) : old[j] = entries[i]
  <2>. SUFFICES ASSUME NEW i \in Used(entries, cap)
                PROVE  \E j \in Used(old, old_cap) : old[j] = entries[i]
    OBVIOUS
  <2>1. PICK j \in 0 .. next - 1 : old[j] = entries[i]
    BY <1>2 DEF Halfway
  <2>. QED
    BY <1>1, <2>1 DEF Used
<1>6. \A j \in Used(old, old_cap) : \E i \in Used(entries, cap) : entries[i] = old[j]
  BY <1>1, <1>2 DEF Halfway, Used
<1>7. \A k \in Keys : hashmap_get(old, old_cap, k) = hashmap_get(entries, cap, k)
  BY <1>2, <1>5, <1>6, SameEntries
<1>. QED
  BY <1>4, <1>7

\* The insertion sets the value of its key and of no other.
LEMMA InsertKeepsInv ==
  ASSUME MapInv, Insert
  PROVE  /\ MapInv'
         /\ \A k \in Keys :
              hashmap_get(entries', cap', k) =
                IF k = call[1] THEN call[2] ELSE hashmap_get(entries, cap, k)
<1>. DEFINE e == [key |-> call[1], value |-> call[2]]
            i == First(entries, cap, call[1])
<1>1. /\ pc = "insert" /\ call' = NoCall /\ pc' = "idle"
      /\ UNCHANGED <<cap, old, old_cap, next>>
  BY DEF Insert
<1>2. /\ cap \in Caps /\ len \in Nat /\ len + 1 < cap /\ entries \in Tables(cap)
      /\ Good(entries, cap) /\ len = Cardinality(Used(entries, cap))
      /\ call \in Keys \X Values
  BY <1>1 DEF MapInv, TypeOK, Caps
<1>3. e \in Entry /\ call[1] \in Keys /\ e.key = call[1] /\ e.value = call[2]
  BY <1>2 DEF Entry
<1>4. Stops(entries, cap, call[1]) # {}
  <2>1. Used(entries, cap) # 0 .. cap - 1
    BY <1>2, CountUsed DEF Caps
  <2>. QED
    BY <2>1 DEF Used, Stops
<1>5. /\ entries' = [entries EXCEPT ![i] = e]
      /\ entries[i] = Unused => len' = len + 1
      /\ entries[i] # Unused => len' = len
  BY <1>4 DEF Insert
<1>6. /\ entries' \in Tables(cap) /\ Good(entries', cap)
      /\ Used(entries', cap) = Used(entries, cap) \cup {i} /\ entries'[i] = e
      /\ \A j \in Used(entries, cap) : entries[j].key # e.key => entries'[j] = entries[j]
      /\ \A j \in Used(entries', cap) :
           entries'[j].key # e.key => j \in Used(entries, cap) /\ entries'[j] = entries[j]
  <2>1. entries' = Written(entries, cap, call[1], call[2]) /\ call[2] \in Values
    BY <1>2, <1>5 DEF Written
  <2>. QED
    BY <1>2, <1>3, <1>4, <2>1, WriteKeeps
<1>7. i \in 0 .. cap - 1
  BY <1>2, <1>3, <1>4, FirstIsNearest
<1>. HIDE DEF e, i
<1>8. len' = Cardinality(Used(entries', cap)) /\ len' < cap /\ len' \in Nat
  <2>1. IsFiniteSet(Used(entries, cap))
    BY <1>2, CountUsed DEF Caps
  <2>2. Cardinality(Used(entries', cap)) = IF i \in Used(entries, cap)
                                           THEN Cardinality(Used(entries, cap))
                                           ELSE Cardinality(Used(entries, cap)) + 1
    BY <1>6, <2>1, FS_AddElement
  <2>3. i \in Used(entries, cap) <=> entries[i] # Unused
    BY <1>7 DEF Used
  <2>4. CASE i \in Used(entries, cap)
    <3>1. entries[i] # Unused
      BY <2>3, <2>4
    <3>2. len' = len
      BY <1>5, <3>1
    <3>3. Cardinality(Used(entries', cap)) = Cardinality(Used(entries, cap))
      BY <2>2, <2>4
    <3>. QED
      BY <1>2, <3>2, <3>3 DEF Caps
  <2>5. CASE i \notin Used(entries, cap)
    <3>1. entries[i] = Unused
      BY <2>3, <2>5
    <3>2. len' = len + 1
      BY <1>2, <1>5, <3>1
    <3>3. Cardinality(Used(entries', cap)) = Cardinality(Used(entries, cap)) + 1
      BY <2>2, <2>5
    <3>. QED
      BY <1>2, <3>2, <3>3 DEF Caps
  <2>. QED
    BY <2>4, <2>5
<1>9. MapInv'
  BY <1>1, <1>6, <1>8 DEF MapInv, TypeOK
<1>10. ASSUME NEW k \in Keys
       PROVE  hashmap_get(entries', cap', k) =
                IF k = call[1] THEN call[2] ELSE hashmap_get(entries, cap, k)
  <2>1. CASE k = call[1]
    <3>1. i \in Used(entries', cap) /\ entries'[i].key = k /\ entries'[i].value = call[2]
      BY <1>3, <1>6, <2>1
    <3>2. hashmap_get(entries', cap, entries'[i].key) = entries'[i].value
      BY <1>2, <1>6, <3>1, GetFound
    <3>. QED
      BY <1>1, <2>1, <3>1, <3>2
  <2>2. CASE k # call[1]
    <3>1. \A j \in Used(entries, cap) :
            entries[j].key = k => \E x \in Used(entries', cap) : entries'[x] = entries[j]
      BY <1>3, <1>6, <2>2
    <3>2. \A x \in Used(entries', cap) :
            entries'[x].key = k => \E j \in Used(entries, cap) : entries[j] = entries'[x]
      BY <1>3, <1>6, <2>2
    <3>3. hashmap_get(entries, cap, k) = hashmap_get(entries', cap, k)
      BY <1>2, <1>6, <3>1, <3>2, SameEntries
    <3>. QED
      BY <1>1, <2>2, <3>3
  <2>. QED
    BY <2>1, <2>2
<1>. QED
  BY <1>9, <1>10

LEMMA NextKeepsInv == MapInv /\ [Next]_vars => MapInv'
<1>. SUFFICES ASSUME MapInv, [Next]_vars PROVE MapInv'
  OBVIOUS
<1>1. ASSUME UNCHANGED vars PROVE MapInv'
  BY <1>1 DEF MapInv, TypeOK, Halfway, vars
<1>. QED
  BY <1>1, PutKeepsInv, RehashOneKeepsInv, RehashDoneKeepsInv, InsertKeepsInv DEF Next

THEOREM MapInvariant == Spec => []MapInv
BY InitInv, NextKeepsInv, PTL DEF Spec

\* The table has the size that the capacity says, and rehash reads the slots
\* of the one it left (hashmap_put, rehash).
THEOREM MapTypeCorrect == Spec => []TypeOK
<1>1. MapInv => TypeOK
  BY DEF MapInv, TypeOK
<1>. QED
  BY <1>1, MapInvariant, PTL

\* A search always meets an unused slot (hashmap_get, hashmap_put and rehash,
\* whose loop has no other end).
THEOREM SearchesAlwaysEnd == Spec => []SearchesEnd
<1>1. MapInv => SearchesEnd
  BY DEF MapInv, TypeOK, Halfway, SearchesEnd
<1>. QED
  BY <1>1, MapInvariant, PTL

(***************************************************************************)
(* The map implements a dictionary.                                        *)
(***************************************************************************)

Contents == [k \in Keys |-> IF pc = "rehash" THEN hashmap_get(old, old_cap, k)
                                             ELSE hashmap_get(entries, cap, k)]

LEMMA InitIsInit == Init => Dict!Init
<1>. SUFFICES ASSUME Init PROVE Dict!Init
  OBVIOUS
<1>1. cap \in Caps /\ pc # "rehash" /\ entries = NewTable(cap) /\ call = NoCall
  BY HashMapAssumption DEF Init, Caps
<1>2. \A k \in Keys : hashmap_get(entries, cap, k) = NULL
  BY <1>1, NewTableEmpty, GetMissing DEF Lacks, Caps
<1>. QED
  BY <1>1, <1>2 DEF Dict!Init

LEMMA StepIsStep == MapInv /\ [Next]_vars => [Dict!Next]_<<Contents, call>>
<1>. SUFFICES ASSUME MapInv, [Next]_vars
              PROVE  Dict!Next \/ UNCHANGED <<Contents, call>>
  OBVIOUS
<1>1. ASSUME NEW k \in Keys, NEW v \in Values, Put(k, v) PROVE Dict!Next
  <2>1. call = NoCall /\ call' = <<k, v>> /\ pc = "idle"
    BY <1>1 DEF Put, MapInv, TypeOK
  <2>2. Contents' = Contents
    BY <1>1 DEF Put, Contents
  <2>. QED
    BY <2>1, <2>2 DEF Dict!Next, Dict!Begin, Contents
<1>2. ASSUME RehashOne PROVE UNCHANGED <<Contents, call>>
  BY <1>2 DEF RehashOne, Contents
<1>3. ASSUME RehashDone PROVE UNCHANGED <<Contents, call>>
  BY <1>3, RehashDoneKeepsInv DEF RehashDone, Contents
<1>4. ASSUME Insert PROVE Dict!Next
  <2>1. /\ call \in Keys \X Values /\ call' = NoCall /\ pc = "insert" /\ pc' = "idle"
    BY <1>4 DEF Insert, MapInv, TypeOK
  <2>2. Contents' = [Contents EXCEPT ![call[1]] = call[2]]
    BY <1>4, <2>1, InsertKeepsInv DEF Contents
  <2>. QED
    BY <2>1, <2>2 DEF Dict!Next, Dict!End, Dict!Calls, Contents
<1>5. ASSUME UNCHANGED vars PROVE UNCHANGED <<Contents, call>>
  BY <1>5 DEF vars, Contents
<1>. QED
  BY <1>1, <1>2, <1>3, <1>4, <1>5 DEF Next

\* Between any calls of hashmap_put, hashmap_get returns for every key what
\* was put for it last, or NULL.
THEOREM MapIsDictionary == Spec => IsDictionary
<1>1. Dict!Spec <=> Dict!Init /\ [][Dict!Next]_<<Contents, call>>
  BY DEF Dict!Spec, Contents
<1>. QED
  BY <1>1, InitIsInit, StepIsStep, MapInvariant, PTL DEF Spec, IsDictionary
=============================================================================

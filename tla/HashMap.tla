------------------------------ MODULE HashMap ------------------------------
(***************************************************************************)
(* The string-keyed hash map of base/hash.c: open addressing with linear   *)
(* probing over a table that doubles at 70 % load.  A step is one turn of   *)
(* the loop of rehash, or what hashmap_put does before or after it.         *)
(*                                                                         *)
(* A capacity is a power of two, so the mask of the code is a remainder.   *)
(***************************************************************************)
EXTENDS Integers, FiniteSets

CONSTANTS Keys,
          Values,        \* what is put; NULL is put to remove a key
          NULL,
          Hash,          \* hash_key
          InitialCap,    \* capacity of a new map, at least MIN_CAP (16)
          MAX_LOAD_PCT,  \* 70
          Unused,        \* a slot that is not used
          NoCall

Entry == [key : Keys, value : Values]

ASSUME HashMapAssumption ==
  /\ NULL \in Values
  /\ Hash \in [Keys -> Nat]
  /\ InitialCap \in Nat /\ InitialCap >= 4
  /\ MAX_LOAD_PCT \in 1 .. 75
  /\ Unused \notin Entry
  /\ NoCall \notin Keys \X Values

VARIABLES entries, cap, len,      \* HashMap
          call,                   \* the arguments of hashmap_put, if it runs
          pc,                     \* "idle", "rehash" or "insert"
          old, old_cap,           \* its locals while it rehashes,
          next                    \* and the loop counter of rehash

vars == <<entries, cap, len, call, pc, old, old_cap, next>>

Tables(c) == [0 .. c - 1 -> Entry \cup {Unused}]

\* Mutant: a table one slot short.
NewTableShort(c) == [i \in 0 .. c - 2 |-> Unused]

NewTable(c) == [i \in 0 .. c - 1 |-> Unused]

Used(t, c) == {i \in 0 .. c - 1 : t[i] # Unused}

(***************************************************************************)
(* Probing                                                                 *)
(***************************************************************************)

\* The number of steps from the home slot of k to slot i.
Dist(k, i, c) ==
  LET home == Hash[k] % c IN IF i >= home THEN i - home ELSE i + c - home

\* The slots where a search for k stops, and the first of them.
Stops(t, c, k) == {i \in 0 .. c - 1 : t[i] = Unused \/ t[i].key = k}

First(t, c, k) ==
  CHOOSE i \in Stops(t, c, k) : \A j \in Stops(t, c, k) : Dist(k, i, c) <= Dist(k, j, c)

hashmap_get(t, c, k) ==
  IF Stops(t, c, k) = {} \/ t[First(t, c, k)] = Unused THEN NULL
  ELSE t[First(t, c, k)].value

\* Mutant: the mask of the table that is left.
FreeOldMask(t, c, k) ==
  CHOOSE i \in 0 .. (c \div 2) - 1 :
    /\ t[i] = Unused
    /\ \A j \in 0 .. (c \div 2) - 1 :
         t[j] = Unused => Dist(k, i, c \div 2) <= Dist(k, j, c \div 2)

\* Where rehash puts the entry of a key it does not look for.
Free(t, c, k) ==
  CHOOSE i \in 0 .. c - 1 :
    /\ t[i] = Unused
    /\ \A j \in 0 .. c - 1 : t[j] = Unused => Dist(k, i, c) <= Dist(k, j, c)

(***************************************************************************)
(* hashmap_put                                                             *)
(***************************************************************************)
Init == /\ cap = InitialCap /\ len = 0 /\ entries = NewTable(InitialCap)
        /\ call = NoCall /\ pc = "idle"
        /\ old = << >> /\ old_cap = 0 /\ next = 0

\* Mutant: the table grows when it is full.
LoadedFull == len >= cap

Loaded == len * 100 >= cap * MAX_LOAD_PCT

Put(k, v) ==
  /\ pc = "idle"
  /\ call' = <<k, v>>
  /\ IF Loaded
     THEN /\ old' = entries /\ old_cap' = cap /\ next' = 0
          /\ cap' = 2 * cap /\ len' = 0 /\ entries' = NewTable(2 * cap)
          /\ pc' = "rehash"
     ELSE /\ pc' = "insert"
          /\ UNCHANGED <<entries, cap, len, old, old_cap, next>>

RehashOne ==
  /\ pc = "rehash" /\ next < old_cap
  /\ IF old[next] = Unused THEN UNCHANGED <<entries, len>>
     ELSE /\ Used(entries, cap) # 0 .. cap - 1      \* else the probe never ends
          /\ entries' = [entries EXCEPT ![Free(entries, cap, old[next].key)] = old[next]]
          /\ len' = len + 1
  /\ next' = next + 1
  /\ UNCHANGED <<cap, call, pc, old, old_cap>>

RehashDone ==
  /\ pc = "rehash" /\ next = old_cap
  /\ pc' = "insert"
  /\ old' = << >> /\ old_cap' = 0 /\ next' = 0
  /\ UNCHANGED <<entries, cap, len, call>>

\* In a full table the new entry is dropped.
Insert ==
  /\ pc = "insert"
  /\ LET k == call[1]
         i == First(entries, cap, k)
     IN  IF Stops(entries, cap, k) = {} THEN UNCHANGED <<entries, len>>
         ELSE /\ entries' = [entries EXCEPT ![i] = [key |-> k, value |-> call[2]]]
              /\ len' = IF entries[i] = Unused THEN len + 1 ELSE len
  /\ call' = NoCall /\ pc' = "idle"
  /\ UNCHANGED <<cap, old, old_cap, next>>

Next == \/ \E k \in Keys, v \in Values : Put(k, v)
        \/ RehashOne
        \/ RehashDone
        \/ Insert

Spec == Init /\ [][Next]_vars

(***************************************************************************)
(* Properties                                                              *)
(***************************************************************************)

TypeOK == /\ cap \in Nat /\ cap >= 4 /\ len \in Nat
          /\ entries \in Tables(cap)
          /\ pc \in {"idle", "rehash", "insert"}
          /\ call \in IF pc = "idle" THEN {NoCall} ELSE Keys \X Values
          /\ old_cap \in Nat /\ old \in Tables(old_cap)
          /\ next \in 0 .. old_cap
          /\ pc # "rehash" => old_cap = 0

\* hash.c:112, "table full - shouldn't happen": a search always meets an
\* unused slot, also between the growth of the table and the insertion that
\* made it grow, and len counts the used ones.
SearchesEnd == /\ len = Cardinality(Used(entries, cap))
               /\ len < cap

\* The map is a dictionary: whatever the collisions and however often the
\* table has grown, hashmap_get returns for every key what was put for it
\* last.  While a table is rehashed the old one holds the entries.
Dict == INSTANCE Dictionary
          WITH dict <- [k \in Keys |-> IF pc = "rehash" THEN hashmap_get(old, old_cap, k)
                                                        ELSE hashmap_get(entries, cap, k)]

IsDictionary == Dict!Spec
=============================================================================

----------------------------- MODULE MapInArena -----------------------------
(***************************************************************************)
(* A map of base/hash.c and the arena that holds its tables, beside other  *)
(* users of the arena.  A table that is outgrown stays where it is.        *)
(***************************************************************************)
EXTENDS HashMap, Arena

CONSTANT EntrySize       \* sizeof(MapEntry)

ASSUME MapInArenaAssumption == EntrySize \in Nat \ {0}

VARIABLES table,     \* the block m->entries points to
          oldTable   \* the one rehash reads

mapVars == <<vars, arenaVars, table, oldTable>>

\* hashmap_init in a new arena.
FirstSize == InitialCap * EntrySize

MapInit ==
  /\ Init
  /\ sizeOf = IF Aligned(FirstSize) > SLAB_SIZE THEN <<SLAB_SIZE, Aligned(FirstSize)>>
                                               ELSE <<SLAB_SIZE>>
  /\ slab = Len(sizeOf) /\ slabCap = sizeOf[slab] /\ offset = Aligned(FirstSize)
  /\ prev = IF slab = 1 THEN << >> ELSE <<[slab |-> 1, cap |-> SLAB_SIZE]>>
  /\ blocks = <<[slab |-> slab, at |-> 0, size |-> FirstSize]>>
  /\ freed = << >>
  /\ table = 1 /\ oldTable = 1

\* Mutant: the table is allocated with the capacity it had.
GrowSmall == arena_alloc(cap * EntrySize)

Grow == arena_alloc(2 * cap * EntrySize)

hashmap_put(k, v) ==
  /\ freed = << >>
  /\ Put(k, v)
  /\ IF Loaded THEN Grow /\ table' = Len(blocks') /\ oldTable' = table
               ELSE UNCHANGED <<arenaVars, table, oldTable>>

hashmap_put_goes_on ==
  /\ RehashOne \/ RehashDone \/ Insert
  /\ UNCHANGED <<arenaVars, table, oldTable>>

\* Other allocations, and the end of the arena.
Elsewhere ==
  /\ pc = "idle" /\ ArenaNext
  /\ UNCHANGED <<vars, table, oldTable>>

MapNext == \/ \E k \in Keys, v \in Values : hashmap_put(k, v)
           \/ hashmap_put_goes_on
           \/ Elsewhere

MapSpec == MapInit /\ [][MapNext]_mapVars

(***************************************************************************)
(* Properties                                                              *)
(***************************************************************************)

\* The table a map uses, and the one it is moving out of, are blocks of the
\* size that their capacity needs: with BlocksApart, nobody else writes there.
TablesFit ==
  /\ blocks[table].size = cap * EntrySize
  /\ pc = "rehash" => oldTable # table /\ blocks[oldTable].size = old_cap * EntrySize
=============================================================================

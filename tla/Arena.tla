-------------------------------- MODULE Arena --------------------------------
(***************************************************************************)
(* The bump allocator of base/arena.c.  Memory that calloc returns is a     *)
(* slab with a number of its own; an address is a slab and an offset.       *)
(***************************************************************************)
EXTENDS Integers, Sequences

CONSTANTS SLAB_SIZE,     \* 64 * 1024
          Alignment,     \* 8
          Sizes,         \* what is asked for
          MaxBlocks      \* bound on the allocations of an arena

ASSUME ArenaAssumption == /\ Alignment \in Nat \ {0}
                          /\ SLAB_SIZE \in Nat \ {0} /\ SLAB_SIZE % Alignment = 0
                          /\ Sizes \subseteq Nat
                          /\ MaxBlocks \in Nat

VARIABLES slab, slabCap, offset,    \* Arena
          prev,                     \* the chain of Arena.prev, the newest last
          sizeOf,                   \* of every slab, in the order of the callocs
          blocks,                   \* what arena_alloc has returned: [slab, at, size]
          freed                     \* the slabs given back, in order

arenaVars == <<slab, slabCap, offset, prev, sizeOf, blocks, freed>>

\* size rounded up to the alignment
Aligned(size) ==
  LET up == size + Alignment - 1 IN up - (up % Alignment)

ArenaInit == /\ slab = 1 /\ slabCap = SLAB_SIZE /\ offset = 0 /\ prev = << >>
             /\ sizeOf = <<SLAB_SIZE>>
             /\ blocks = << >> /\ freed = << >>

\* Mutant: the slab in use is replaced without being chained.
NewSlabUnchained(size) ==
  /\ prev' = prev
  /\ sizeOf' = Append(sizeOf, size)
  /\ slab' = Len(sizeOf) + 1 /\ slabCap' = size

NewSlab(size) ==
  /\ prev' = Append(prev, [slab |-> slab, cap |-> slabCap])
  /\ sizeOf' = Append(sizeOf, size)
  /\ slab' = Len(sizeOf) + 1 /\ slabCap' = size

Fits(size) == offset + Aligned(size) <= slabCap

Give(size, at) == blocks' = Append(blocks, [slab |-> slab', at |-> at, size |-> size])

\* Mutant: the slab is taken for an empty one.
AllocLargeReused(size) ==
  /\ Aligned(size) > SLAB_SIZE
  /\ NewSlab(Aligned(size))
  /\ offset' = 0
  /\ Give(size, 0)

\* Larger than a slab: a slab of its own, full from the start.
AllocLarge(size) ==
  /\ Aligned(size) > SLAB_SIZE
  /\ NewSlab(Aligned(size))
  /\ offset' = Aligned(size)
  /\ Give(size, 0)

AllocNext(size) ==
  /\ Aligned(size) <= SLAB_SIZE /\ Fits(size)
  /\ UNCHANGED <<slab, slabCap, prev, sizeOf>>
  /\ offset' = offset + Aligned(size)
  /\ Give(size, offset)

AllocFresh(size) ==
  /\ Aligned(size) <= SLAB_SIZE /\ ~Fits(size)
  /\ NewSlab(SLAB_SIZE)
  /\ offset' = Aligned(size)
  /\ Give(size, 0)

arena_alloc(size) ==
  /\ freed = << >> /\ Len(blocks) < MaxBlocks
  /\ AllocLarge(size) \/ AllocNext(size) \/ AllocFresh(size)
  /\ UNCHANGED freed

\* The slab in use, then the chain from its newest member on.
arena_free ==
  /\ freed = << >>
  /\ freed' = <<slab>> \o [i \in 1 .. Len(prev) |-> prev[Len(prev) + 1 - i].slab]
  /\ UNCHANGED <<slab, slabCap, offset, prev, sizeOf, blocks>>

\* Nothing is done with an arena that is freed.
Released == freed # << >> /\ UNCHANGED arenaVars

ArenaNext == (\E size \in Sizes : arena_alloc(size)) \/ arena_free \/ Released

ArenaSpec == ArenaInit /\ [][ArenaNext]_arenaVars

(***************************************************************************)
(* Properties                                                              *)
(***************************************************************************)

Slabs == 1 .. Len(sizeOf)

ArenaTypeOK == /\ sizeOf \in Seq(Nat) /\ slab \in Slabs
               /\ slabCap \in Nat /\ offset \in 0 .. slabCap
               /\ prev \in Seq([slab : Slabs, cap : Nat])
               /\ blocks \in Seq([slab : Slabs, at : Nat, size : Nat])
               /\ freed \in Seq(Slabs)

\* arena.c:36-38: a block never spills past its slab, and no two blocks
\* share memory, so each is still zero when it is handed out.
BlocksApart ==
  \A i \in DOMAIN blocks :
    LET b == blocks[i]
    IN  /\ b.at + b.size <= sizeOf[b.slab]
        /\ \A j \in DOMAIN blocks :
             i # j /\ blocks[j].slab = b.slab
               => b.at + b.size <= blocks[j].at \/ blocks[j].at + blocks[j].size <= b.at

\* No slab is lost or given back while it is in use: arena_free frees each of
\* them, once.
EverySlabIsFreed ==
  [][freed' # freed => /\ Len(freed') = Len(sizeOf)
                       /\ \A s \in Slabs : \E i \in DOMAIN freed' : freed'[i] = s]_arenaVars
=============================================================================

-------------------------- MODULE MapInArenaProofs --------------------------
(***************************************************************************)
(* The blocks of an arena never share memory, and arena_free forgets no    *)
(* slab, whatever the sizes asked for.  A map in an arena stays a          *)
(* dictionary, and the tables it uses are blocks of their own of the size  *)
(* they need.                                                              *)
(***************************************************************************)
EXTENDS MapInArena, HashMapProofs

(***************************************************************************)
(* The arena alone.                                                        *)
(***************************************************************************)

\* The chain holds every slab but the one in use, in their order.
Chain == /\ slab = Len(sizeOf) /\ slabCap = sizeOf[slab]
         /\ Len(prev) + 1 = Len(sizeOf)
         /\ \A i \in DOMAIN prev : prev[i].slab = i

\* No block reaches into the free end of the slab in use.
BelowOffset == \A i \in DOMAIN blocks :
                 blocks[i].slab = slab => blocks[i].at + blocks[i].size <= offset

ArenaInv == ArenaTypeOK /\ Chain /\ BelowOffset /\ BlocksApart

\* Rounding up gives a number that is not smaller.
LEMMA AlignedUp ==
  ASSUME NEW size \in Nat
  PROVE  Aligned(size) \in Nat /\ Aligned(size) >= size
<1>. DEFINE up == size + Alignment - 1
<1>1. up \in Nat /\ Alignment \in Nat \ {0}
  BY ArenaAssumption
<1>2. up % Alignment \in 0 .. Alignment - 1
  BY <1>1
<1>3. up - (up % Alignment) \in Nat /\ up - (up % Alignment) >= size
  BY <1>1, <1>2
<1>. QED
  BY <1>3 DEF Aligned

\* Sequences over a set are sequences over a larger one.
LEMMA SeqGrows ==
  ASSUME NEW S, NEW T, S \subseteq T, NEW s \in Seq(S)
  PROVE  s \in Seq(T)
<1>1. Len(s) \in Nat /\ s \in [1 .. Len(s) -> S]
  OBVIOUS
<1>2. s \in [1 .. Len(s) -> T]
  BY <1>1
<1>. QED
  BY <1>1, <1>2

\* What Append does.
LEMMA AppendKeeps ==
  ASSUME NEW S, NEW s \in Seq(S), NEW e \in S
  PROVE  /\ Append(s, e) \in Seq(S) /\ Len(Append(s, e)) = Len(s) + 1
         /\ \A i \in DOMAIN s : Append(s, e)[i] = s[i]
         /\ Append(s, e)[Len(s) + 1] = e
         /\ \A i \in DOMAIN Append(s, e) : i \in DOMAIN s \/ i = Len(s) + 1
         /\ Len(s) + 1 \notin DOMAIN s
OBVIOUS

\* A new slab keeps the chain and leaves every block where it is.
LEMMA NewSlabKeeps ==
  ASSUME ArenaInv, NEW size \in Nat, NewSlab(size)
  PROVE  /\ Chain' /\ sizeOf' \in Seq(Nat)
         /\ slab' = Len(sizeOf) + 1 /\ slabCap' = size
         /\ slab' \in Slabs' /\ Slabs \subseteq Slabs'
         /\ prev' \in Seq([slab : Slabs', cap : Nat])
         /\ \A s \in Slabs : sizeOf'[s] = sizeOf[s] /\ s # slab'
         /\ sizeOf'[slab'] = size
<1>. USE DEF ArenaInv, ArenaTypeOK, Chain, NewSlab, Slabs
<1>1. /\ sizeOf' \in Seq(Nat) /\ Len(sizeOf') = Len(sizeOf) + 1
      /\ \A s \in Slabs : sizeOf'[s] = sizeOf[s]
      /\ sizeOf'[Len(sizeOf) + 1] = size
  OBVIOUS
<1>2. Slabs \subseteq Slabs' /\ slab' \in Slabs'
  BY <1>1
<1>. DEFINE Link == [slab : Slabs', cap : Nat]
            newest == [slab |-> slab, cap |-> slabCap]
<1>3. /\ prev' \in Seq(Link) /\ Len(prev') = Len(prev) + 1
      /\ \A i \in DOMAIN prev : prev'[i] = prev[i]
      /\ prev'[Len(prev) + 1] = newest
      /\ \A i \in DOMAIN prev' : i \in DOMAIN prev \/ i = Len(prev) + 1
  <2>1. [slab : Slabs, cap : Nat] \subseteq Link /\ newest \in Link
    BY <1>2
  <2>2. prev \in Seq([slab : Slabs, cap : Nat]) /\ prev' = Append(prev, newest)
    OBVIOUS
  <2>. HIDE DEF Link, newest, ArenaInv, ArenaTypeOK, Chain, NewSlab, Slabs
  <2>3. prev \in Seq(Link)
    BY <2>1, <2>2, SeqGrows
  <2>. QED
    BY <2>1, <2>2, <2>3, AppendKeeps
<1>4. \A i \in DOMAIN prev' : prev'[i].slab = i
  <2>1. newest.slab = Len(prev) + 1
    OBVIOUS
  <2>2. \A i \in DOMAIN prev : prev[i].slab = i
    OBVIOUS
  <2>. HIDE DEF newest
  <2>. QED
    BY <1>3, <2>1, <2>2
<1>. QED
  BY <1>1, <1>2, <1>3, <1>4

\* The blocks are records, one by one.
LEMMA BlockTypes ==
  ASSUME ArenaTypeOK
  PROVE  \A i \in DOMAIN blocks :
           /\ blocks[i] \in [slab : Slabs, at : Nat, size : Nat]
           /\ blocks[i].slab \in Slabs /\ blocks[i].at \in Nat /\ blocks[i].size \in Nat
<1>. DEFINE Block == [slab : Slabs, at : Nat, size : Nat]
<1>1. blocks \in Seq(Block)
  BY DEF ArenaTypeOK
<1>2. \A i \in DOMAIN blocks : blocks[i] \in Block
  <2>. HIDE DEF Block
  <2>. QED
    BY <1>1
<1>3. \A b \in Block : b.slab \in Slabs /\ b.at \in Nat /\ b.size \in Nat
  OBVIOUS
<1>. QED
  BY <1>2, <1>3

\* What a block that is handed out must satisfy to leave the others alone.
LEMMA GiveKeeps ==
  ASSUME ArenaInv, NEW size \in Nat, NEW at \in Nat,
         Chain', sizeOf' \in Seq(Nat), slab' \in Slabs', Slabs \subseteq Slabs',
         \A s \in Slabs : sizeOf'[s] = sizeOf[s],
         Give(size, at),
         offset' \in Nat, at + size <= offset', offset' <= sizeOf'[slab'],
         \A i \in DOMAIN blocks : blocks[i].slab = slab'
                                    => blocks[i].at + blocks[i].size <= at
  PROVE  /\ blocks' \in Seq([slab : Slabs', at : Nat, size : Nat])
         /\ BelowOffset' /\ BlocksApart'
<1>. DEFINE new == [slab |-> slab', at |-> at, size |-> size]
            Block == [slab : Slabs', at : Nat, size : Nat]
<1>1. new \in Block /\ blocks \in Seq(Block)
  <2>1. [slab : Slabs, at : Nat, size : Nat] \subseteq Block /\ new \in Block
    OBVIOUS
  <2>2. blocks \in Seq([slab : Slabs, at : Nat, size : Nat])
    BY DEF ArenaInv, ArenaTypeOK
  <2>. HIDE DEF Block
  <2>. QED
    BY <2>1, <2>2, SeqGrows
<1>2. /\ blocks' \in Seq(Block) /\ Len(blocks') = Len(blocks) + 1
      /\ \A i \in DOMAIN blocks : blocks'[i] = blocks[i]
      /\ blocks'[Len(blocks) + 1] = new
      /\ \A i \in DOMAIN blocks' : i \in DOMAIN blocks \/ i = Len(blocks) + 1
      /\ Len(blocks) + 1 \notin DOMAIN blocks
  <2>1. blocks' = Append(blocks, new)
    BY DEF Give
  <2>. HIDE DEF Block, new
  <2>. QED
    BY <1>1, <2>1, AppendKeeps
<1>3. \A i \in DOMAIN blocks :
        /\ blocks[i].slab \in Slabs /\ blocks[i].at \in Nat /\ blocks[i].size \in Nat
        /\ blocks[i].at + blocks[i].size <= sizeOf'[blocks[i].slab]
  <2>1. \A i \in DOMAIN blocks : blocks[i].at + blocks[i].size <= sizeOf[blocks[i].slab]
    BY DEF ArenaInv, BlocksApart
  <2>. QED
    BY <2>1, BlockTypes DEF ArenaInv
<1>4. BelowOffset'
  <2>. SUFFICES ASSUME NEW i \in DOMAIN blocks', blocks'[i].slab = slab'
                PROVE  blocks'[i].at + blocks'[i].size <= offset'
    BY DEF BelowOffset
  <2>1. CASE i = Len(blocks) + 1
    BY <1>2, <2>1
  <2>2. CASE i \in DOMAIN blocks
    <3>1. blocks[i].at \in Nat /\ blocks[i].size \in Nat
          /\ blocks[i].at + blocks[i].size <= at
      BY <1>2, <1>3, <2>2
    <3>. QED
      BY <1>2, <2>2, <3>1
  <2>. QED
    BY <1>2, <2>1, <2>2
<1>5. BlocksApart'
  <2>. SUFFICES ASSUME NEW i \in DOMAIN blocks'
                PROVE  /\ blocks'[i].at + blocks'[i].size <= sizeOf'[blocks'[i].slab]
                       /\ \A j \in DOMAIN blocks' :
                            i # j /\ blocks'[j].slab = blocks'[i].slab
                              => \/ blocks'[i].at + blocks'[i].size <= blocks'[j].at
                                 \/ blocks'[j].at + blocks'[j].size <= blocks'[i].at
    BY DEF BlocksApart
  <2>1. blocks'[i].at + blocks'[i].size <= sizeOf'[blocks'[i].slab]
    <3>1. CASE i = Len(blocks) + 1
      <4>1. sizeOf'[slab'] \in Nat
        BY DEF Slabs
      <4>. QED
        BY <1>2, <3>1, <4>1
    <3>2. CASE i \in DOMAIN blocks
      BY <1>2, <1>3, <3>2
    <3>. QED
      BY <1>2, <3>1, <3>2
  <2>2. ASSUME NEW j \in DOMAIN blocks', i # j, blocks'[j].slab = blocks'[i].slab
        PROVE  \/ blocks'[i].at + blocks'[i].size <= blocks'[j].at
               \/ blocks'[j].at + blocks'[j].size <= blocks'[i].at
    <3>1. CASE i \in DOMAIN blocks /\ j \in DOMAIN blocks
      BY <1>2, <2>2, <3>1 DEF ArenaInv, BlocksApart
    <3>2. CASE i = Len(blocks) + 1 /\ j \in DOMAIN blocks
      BY <1>2, <2>2, <3>2
    <3>3. CASE i \in DOMAIN blocks /\ j = Len(blocks) + 1
      BY <1>2, <2>2, <3>3
    <3>. QED
      BY <1>2, <2>2, <3>1, <3>2, <3>3
  <2>. QED
    BY <2>1, <2>2
<1>. QED
  BY <1>2, <1>4, <1>5

LEMMA ArenaInitInv == ArenaInit => ArenaInv
BY ArenaAssumption DEF ArenaInit, ArenaInv, ArenaTypeOK, Chain, BelowOffset, BlocksApart, Slabs

\* A call of arena_alloc keeps the invariant.
LEMMA AllocKeepsInv ==
  ASSUME ArenaInv, NEW size \in Nat, arena_alloc(size)
  PROVE  ArenaInv'
<1>1. Aligned(size) \in Nat /\ Aligned(size) >= size /\ SLAB_SIZE \in Nat
  BY AlignedUp, ArenaAssumption
<1>2. freed' = freed /\ freed \in Seq(Slabs)
  BY DEF arena_alloc, ArenaInv, ArenaTypeOK
<1>3. \A i \in DOMAIN blocks : blocks[i].slab \in Slabs
  BY BlockTypes DEF ArenaInv
<1>4. CASE AllocLarge(size)
  <2>1. NewSlab(Aligned(size)) /\ offset' = Aligned(size) /\ Give(size, 0)
    BY <1>4 DEF AllocLarge
  <2>2. /\ Chain' /\ sizeOf' \in Seq(Nat) /\ slab' \in Slabs' /\ Slabs \subseteq Slabs'
        /\ prev' \in Seq([slab : Slabs', cap : Nat]) /\ slabCap' = Aligned(size)
        /\ \A s \in Slabs : sizeOf'[s] = sizeOf[s] /\ s # slab'
        /\ sizeOf'[slab'] = Aligned(size)
    BY <1>1, <2>1, NewSlabKeeps
  <2>3. /\ blocks' \in Seq([slab : Slabs', at : Nat, size : Nat])
        /\ BelowOffset' /\ BlocksApart'
    BY <1>1, <1>3, <2>1, <2>2, GiveKeeps
  <2>. QED
    BY <1>1, <1>2, <2>1, <2>2, <2>3 DEF ArenaInv, ArenaTypeOK
<1>5. CASE AllocNext(size)
  <2>1. /\ UNCHANGED <<slab, slabCap, prev, sizeOf>>
        /\ offset' = offset + Aligned(size) /\ offset' <= slabCap
        /\ Give(size, offset)
    BY <1>5 DEF AllocNext, Fits
  <2>2. offset \in Nat /\ slabCap \in Nat /\ sizeOf \in Seq(Nat) /\ slab \in Slabs
        /\ slabCap = sizeOf[slab] /\ Slabs' = Slabs /\ Chain'
        /\ prev \in Seq([slab : Slabs, cap : Nat])
    BY <2>1 DEF ArenaInv, ArenaTypeOK, Chain, Slabs
  <2>3. \A i \in DOMAIN blocks : blocks[i].slab = slab
                                   => blocks[i].at + blocks[i].size <= offset
    BY DEF ArenaInv, BelowOffset
  <2>5. /\ offset' \in Nat /\ offset + size <= offset' /\ offset' <= sizeOf'[slab']
        /\ slab' = slab /\ slab' \in Slabs' /\ sizeOf' \in Seq(Nat) /\ sizeOf' = sizeOf
    BY <1>1, <2>1, <2>2
  <2>4. /\ blocks' \in Seq([slab : Slabs', at : Nat, size : Nat])
        /\ BelowOffset' /\ BlocksApart'
    BY <2>1, <2>2, <2>3, <2>5, GiveKeeps
  <2>. QED
    BY <1>1, <1>2, <2>1, <2>2, <2>4 DEF ArenaInv, ArenaTypeOK
<1>6. CASE AllocFresh(size)
  <2>1. /\ NewSlab(SLAB_SIZE) /\ offset' = Aligned(size) /\ Give(size, 0)
        /\ Aligned(size) <= SLAB_SIZE
    BY <1>6 DEF AllocFresh
  <2>2. /\ Chain' /\ sizeOf' \in Seq(Nat) /\ slab' \in Slabs' /\ Slabs \subseteq Slabs'
        /\ prev' \in Seq([slab : Slabs', cap : Nat]) /\ slabCap' = SLAB_SIZE
        /\ \A s \in Slabs : sizeOf'[s] = sizeOf[s] /\ s # slab'
        /\ sizeOf'[slab'] = SLAB_SIZE
    BY <1>1, <2>1, NewSlabKeeps
  <2>3. /\ blocks' \in Seq([slab : Slabs', at : Nat, size : Nat])
        /\ BelowOffset' /\ BlocksApart'
    BY <1>1, <1>3, <2>1, <2>2, GiveKeeps
  <2>. QED
    BY <1>1, <1>2, <2>1, <2>2, <2>3 DEF ArenaInv, ArenaTypeOK
<1>. QED
  BY <1>4, <1>5, <1>6 DEF arena_alloc

\* arena_free gives back the slab in use and then the chain: all of them.
LEMMA FreeFreesAll ==
  ASSUME ArenaInv, arena_free
  PROVE  /\ freed' \in Seq(Slabs) /\ Len(freed') = Len(sizeOf)
         /\ \A s \in Slabs : \E i \in DOMAIN freed' : freed'[i] = s
<1>. DEFINE n == Len(prev)
            rest == [i \in 1 .. n |-> prev[n + 1 - i].slab]
<1>1. n \in Nat /\ Len(sizeOf) = n + 1 /\ slab = n + 1 /\ \A i \in 1 .. n : prev[i].slab = i
  BY DEF ArenaInv, ArenaTypeOK, Chain
<1>2. \A i \in 1 .. n : rest[i] = n + 1 - i
  BY <1>1
<1>3. rest \in Seq(Slabs) /\ Len(rest) = n
  BY <1>1, <1>2 DEF Slabs
<1>4. freed' = <<slab>> \o rest
  BY DEF arena_free
<1>5. /\ freed' \in Seq(Slabs) /\ Len(freed') = n + 1
      /\ \A i \in 1 .. n + 1 : freed'[i] = n + 2 - i
  <2>1. slab \in Slabs
    BY <1>1 DEF Slabs
  <2>2. /\ freed' \in Seq(Slabs) /\ Len(freed') = n + 1 /\ freed'[1] = slab
        /\ \A i \in 2 .. n + 1 : freed'[i] = rest[i - 1]
    BY <1>1, <1>3, <1>4, <2>1
  <2>. QED
    BY <1>1, <1>2, <2>2
<1>6. ASSUME NEW s \in Slabs PROVE \E i \in DOMAIN freed' : freed'[i] = s
  <2>1. s \in 1 .. n + 1 /\ n + 2 - s \in 1 .. n + 1 /\ n + 2 - (n + 2 - s) = s
    BY <1>1 DEF Slabs
  <2>. QED
    BY <1>5, <2>1
<1>. QED
  BY <1>1, <1>5, <1>6

LEMMA ArenaNextKeepsInv == ArenaInv /\ [ArenaNext]_arenaVars => ArenaInv'
<1>. SUFFICES ASSUME ArenaInv, [ArenaNext]_arenaVars PROVE ArenaInv'
  OBVIOUS
<1>1. ASSUME NEW size \in Sizes, arena_alloc(size) PROVE ArenaInv'
  BY <1>1, AllocKeepsInv, ArenaAssumption
<1>2. ASSUME arena_free PROVE ArenaInv'
  <2>1. freed' \in Seq(Slabs) /\ UNCHANGED <<slab, slabCap, offset, prev, sizeOf, blocks>>
    BY <1>2, FreeFreesAll DEF arena_free
  <2>. QED
    BY <2>1 DEF ArenaInv, ArenaTypeOK, Chain, BelowOffset, BlocksApart, Slabs
<1>3. ASSUME UNCHANGED arenaVars PROVE ArenaInv'
  BY <1>3 DEF ArenaInv, ArenaTypeOK, Chain, BelowOffset, BlocksApart, Slabs, arenaVars
<1>. QED
  BY <1>1, <1>2, <1>3 DEF ArenaNext, Released

THEOREM ArenaInvariant == ArenaSpec => []ArenaInv
BY ArenaInitInv, ArenaNextKeepsInv, PTL DEF ArenaSpec

\* The state of an arena is well formed: what is used of a slab is within it,
\* and what was given back is a slab (arena_alloc, arena_free).
THEOREM ArenaTypeCorrect == ArenaSpec => []ArenaTypeOK
<1>1. ArenaInv => ArenaTypeOK
  BY DEF ArenaInv
<1>. QED
  BY <1>1, ArenaInvariant, PTL

\* No allocation of any size spills past its slab or overlaps another
\* (arena_alloc, also after an allocation larger than a slab).
THEOREM BlocksStayApart == ArenaSpec => []BlocksApart
<1>1. ArenaInv => BlocksApart
  BY DEF ArenaInv
<1>. QED
  BY <1>1, ArenaInvariant, PTL

\* arena_free gives back each slab of the chain, once.
THEOREM FreeForgetsNoSlab == ArenaSpec => EverySlabIsFreed
<1>. DEFINE Complete == freed' # freed
                          => /\ Len(freed') = Len(sizeOf)
                             /\ \A s \in Slabs : \E i \in DOMAIN freed' : freed'[i] = s
<1>1. ArenaInv /\ [ArenaNext]_arenaVars => [Complete]_arenaVars
  <2>. SUFFICES ASSUME ArenaInv, ArenaNext, freed' # freed PROVE Complete
    BY DEF arenaVars
  <2>1. arena_free
    BY DEF ArenaNext, arena_alloc, Released, arenaVars
  <2>. QED
    BY <2>1, FreeFreesAll
<1>. QED
  BY <1>1, ArenaInvariant, PTL DEF ArenaSpec, EverySlabIsFreed

(***************************************************************************)
(* A map in it.                                                            *)
(***************************************************************************)

TableInv == /\ table \in DOMAIN blocks /\ oldTable \in DOMAIN blocks
            /\ TablesFit

AllInv == MapInv /\ ArenaInv /\ TableInv

\* An allocation appends a block of the size asked for.
LEMMA AllocAppends ==
  ASSUME ArenaInv, NEW size \in Nat, arena_alloc(size)
  PROVE  /\ ArenaInv'
         /\ Len(blocks') = Len(blocks) + 1 /\ Len(blocks) \in Nat
         /\ \A i \in DOMAIN blocks : i \in DOMAIN blocks' /\ blocks'[i] = blocks[i]
         /\ Len(blocks') \in DOMAIN blocks' /\ blocks'[Len(blocks')].size = size
         /\ Len(blocks') \notin DOMAIN blocks
<1>1. ArenaInv'
  BY AllocKeepsInv
<1>2. PICK at \in Nat : Give(size, at)
  BY DEF arena_alloc, AllocLarge, AllocNext, AllocFresh, ArenaInv, ArenaTypeOK
<1>. DEFINE Block == [slab : Slabs', at : Nat, size : Nat]
            new == [slab |-> slab', at |-> at, size |-> size]
<1>3. new.size = size /\ blocks' = Append(blocks, new)
  BY <1>2 DEF Give
<1>4. blocks \in Seq([slab : Slabs, at : Nat, size : Nat])
  BY DEF ArenaInv, ArenaTypeOK
<1>. HIDE DEF Block, new
<1>5. /\ Len(blocks') = Len(blocks) + 1 /\ Len(blocks) \in Nat
      /\ DOMAIN blocks = 1 .. Len(blocks) /\ DOMAIN blocks' = 1 .. Len(blocks) + 1
      /\ \A i \in DOMAIN blocks : blocks'[i] = blocks[i]
      /\ blocks'[Len(blocks) + 1] = new
  BY <1>3, <1>4
<1>. QED
  BY <1>1, <1>3, <1>5

LEMMA MapInitInv == MapInit => AllInv
<1>. SUFFICES ASSUME MapInit PROVE AllInv
  OBVIOUS
<1>1. FirstSize \in Nat /\ cap * EntrySize = FirstSize /\ pc = "idle"
  BY HashMapAssumption, MapInArenaAssumption DEF FirstSize, MapInit, Init
<1>2. /\ Aligned(FirstSize) \in Nat /\ Aligned(FirstSize) >= FirstSize
      /\ SLAB_SIZE \in Nat
  BY <1>1, AlignedUp, ArenaAssumption
<1>3. MapInv
  BY InitInv DEF MapInit
<1>4. CASE Aligned(FirstSize) > SLAB_SIZE
  <2>1. /\ sizeOf = <<SLAB_SIZE, Aligned(FirstSize)>> /\ slab = 2 /\ freed = << >>
        /\ slabCap = Aligned(FirstSize) /\ offset = Aligned(FirstSize)
        /\ prev = <<[slab |-> 1, cap |-> SLAB_SIZE]>>
        /\ blocks = <<[slab |-> 2, at |-> 0, size |-> FirstSize]>>
        /\ table = 1 /\ oldTable = 1
    BY <1>4 DEF MapInit
  <2>2. ArenaInv
    BY <1>1, <1>2, <2>1 DEF ArenaInv, ArenaTypeOK, Chain, BelowOffset, BlocksApart, Slabs
  <2>3. TableInv
    BY <1>1, <2>1 DEF TableInv, TablesFit
  <2>. QED
    BY <1>3, <2>2, <2>3 DEF AllInv
<1>5. CASE ~ (Aligned(FirstSize) > SLAB_SIZE)
  <2>1. /\ sizeOf = <<SLAB_SIZE>> /\ slab = 1 /\ freed = << >>
        /\ slabCap = SLAB_SIZE /\ offset = Aligned(FirstSize) /\ prev = << >>
        /\ blocks = <<[slab |-> 1, at |-> 0, size |-> FirstSize]>>
        /\ table = 1 /\ oldTable = 1
    BY <1>5 DEF MapInit
  <2>2. ArenaInv
    BY <1>1, <1>2, <1>5, <2>1 DEF ArenaInv, ArenaTypeOK, Chain, BelowOffset, BlocksApart, Slabs
  <2>3. TableInv
    BY <1>1, <2>1 DEF TableInv, TablesFit
  <2>. QED
    BY <1>3, <2>2, <2>3 DEF AllInv
<1>. QED
  BY <1>4, <1>5

LEMMA PutInArena ==
  ASSUME AllInv, NEW k \in Keys, NEW v \in Values, hashmap_put(k, v)
  PROVE  AllInv'
<1>1. Put(k, v) /\ MapInv'
  BY PutKeepsInv DEF hashmap_put, AllInv
<1>2. CASE Loaded
  <2>. DEFINE size == 2 * cap * EntrySize
  <2>1. size \in Nat /\ cap \in Nat /\ EntrySize \in Nat
    BY MapInArenaAssumption DEF AllInv, MapInv, TypeOK
  <2>2. arena_alloc(size) /\ table' = Len(blocks') /\ oldTable' = table
    BY <1>2 DEF hashmap_put, Grow
  <2>3. cap' = 2 * cap /\ old_cap' = cap
    BY <1>1, <1>2 DEF Put
  <2>. HIDE DEF size
  <2>4. /\ ArenaInv'
        /\ \A i \in DOMAIN blocks : i \in DOMAIN blocks' /\ blocks'[i] = blocks[i]
        /\ Len(blocks') \in DOMAIN blocks' /\ blocks'[Len(blocks')].size = size
        /\ Len(blocks') \notin DOMAIN blocks
    BY <2>1, <2>2, AllocAppends DEF AllInv
  <2>5. cap' * EntrySize = size
    BY <2>1, <2>3 DEF size
  <2>6. TableInv'
    BY <2>2, <2>3, <2>4, <2>5 DEF AllInv, TableInv, TablesFit
  <2>. QED
    BY <1>1, <2>4, <2>6 DEF AllInv
<1>3. CASE ~ Loaded
  <2>1. UNCHANGED <<arenaVars, table, oldTable>>
    BY <1>3 DEF hashmap_put
  <2>2. cap' = cap /\ pc' = "insert"
    BY <1>1, <1>3 DEF Put
  <2>3. ArenaInv'
    BY <2>1, ArenaNextKeepsInv DEF AllInv
  <2>4. TableInv'
    BY <2>1, <2>2 DEF AllInv, TableInv, TablesFit, arenaVars
  <2>. QED
    BY <1>1, <2>3, <2>4 DEF AllInv
<1>. QED
  BY <1>2, <1>3

LEMMA PutGoesOnInArena == ASSUME AllInv, hashmap_put_goes_on PROVE AllInv'
<1>1. MapInv'
  BY RehashOneKeepsInv, RehashDoneKeepsInv, InsertKeepsInv DEF hashmap_put_goes_on, AllInv
<1>2. UNCHANGED <<arenaVars, table, oldTable>>
  BY DEF hashmap_put_goes_on
<1>3. ArenaInv'
  BY <1>2, ArenaNextKeepsInv DEF AllInv
<1>4. cap' = cap /\ (pc' = "rehash" => pc = "rehash" /\ old_cap' = old_cap)
  BY DEF hashmap_put_goes_on, RehashOne, RehashDone, Insert
<1>5. TableInv'
  BY <1>2, <1>4 DEF AllInv, TableInv, TablesFit, arenaVars
<1>. QED
  BY <1>1, <1>3, <1>5 DEF AllInv

LEMMA ElsewhereInArena == ASSUME AllInv, Elsewhere PROVE AllInv'
<1>1. ArenaNext /\ UNCHANGED <<vars, table, oldTable>>
  BY DEF Elsewhere
<1>2. MapInv' /\ ArenaInv'
  BY <1>1, NextKeepsInv, ArenaNextKeepsInv DEF AllInv
<1>3. \A i \in DOMAIN blocks : i \in DOMAIN blocks' /\ blocks'[i] = blocks[i]
  <2>1. ASSUME NEW size \in Sizes, arena_alloc(size)
        PROVE  \A i \in DOMAIN blocks : i \in DOMAIN blocks' /\ blocks'[i] = blocks[i]
    BY <2>1, AllocAppends, ArenaAssumption DEF AllInv
  <2>. QED
    BY <1>1, <2>1 DEF ArenaNext, arena_free, Released, arenaVars
<1>4. TableInv'
  BY <1>1, <1>3 DEF AllInv, TableInv, TablesFit, vars
<1>. QED
  BY <1>2, <1>4 DEF AllInv

LEMMA MapNextKeepsInv == AllInv /\ [MapNext]_mapVars => AllInv'
<1>. SUFFICES ASSUME AllInv, [MapNext]_mapVars PROVE AllInv'
  OBVIOUS
<1>1. ASSUME UNCHANGED mapVars PROVE AllInv'
  <2>1. MapInv' /\ ArenaInv'
    BY <1>1, NextKeepsInv, ArenaNextKeepsInv DEF AllInv, mapVars
  <2>. QED
    BY <1>1, <2>1 DEF AllInv, TableInv, TablesFit, mapVars, vars, arenaVars
<1>. QED
  BY <1>1, PutInArena, PutGoesOnInArena, ElsewhereInArena DEF MapNext

THEOREM AllInvariant == MapSpec => []AllInv
BY MapInitInv, MapNextKeepsInv, PTL DEF MapSpec

\* A map that shares its arena is the map of HashMap (hashmap_put calls
\* arena_alloc and nothing else that matters to it).
THEOREM MapInArenaIsMap == MapSpec => Spec
<1>1. MapInit => Init
  BY DEF MapInit
<1>2. [MapNext]_mapVars => [Next]_vars
  BY DEF MapNext, mapVars, hashmap_put, hashmap_put_goes_on, Elsewhere, Next
<1>. QED
  BY <1>1, <1>2, PTL DEF MapSpec, Spec

\* hashmap_get returns what hashmap_put has put, whatever shares the arena.
THEOREM MapInArenaIsDictionary == MapSpec => IsDictionary
BY MapInArenaIsMap, MapIsDictionary

\* The table in use, and the one rehash reads, are blocks as large as the
\* capacity needs, however often the map has grown and whatever else was
\* allocated (arena_alloc in hashmap_put).
THEOREM TablesAlwaysFit == MapSpec => []TablesFit
<1>1. AllInv => TablesFit
  BY DEF AllInv, TableInv
<1>. QED
  BY <1>1, AllInvariant, PTL

\* Nothing else in the arena shares memory with a table.
THEOREM MapBlocksStayApart == MapSpec => []BlocksApart
<1>1. AllInv => BlocksApart
  BY DEF AllInv, ArenaInv
<1>. QED
  BY <1>1, AllInvariant, PTL
=============================================================================

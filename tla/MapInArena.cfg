SPECIFICATION MapSpec
CONSTANTS
  k1 = k1
  k2 = k2
  k3 = k3
  k4 = k4
  Keys <- MCKeys
  Values = {a, null}
  NULL = null
  Hash <- MCHash
  InitialCap = 4
  MAX_LOAD_PCT = 50
  Unused = unused
  NoCall = nocall
  EntrySize = 3
  SLAB_SIZE = 32
  Alignment = 4
  Sizes = {2, 9}
  MaxBlocks = 5
INVARIANTS
  TypeOK
  SearchesEnd
  BlocksApart
  TablesFit
PROPERTIES
  IsDictionary
  EverySlabIsFreed

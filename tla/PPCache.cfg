SPECIFICATION FairSpec
CONSTANTS
  CondStackMax = 3
  Headers <- MCHeaders
  Names <- MCNames
  Keywords <- MCKeywords
  Bodies <- MCBodies
  Trees <- IndependentTrees
  Sources <- MCSources
  MaxTUs = 3
  MAX_INCLUDES = 3
  PP_CACHE_MAX = 6
  PP_CACHE_PER_PATH = 2
INVARIANTS
  CachedIsFresh
  ReplaySegmentsInSpan
  ScopesFollowCalls
PROPERTIES
  EveryUnitEnds

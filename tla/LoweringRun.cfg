SPECIFICATION Spec
CONSTANTS
  Programs <- Bodies
  Labels = {"one", "two", "three"}
  MAX_CASES = 3
INVARIANTS
  DoesWhatIsWritten
  NothingFollowsTerminator

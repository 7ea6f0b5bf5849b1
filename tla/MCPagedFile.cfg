\* Every file of up to five entries, pages of two.
CONSTANTS
  Keys <- FiveKeys
  PageSize = 2
SPECIFICATION Spec
INVARIANTS SearchFindsSaved LoadMatchesTree BlockGetMatchesLevels BlockLoadMatchesLevels RangeReturnsSaved MemoryRoundTrip

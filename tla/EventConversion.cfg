SPECIFICATION FairSpec
CONSTANTS
  i1 = i1
  i2 = i2
  Items = {i1, i2}
  Size = 2
\* The loop ends.
CHECK_DEADLOCK FALSE
INVARIANTS
  AddedWhole
  FailuresKnown
PROPERTIES
  ImplementsBatch
  EverySettled

CONSTANTS
  Items = {i1, i2, i3, i4}
  Keys = {"a", "A"}
  NoKey = NoKey
  NULL = NULL
  MaxOf <- MCMaxOf
  Lower <- MCLower
  NestingLimit = 3
  IntMax = 60
  FirstCap = 4
  Lengths = {0, 1, 2, 3, 4, 5, 6}
  Texts <- MCTexts
  MaxDamage = 1
  MaxLetters = 3
  MaxMem = 14
SPECIFICATION CjsonSpec
SYMMETRY MCSym
INVARIANTS TreesSound ParsesWell PrintsWell
PROPERTY ImplementsForest
CHECK_DEADLOCK FALSE

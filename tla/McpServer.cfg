CONSTANTS
  Calls = {c1, c2}
  Nobody = Nobody
  Exprs = {a, b}
  NoExpr = NoExpr
  Every = {2}
  MaxClock = 5
  Lengths = {3}
  MaxId = 1
  MaxTable = 2
SPECIFICATION FairSpec
INVARIANTS TypeOK NoUseAfterClose  ScaleIsFilmed
PROPERTIES ImagesOnTime ClearsItsPoint ServerEnds
CHECK_DEADLOCK FALSE

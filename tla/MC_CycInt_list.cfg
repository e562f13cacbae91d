CONSTANTS
  Handlers = {1, 2, 3}
  Vbl = 1
  Blitter = 2
  AutoSend = 4
  Commands = FALSE
  Scale = 2
  CE = FALSE
  Never = 6
  Delays <- MC_Delays
  Changes <- MC_Changes
  BusCycles <- MC_BusCycles
  MaxClock = 1
  MaxOps = 1
SPECIFICATION FairSpec
INVARIANTS TypeOK ListSound WalkAssertion
PROPERTIES TimersFireInOrder DueIsCalled

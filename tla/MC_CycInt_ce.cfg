CONSTANTS
  Handlers = {1, 3, 4}
  Vbl = 1
  Blitter = 2
  AutoSend = 4
  Commands = TRUE
  Scale = 2
  CE = TRUE
  Never = 10
  Delays <- MC_Delays
  Changes <- MC_Changes
  BusCycles <- MC_BusCycles
  MaxClock = 2
  MaxOps = 2
SPECIFICATION Spec
INVARIANT ListSound
PROPERTIES NoneLeftDue NoDrift

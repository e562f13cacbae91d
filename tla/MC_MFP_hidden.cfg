CONSTANTS
  Main = Main
  TT = TT
  MFPs <- MC_One
  IntMax = 1
  CE = TRUE
  SCU_IsEnabled = FALSE
  Accurate = FALSE
  IrqDelay = 1
  Never = 9
  MaskedLevels = {}
  Delays <- MC_Delays
  InsnCycles = 1
  MaxClock = 1
SPECIFICATION Spec
INVARIANT BlockedOnlyByService

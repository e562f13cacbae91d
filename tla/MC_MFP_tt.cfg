CONSTANTS
  Main = Main
  TT = TT
  MFPs <- MC_Two
  IntMax = 0
  CE = FALSE
  SCU_IsEnabled = TRUE
  Accurate = FALSE
  IrqDelay = 1
  Never = 9
  MaskedLevels = {6}
  Delays <- MC_NoDelay
  InsnCycles = 1
  MaxClock = 1
SPECIFICATION Spec
INVARIANTS IRQHasRequest IRQReachesCPU

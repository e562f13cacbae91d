CONSTANTS
  MaxFrames = 2
  MaxSteps = 2
  MaxBreakpoints = 2
SPECIFICATION Spec
PROPERTY StepsExact

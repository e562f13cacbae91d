CONSTANTS
  MaxFrames = 2
  MaxSteps = 2
  MaxBreakpoints = 2
SPECIFICATION FairSpec
INVARIANTS HostResetsCpu StopEndsRun FramesBounded BreakpointsWatched
PROPERTIES ImplementsControl RunReturns

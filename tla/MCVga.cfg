SPECIFICATION VgaFairSpec
PROPERTIES
  NoTornFrames
  FrameClockRuns

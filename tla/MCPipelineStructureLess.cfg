SPECIFICATION Spec
CONSTANTS
  a = a
  b = b
  c = c
  d = d
  e = e
  f = f
  g = g
  h = h
  Images = {a, b, c}
  Frames = {f, g, h}
  FrameOf <- Trivial
  Connected <- AllPairs
  Provided <- NoPair
  Imported <- NoModel
  Flags <- WithFallback
  InitNumTrials = 2
  InitMaxRegTrials = 1
  MaxRegTrials = 2
  MultipleModels = TRUE
  MaxNumModels = 2
  MinModelSize = 2
  MaxModelOverlap = 2
  FixExistingFrames = FALSE
  BaFramesRatio = 15
  BaFramesFreq = 2
  KMinNumFrames = 2
  KMinNumInitialRegTrials = 1
  KNumInitRelaxations = 1
PROPERTY ExitsOnlyWhenStuck

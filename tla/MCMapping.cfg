SPECIFICATION MCSpec
CONSTANTS
  a = a
  b = b
  c = c
  d = d
  e = e
  f = f
  g = g
  h = h
  Images = {a, b, c}
  Frames = {f, g, h}
  FrameOf <- Trivial
  Connected <- AllPairs
  Provided <- NoPair
  Imported <- NoModel
  Flags <- StructureBased
  InitNumTrials = 1
  InitMaxRegTrials = 1
  MaxRegTrials = 2
  MultipleModels = TRUE
  MaxNumModels = 2
  MinModelSize = 2
  MaxModelOverlap = 2
  FixExistingFrames = FALSE
  BaFramesRatio = 15
  BaFramesFreq = 2
  KMinNumFrames = 2
  KMinNumInitialRegTrials = 1
  KNumInitRelaxations = 1
  Workers = {"w1", "w2"}
  First <- MCFirst
  Second <- MCSecond
  Scenes <- MCScenes
  Thresholds = {1, 2, 3, 4}
  MinCovisibility = 2
  MinFrames = 2
  Posed = {1, 2, 3}
  MatchSets <- MCMatches
  Near <- MCNear
  MinViews = 2
  Required = 1
  MaxTracks = 3
INVARIANTS TypesOK StatisticsAgree ModelsKept SearchIsSound ConnectedOnes
PROPERTIES NewSeeds MappingEnds

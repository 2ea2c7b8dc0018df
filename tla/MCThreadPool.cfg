SPECIFICATION MCSpec
CONSTANTS
    w1 = w1
    w2 = w2
    c1 = c1
    c2 = c2
    good = good
    good2 = good2
    bad = bad
    nowhere = nowhere
    Workers <- MCWorkers
    Clients <- MCClients
    Tasks <- MCTasks
    Failing <- MCFailing
    Photos = {1, 2, 3}
    Problems <- MCProblems
    NoBitmap = {}
    Options <- MCOptions
    MaxRuns = 2
    NumImages = 4
    InUse = {1, 2, 3}
    Blocks <- MCBlocks
    Overlap <- MCOverlap
    Project <- MCProject
    Nowhere = nowhere
    Masked <- MCMasked
    Filtered <- MCFiltered
    Outside <- MCOutside
    Agree <- MCAgree
    MinNumPixels = 1
    MaxNumPixels = 2
    MaxTraversalDepth = 3
    SceneImages <- MCScene
    NumInliers <- MCWeight
    LeafMaxNumImages = 3
    ImageOverlap = 3
    MaxDepth = 2
    Cuts <- MCCuts
    Results <- MCResults
    Alignments <- MCAlignments
    Subjects = {"pool", "stereo", "fusion", "clusters"}
INVARIANTS TypesOK PoolNoLostWakeup ViewsComplete PixelsFused ClustersMerged
PROPERTIES WaitReports PoolCallsEnd DoneIsLeftAlone

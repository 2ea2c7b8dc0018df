SPECIFICATION MCSpec
CONSTANTS
    m1 = m1
    m2 = m2
    v1 = v1
    v2 = v2
    g1 = g1
    r1 = r1
    e1 = e1
    e2 = e2
    w1 = w1
    c1 = c1
    c2 = c2
    Matchers = {m1, m2}
    Verifiers = {v1}
    Guided = {g1}
    Batches <- TwoBatches
    SameFrame <- FramePair
    Modes = {"matching", "guided"}
    SetupMayFail = FALSE
    RigThreads = 0
    MaxRuns = 2
    PairOptions <- MCPairOptions
    GResets = 1
    Retrievers = {v1, v2}
    NumQueries = 5
    Broken = {2}
    QResets = 1
    Resizers = {r1}
    Extractors = {e1, e2}
    Writer = w1
    NumImages = 4
    Unreadable = {2}
    Featureless = {4}
    MayFail = {e2}
    QueueSize = 1
    ERuns = 2
    Cancellers = {c1, c2}
    NumModels = 2
    Options <- MCOptions
    ARuns = 2
INVARIANTS TypesOK NoAbort EveryPairMatched AllWritten EndsAsTold
PROPERTIES ResultsKept RunsEnd CancelIsNotFailure
CHECK_DEADLOCK FALSE

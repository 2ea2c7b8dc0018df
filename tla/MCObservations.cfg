SPECIFICATION MCSpec
CONSTANTS
    Images <- MCImages
    Frames <- MCFrames
    FrameOf <- Rig
    Observations <- MCObservations
    ImageOf <- MCImageOf
    Corrs <- MCCorrs
    InitialImages <- MCImages
    PointIds <- MCPointIds
    NoPoint = 0
    NoFrame = "none"
    NoObs = 0
    MaxTransitivity = 1
    CompleteTransitivity = 2
    ReMaxTrials = 1
    IgnoreTwoViewTracks = TRUE
    MinRecursiveTrackLength = 2
    MaybeBogus = {}
INVARIANTS TypesOK TracksAgree NothingDangles AllCountersAgree
           ModifiedComplete NothingThrows OptionsHonoured

------------------------------- MODULE MCMapping -------------------------------
(***************************************************************************)
(* Incremental mapping under five sets of options, and the parallel search   *)
(* for the initial pair; and the uses of the union-find.  A behaviour is one *)
(* of the eight:                                                            *)
(*   "single"    three images in frames of their own, one relaxation round, *)
(*   "models"    four images that are matched in two pairs only, so that    *)
(*               several models are built and discarded,                    *)
(*   "rigs"      two rigs of two cameras, an imported model with fixed      *)
(*               frames and an initial pair given by the user,              *)
(*   "given"     four images and one of them given by the user, so that    *)
(*               each model begins with it,                                *)
(*   "fallback"  three images, with the structure-less registration,        *)
(*   "search"    three images, each matched with the two others, in tasks   *)
(*               of two workers,                                            *)
(*   "tracks"    up to five matches of three images, two image points of    *)
(*               the first of which are close together, and a budget of     *)
(*               three tracks,                                              *)
(*   "parts"     six images in five frames, seen by five points or fewer,   *)
(*               with each of four thresholds: one part, two parts or none. *)
(***************************************************************************)
EXTENDS MCIncrementalPipeline, MappingSearch

VARIABLE about

all == <<about, vars, search, pruning, tracking>>

M == INSTANCE IncrementalPipeline WITH
        Images <- {a, b, c, d}, Frames <- {e, f, g, h}, FrameOf <- FourFrames,
        Connected <- TwoPairs, InitNumTrials <- 2, MaxRegTrials <- 1

R == INSTANCE IncrementalPipeline WITH
        Images <- {a, b, c, d}, Frames <- {f, g}, FrameOf <- Rigs,
        Connected <- {p \in SUBSET {a, b, c, d} :
                        Cardinality(p) = 2 /\ p \notin {{a, b}, {c, d}}},
        Provided <- PairBC, Imported <- OneFrame, FixExistingFrames <- TRUE,
        InitNumTrials <- 2, MaxRegTrials <- 1

G == INSTANCE IncrementalPipeline WITH
        Images <- {a, b, c, d}, Frames <- {e, f, g, h}, FrameOf <- FourFrames,
        Connected <- {{a, b}, {a, c}}, Provided <- {a},
        InitNumTrials <- 2, MaxRegTrials <- 1, KNumInitRelaxations <- 0

F == INSTANCE IncrementalPipeline WITH
        Flags <- WithFallback, MaxRegTrials <- 1, MultipleModels <- FALSE,
        KNumInitRelaxations <- 0

MCFirst == <<a, b, c>>
MCSecond == (a :> <<b, c>>) @@ (b :> <<c, a>>) @@ (c :> <<b, a>>)

(* Images 1 and 6 are of one rig. *)
MCRig == [i \in 1 .. 6 |-> IF i = 6 THEN 1 ELSE i]
Seen(points) == [frames |-> 1 .. 5, frameOf |-> MCRig, tracks |-> points]
MCScenes ==
    {Seen(<< <<1, 2, 3>>, <<1, 2, 3>>, <<4, 5, 6>>, <<4, 5>>, <<4, 5>> >>),
     Seen(<< <<1, 2, 3, 4>>, <<2, 3, 1>>, <<4, 5, 3>>, <<5, 4, 6>>, <<1, 5>> >>),
     Seen(<< <<1, 2, 6>>, <<1, 2, 6>>, <<3, 4, 5>>, <<5, 4, 3>>, <<2, 3, 4>> >>),
     Seen(<< <<1, 2>>, <<2, 3>>, <<4, 5>> >>),
     [frames |-> 1 .. 4, frameOf |-> MCRig,
      tracks |-> << <<1, 2, 6>>, <<3, 4, 6>>, <<3, 4, 6>>, <<1, 2, 3>> >>]}

Match(i, k, j, l) == << <<i, k>>, <<j, l>> >>
MCMatches ==
    {{},
     {Match(1, 1, 2, 1), Match(2, 1, 3, 1), Match(1, 2, 2, 2), Match(1, 3, 3, 3)},
     {Match(1, 1, 2, 1), Match(2, 1, 3, 1), Match(1, 2, 3, 1), Match(1, 3, 2, 3),
      Match(2, 4, 3, 4)},
     {Match(1, 1, 2, 1), Match(1, 3, 2, 1), Match(1, 2, 2, 2), Match(2, 3, 3, 3)},
     {Match(1, 1, 2, 1), Match(1, 2, 2, 2), Match(1, 3, 3, 3), Match(2, 3, 3, 3),
      Match(1, 4, 3, 4)},
     {Match(1, 1, 3, 1), Match(2, 1, 3, 1), Match(1, 1, 2, 2), Match(1, 2, 2, 3)}}
MCNear == {{<<1, 1>>, <<1, 2>>}}

ASSUME P!SearchAssumption
ASSUME Parts!ScenesAssumption
ASSUME Tracks!TracksAssumption

(* Whatever a behaviour is not about rests in one of its initial states. *)
MCInit ==
    /\ \/ about \in {"single", "search", "tracks", "parts"} /\ Init
       \/ about = "models" /\ M!Init
       \/ about = "rigs" /\ R!Init
       \/ about = "given" /\ G!Init
       \/ about = "fallback" /\ F!Init
    /\ P!Init /\ Tracks!Init /\ Parts!Init
    /\ about \in {"search", "tracks", "parts"} => ~unknownRig
    /\ about # "tracks" => matches = {}
    /\ about # "parts" => scene = (CHOOSE x \in MCScenes : TRUE) /\ threshold = 1
    /\ about # "search" => good = {} /\ before = {}

MappingNext(kind, step) ==
    about = kind /\ step /\ UNCHANGED <<about, search, pruning, tracking>>
SearchNext == about = "search" /\ P!Next /\ UNCHANGED <<about, vars, pruning, tracking>>
TracksNext == about = "tracks" /\ Tracks!Next /\ UNCHANGED <<about, vars, search, pruning>>
PartsNext == about = "parts" /\ Parts!Next /\ UNCHANGED <<about, vars, search, tracking>>
(* The points are added or the models made, and nothing is left to do. *)
Selected == about = "tracks" /\ gstage = "done" /\ UNCHANGED all
Pruned == about = "parts" /\ cstage \in {"done", "threw"} /\ UNCHANGED all

MCNext ==
    \/ MappingNext("single", Next) \/ MappingNext("models", M!Next)
    \/ MappingNext("rigs", R!Next) \/ MappingNext("given", G!Next)
    \/ MappingNext("fallback", F!Next)
    \/ SearchNext \/ TracksNext \/ Selected \/ PartsNext \/ Pruned

MCSpec ==
    /\ MCInit /\ [][MCNext]_all
    /\ WF_vars(about = "single" /\ Pipeline)
    /\ WF_vars(about = "rigs" /\ R!Pipeline)
    /\ WF_search(about = "search" /\ P!Caller)
    /\ \A w \in Workers : WF_search(about = "search" /\ P!Worker(w))

-----------------------------------------------------------------------------
(* The type invariants of mapper, pipeline, search and union-find            *)
(* (incremental_mapper.cc, incremental_pipeline.cc, math/union_find.h).      *)
TypesOK ==
    /\ about = "single" => TypeOK
    /\ about = "models" => M!TypeOK
    /\ about = "rigs" => R!TypeOK
    /\ about = "given" => G!TypeOK
    /\ about = "fallback" => F!TypeOK
    /\ about = "search" => P!TypeOK
    /\ about = "tracks" => Tracks!TypeOK
    /\ about = "parts" => Parts!TypeOK

(* The statistics of registration agree with the registrations: their        *)
(* counters equal what counting afresh would give, over all models, filtered *)
(* frames and discarded models; and as many trials are counted as fail, so   *)
(* that "images that failed to register for `max_reg_trials`" are ignored,    *)
(* also those of frames with several images, of which the attempt at one     *)
(* counts for all (sfm/incremental_mapper.cc:221-228 and 484).               *)
StatisticsAgree ==
    /\ about = "single" => RegistrationsCounted /\ FailedImagesIgnored
    /\ about = "models" => M!RegistrationsCounted /\ M!FailedImagesIgnored
    /\ about = "rigs" => R!RegistrationsCounted /\ R!FailedImagesIgnored
    /\ about = "given" => G!RegistrationsCounted /\ G!FailedImagesIgnored
    /\ about = "fallback" => F!RegistrationsCounted /\ F!FailedImagesIgnored

(* Only the first model may be small, and there are never more models than   *)
(* were asked for (incremental_pipeline.cc:438-500); and a model that the    *)
(* user imported with fixed frames comes out with all of them, also when     *)
(* trials fail and frames are filtered.                                      *)
ModelsKept ==
    /\ about = "models" => M!SmallModelsDiscarded /\ M!ModelsBounded
    /\ about = "given" => G!SmallModelsDiscarded /\ G!ModelsBounded
    /\ about = "rigs" => R!ImportedSurvives

(* "Only use images for initialization that are not registered in any of the *)
(* other reconstructions", whatever was filtered and discarded before, but an *)
(* image that the user gives, with which every model begins                   *)
(* (sfm/incremental_mapper_impl.cc:102-219).                                  *)
NewSeeds ==
    [][/\ about = "models" => M!SeedsFromOutside
       /\ about = "given" => G!SeedsFromOutside]_all

(* "This is deterministic and produces the same result as the single-threaded *)
(* version" (sfm/incremental_mapper_impl.cc:289), of the parallel search.     *)
SameAsSequential == P!SameAsSequential

(* The pipeline comes to its end: registered and filtered frames do not      *)
(* alternate for ever, trials are counted, also those of frames of several   *)
(* images; and so does every search.                                         *)
MappingEnds ==
    /\ about = "single" => Ends
    /\ about = "rigs" => R!Ends
    /\ about = "search" => P!Returns
=============================================================================

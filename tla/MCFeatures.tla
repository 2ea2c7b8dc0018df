------------------------------ MODULE MCFeatures ------------------------------
(***************************************************************************)
(* Feature matching, matching with geometric verification of rigs, feature  *)
(* extraction, the job of the C interface that runs extraction and matching *)
(* as stages, the generators of pairs, and the automatic reconstruction that *)
(* runs all stages; a behaviour is about one of them.                       *)
(*                                                                         *)
(* Matching: three pairs in two batches, one of two images in one frame      *)
(* (which is skipped), with a self-match, two pairs listed twice in a batch, *)
(* once reversed, and a pair that comes in both.                            *)
(* Verification: three pairs, one of two images in one frame and one that   *)
(* has both results already, in runs that match or only verify, and then    *)
(* verify rigs with two threads; the setup of the matcher may fail.         *)
(* Extraction: four images, one unreadable and one featureless, through a   *)
(* resizer, two extractors (the setup of one may fail) and the writer.      *)
(* All of these: two runs on one database, the first of which may be killed. *)
(* Job: two clients cancel, a third waits and releases.                     *)
(* Pairs: up to 7 images in blocks of 2 to 4; 6 images of two cameras in    *)
(* three frames, and 5 without rigs; 4 images on a line, up to three at one *)
(* place; 5 images whose matches are a path, a star or two components.      *)
(* Vocabulary tree: 5 queries, one of which throws, by two threads, so that *)
(* the first batch of four leaves one; Reset() at any time between calls.   *)
(* Automatic: two models, with and without what the dense stages need; two  *)
(* runs, stopped at any time, the first of which may be killed.             *)
(***************************************************************************)
EXTENDS FeatureStages, PairMatching

CONSTANTS m1, m2, v1, v2, g1, r1, e1, e2, w1, c1, c2

VARIABLE about

others == <<generator, queries, automatic>>
all == <<about, vars, extraction, job, others>>

TwoBatches == << <<<<1, 1>>, <<1, 2>>, <<2, 1>>, <<2, 3>>, <<1, 3>>, <<3, 1>>>>, <<<<1, 3>>>> >>
OneBatch == << <<<<1, 2>>, <<2, 1>>, <<2, 3>>, <<1, 3>>>> >>
FramePair == {{2, 3}}

V == INSTANCE FeatureMatching WITH
        Matchers <- {m1}, Verifiers <- {v1, v2}, Guided <- {},
        Batches <- OneBatch, SameFrame <- FramePair,
        Modes <- {"matching", "verification"},
        SetupMayFail <- TRUE, RigThreads <- 2

Path == {{i, i + 1} : i \in 0 .. 3}
Star == {{i, 4} : i \in {0, 1, 2}}
Components == {{0, 1}, {1, 2}, {3, 4}}

MCPairOptions ==
    [kind : {"exhaustive"}, n : 0 .. 7, size : 2 .. 4]
    \cup [kind : {"sequential"}, n : {6}, frames : {3}, overlap : {1, 2},
           quadratic : BOOLEAN, expand : {TRUE}]
    \cup [kind : {"sequential"}, n : {5}, frames : {5}, overlap : {1, 3},
           quadratic : BOOLEAN, expand : {FALSE}]
    \cup [kind : {"spatial"}, n : {4}, position : {<<0, 0, 0, 2>>, <<0, 1, 3, 6>>},
           distance : {0}, min : 1 .. 2, max : {2, 3}]
    \cup [kind : {"spatial"}, n : {4}, position : {<<0, 0, 0, 2>>, <<0, 1, 3, 6>>},
           distance : {2}, min : 0 .. 2, max : {2, 3}]
    \cup [kind : {"transitive"}, n : {5}, size : {2, 3}, iterations : {1, 2},
           matched : {Path, Star, Components}, unmatchable : {{}, {{0, 2}}}]
    \cup [kind : {"imported"}, n : {3}, size : {1, 2},
           list : {<<>>, <<<<0, 1>>, <<2, 1>>, <<1, 0>>>>}]
NoImages == [kind |-> "exhaustive", n |-> 0, size |-> 2]

AllStages == [s \in {"extraction", "matching", "sparse", "dense", "cuda", "mesher"} |-> TRUE]

MCOptions ==
    {AllStages, [AllStages EXCEPT !["cuda"] = FALSE],
     [AllStages EXCEPT !["extraction"] = FALSE, !["mesher"] = FALSE]}

ASSUME
    /\ E!QueueSizeAssumption /\ E!ImagesAssumption
    /\ E!RunsAssumption /\ E!ThreadsAssumption
ASSUME G!OptionsAssumption /\ Q!QueriesAssumption /\ A!StagesAssumption

NoRows == [p \in Pairs |-> "none"]

(* Whatever a behaviour is not about is in one of its initial states. *)
MCInit ==
    /\ \/ about = "matching" /\ Init /\ matches[{2, 3}] = "none" /\ geometry[{2, 3}] = "none"
       \/ about = "verification" /\ V!Init /\ matches[{1, 3}] = "good" /\ geometry[{1, 3}] = "good"
       \/ /\ about \in {"extraction", "job", "pairs", "vocabulary", "automatic"}
          /\ matches = NoRows /\ geometry = NoRows /\ mode = "guided" /\ Init
    /\ IF about = "pairs" THEN goptions \in MCPairOptions ELSE goptions = NoImages
    /\ IF about = "extraction" THEN TRUE ELSE db = {}
    /\ IF about = "automatic" THEN TRUE ELSE options = AllStages
    /\ E!Init /\ J!Init /\ G!Init /\ Q!Init /\ A!Init

MatchingNext == about = "matching" /\ Next /\ UNCHANGED <<about, extraction, job, others>>
VerificationNext ==
    about = "verification" /\ V!Next /\ UNCHANGED <<about, extraction, job, others>>
ExtractionNext == about = "extraction" /\ E!Next /\ UNCHANGED <<about, vars, job, others>>
JobNext == about = "job" /\ J!Next /\ UNCHANGED <<about, vars, extraction, others>>
PairsNext == about = "pairs" /\ G!Next /\ UNCHANGED <<about, vars, extraction, job, queries, automatic>>
VocabularyNext ==
    about = "vocabulary" /\ Q!Next /\ UNCHANGED <<about, vars, extraction, job, generator, automatic>>
AutomaticNext ==
    about = "automatic" /\ A!Next /\ UNCHANGED <<about, vars, extraction, job, generator, queries>>

MCNext ==
    \/ MatchingNext \/ VerificationNext \/ ExtractionNext \/ JobNext
    \/ PairsNext \/ VocabularyNext \/ AutomaticNext

(* The fairness of each, which binds it while the behaviour is about it. *)
MCSpec ==
    /\ MCInit /\ [][MCNext]_all
    /\ WF_vars(about = "matching" /\ ControllerStep)
    /\ \A w \in Workers : WF_vars(about = "matching" /\ WorkerStep(w))
    /\ WF_vars(about = "verification" /\ V!ControllerStep)
    /\ WF_vars(about = "verification" /\ V!RigStep)
    /\ \A w \in V!Workers : WF_vars(about = "verification" /\ V!WorkerStep(w))
    /\ WF_extraction(about = "extraction" /\ E!ControllerStep)
    /\ \A w \in E!Workers : WF_extraction(about = "extraction" /\ E!WorkerStep(w))
    /\ WF_job(about = "job" /\ J!Work) /\ WF_job(about = "job" /\ J!Map /\ requested)
    /\ \A x \in J!Stages : WF_job(about = "job" /\ J!ThreadEnds(x) /\ jstopped[x])
    /\ \A c \in Cancellers : WF_job(about = "job" /\ J!CancelStops(c))
    /\ WF_job(about = "job" /\ J!OwnerGoesOn)
    /\ WF_queries(about = "vocabulary" /\ Q!Call)
    /\ \A w \in {v1, v2} : WF_queries(about = "vocabulary" /\ Q!Work(w))

-----------------------------------------------------------------------------
(* The type invariants of all (feature_matching_utils.cc,                    *)
(* feature_extraction.cc, colmapkit.cc, pairing.cc).                         *)
TypesOK ==
    CASE about = "matching" -> TypeOK
      [] about = "verification" -> V!TypeOK
      [] about = "extraction" -> E!TypeOK
      [] about = "job" -> J!TypeOK
      [] about = "pairs" -> G!TypeOK
      [] about = "vocabulary" -> Q!TypeOK
      [] about = "automatic" -> A!TypeOK

(* "If only one of the matches or inlier matches exist, we recompute them   *)
(* from scratch" (feature_matching_utils.cc:473), while matching.            *)
HalfPairsRecomputed == about = "matching" => HalfResultsRecomputed

(* Matching and extraction come to an end, cancelled or not: no thread waits *)
(* for one that waits for it, every queue that is filled is served.  A       *)
(* cancel ends the job of the C interface whenever it comes, and Release     *)
(* returns.  Next() of the vocabulary tree's generator returns, and its      *)
(* destructor ends.                                                          *)
RunsEnd ==
    /\ <>[](CASE about = "matching" -> Ended
              [] about = "verification" -> V!Ended
              [] about = "extraction" -> E!Ended
              [] about = "job" -> J!Ended
              [] OTHER -> TRUE)
    /\ about = "vocabulary" => Q!CallsReturn
=============================================================================

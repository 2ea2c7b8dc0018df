-------------------------- MODULE IncrementalPipeline --------------------------
(***************************************************************************)
(* The incremental pipeline (controllers/incremental_pipeline.cc) driving   *)
(* the incremental mapper (sfm/incremental_mapper.cc): the outer relaxation *)
(* rounds, the trials of a round, the registration loop of one model, and   *)
(* the registration statistics the mapper keeps across models.              *)
(*                                                                         *)
(* Points and poses are left out.  What they decide - which images see      *)
(* enough points, whether an estimation succeeds, which frames a filter     *)
(* removes, whether enough points were added for a global refinement - is   *)
(* any choice; only FilterFrames' lower bound and the fact that points need *)
(* two registered images are kept.  Sizes are constants so that small       *)
(* instances reach every threshold.                                         *)
(***************************************************************************)
EXTENDS Naturals, Sequences, FiniteSets

CONSTANTS
    Images, Frames,
    FrameOf,                \* the frame of each image
    Connected,              \* pairs of images with correspondences
    Provided,               \* those of init_image_id1 and 2 that are given, not the same
    Imported,               \* manager at the start: models of registered frames
    Flags,                  \* structure_less_flags
    InitNumTrials, InitMaxRegTrials, MaxRegTrials,
    MultipleModels, MaxNumModels, MinModelSize, MaxModelOverlap,
    FixExistingFrames,
    BaFramesRatio, BaFramesFreq,  \* ba_global_frames_ratio in tenths, and freq
    KMinNumFrames,          \* 20 in FilterFrames
    KMinNumInitialRegTrials, \* 30 in ReconstructSubModel
    KNumInitRelaxations     \* 2 in Run

ASSUME PipelineAssumption ==
    /\ IsFiniteSet(Images) /\ IsFiniteSet(Frames) /\ FrameOf \in [Images -> Frames]
    /\ \A p \in Connected : p \subseteq Images /\ Cardinality(p) = 2
    /\ IsFiniteSet(Provided) /\ Cardinality(Provided) <= 2
    /\ Imported \in Seq(SUBSET Frames) /\ Len(Imported) <= 1
    /\ Flags \in {<<FALSE>>, <<TRUE>>, <<FALSE, TRUE>>}
    /\ {InitNumTrials, InitMaxRegTrials, MaxRegTrials, MaxNumModels} \subseteq Nat \ {0}
    /\ {MinModelSize, MaxModelOverlap, BaFramesFreq} \subseteq Nat
    /\ BaFramesRatio \in Nat /\ BaFramesRatio > 10
    /\ {KMinNumFrames, KMinNumInitialRegTrials, KNumInitRelaxations} \subseteq Nat

VARIABLES
    (* reconstruction_manager_ and the mapper's current model *)
    models,                 \* the registered frames of each model
    cur,                    \* index of the model in work, or 0
    (* RegistrationStatistics and the per-model sets of the mapper *)
    num_registrations, num_total_reg_images, num_shared_reg_images,
    init_image_pairs, init_num_reg_trials,
    num_reg_trials,         \* of both kinds: [structure_less][image]
    filtered_frames, existing_frame_ids,
    (* the pipeline *)
    pc, stage, trial, status,
    reg_next_success, prev_reg_next_success,
    flag, fresh, others, reg_trial, ba_prev_num_reg_frames,
    stopped,                \* CheckIfStopped() or CheckReachedMaxRuntime()
    unknownRig,             \* HasUnknownSensorFromRig
    (* history *)
    failures,               \* failed registrations in this model, like num_reg_trials
    grew                    \* a frame was registered in this pass of the loop

stats == <<num_registrations, num_total_reg_images, num_shared_reg_images>>
seeds == <<init_image_pairs, init_num_reg_trials>>
model == <<num_reg_trials, filtered_frames, existing_frame_ids, failures>>
loop == <<reg_next_success, prev_reg_next_success, flag, fresh, others, reg_trial,
          ba_prev_num_reg_frames, grew>>
vars == <<models, cur, stats, seeds, model, pc, stage, trial, status, loop, stopped,
          unknownRig>>

Statuses == {"SUCCESS", "INTERRUPTED", "CONTINUE", "STOP", "NO_INITIAL_PAIR",
             "BAD_INITIAL_PAIR", "UNKNOWN_SENSOR_FROM_RIG"}
LastStage == 2 * KNumInitRelaxations  \* of two thresholds in turn

ImagesOf(S) == {i \in Images : FrameOf[i] \in S}
Reg == IF cur = 0 THEN {} ELSE models[cur]          \* RegFrameIds
NumRegImages == Cardinality(ImagesOf(Reg))
min_model_size ==
    IF MinModelSize < Cardinality(Images) \div 2 THEN MinModelSize
    ELSE Cardinality(Images) \div 2
NoTrials == [sl \in BOOLEAN |-> [i \in Images |-> 0]]

TypeOK ==
    /\ models \in Seq(SUBSET Frames) /\ cur \in 0..Len(models)
    /\ num_registrations \in [Images -> Nat]
    /\ num_total_reg_images \in Nat /\ num_shared_reg_images \in Nat
    /\ init_image_pairs \subseteq Connected \cup {Provided}
    /\ init_num_reg_trials \in [Images -> 0..InitNumTrials]
    /\ num_reg_trials \in [BOOLEAN -> [Images -> Nat]]
    /\ filtered_frames \subseteq Frames /\ existing_frame_ids \subseteq Frames
    /\ pc \in {"trial", "init", "check", "loop", "find", "attempt", "refine", "post",
               "after", "end", "return", "done"}
    /\ stage \in 0..LastStage /\ trial \in 0..InitNumTrials /\ status \in Statuses
    /\ {reg_next_success, prev_reg_next_success, stopped, unknownRig, grew} \subseteq BOOLEAN
    /\ flag \in DOMAIN Flags /\ reg_trial \in Nat
    /\ fresh \subseteq Images /\ others \subseteq Images
    /\ ba_prev_num_reg_frames \in 0..Cardinality(Frames)
    /\ failures \in [BOOLEAN -> [Images -> 0..MaxRegTrials]]

Init ==
    /\ models = Imported /\ cur = 0
    /\ num_registrations = [i \in Images |-> 0]
    /\ num_total_reg_images = 0 /\ num_shared_reg_images = 0
    /\ init_image_pairs = {} /\ init_num_reg_trials = [i \in Images |-> 0]
    /\ num_reg_trials = NoTrials /\ failures = NoTrials
    /\ filtered_frames = {} /\ existing_frame_ids = {}
    /\ pc = "trial" /\ stage = 0 /\ trial = 0 /\ status = "CONTINUE"
    /\ reg_next_success = TRUE /\ prev_reg_next_success = TRUE
    /\ flag = 1 /\ fresh = {} /\ others = {} /\ reg_trial = 0
    /\ ba_prev_num_reg_frames = 0 /\ grew = FALSE
    /\ stopped = FALSE /\ unknownRig \in BOOLEAN
-----------------------------------------------------------------------------
(* The mapper *)

(* RegisterFrameEvent: k[i] events for each image i, on top of `shared` shared ones. *)
RegisterFrameEvents(k, shared) ==
    LET r == num_registrations IN
    /\ num_registrations' = [i \in Images |-> r[i] + k[i]]
    /\ num_total_reg_images' =
         num_total_reg_images + Cardinality({i \in Images : r[i] = 0 /\ k[i] > 0})
    /\ num_shared_reg_images' =
         shared + Cardinality({i \in Images : r[i] > 0 /\ k[i] > 0})
                + Cardinality({i \in Images : k[i] > 1})

Once(S) == [i \in Images |-> IF FrameOf[i] \in S THEN 1 ELSE 0]

(* Mutant: an image that other models have leaves the total as well. *)
DeRegisterFrameEvents_Total(S) ==
    LET r == num_registrations IN
    /\ num_registrations' = [i \in Images |-> r[i] - Once(S)[i]]
    /\ num_total_reg_images' = num_total_reg_images - Cardinality(ImagesOf(S))
    /\ num_shared_reg_images' =
         num_shared_reg_images - Cardinality({i \in ImagesOf(S) : r[i] > 1})

(* DeRegisterFrameEvent for every frame of S *)
DeRegisterFrameEvents(S) ==
    LET r == num_registrations IN
    /\ num_registrations' = [i \in Images |-> r[i] - Once(S)[i]]
    /\ num_total_reg_images' =
         num_total_reg_images - Cardinality({i \in ImagesOf(S) : r[i] = 1})
    /\ num_shared_reg_images' =
         num_shared_reg_images - Cardinality({i \in ImagesOf(S) : r[i] > 1})

(* obs_manager_->RegisterFrame and the event, for frame f *)
RegisterFrame(f) ==
    /\ models' = [models EXCEPT ![cur] = @ \cup {f}]
    /\ RegisterFrameEvents(Once({f}), num_shared_reg_images)
    /\ grew' = TRUE

(* Mutant: fixed frames are filtered too. *)
FilterFrames_Fixed(S) ==
    /\ S \subseteq Reg
    /\ S # {} => Cardinality(Reg) >= KMinNumFrames
    /\ models' = [models EXCEPT ![cur] = @ \ S]
    /\ DeRegisterFrameEvents(S)
    /\ filtered_frames' = filtered_frames \cup S
    /\ UNCHANGED <<num_reg_trials, existing_frame_ids, failures>>

(* FilterFrames: any frames, once there are enough, but the fixed ones *)
FilterFrames(S) ==
    /\ S \subseteq Reg
    /\ S # {} => Cardinality(Reg) >= KMinNumFrames
    /\ FixExistingFrames => S \cap existing_frame_ids = {}
    /\ models' = [models EXCEPT ![cur] = @ \ S]
    /\ DeRegisterFrameEvents(S)
    /\ filtered_frames' = filtered_frames \cup S
    /\ UNCHANGED <<num_reg_trials, existing_frame_ids, failures>>

(* BeginReconstruction with model idx of ms *)
BeginReconstruction(ms, idx) ==
    /\ models' = ms /\ cur' = idx
    /\ RegisterFrameEvents(Once(ms[idx]), 0)
    /\ existing_frame_ids' = ms[idx] /\ filtered_frames' = {}
    /\ num_reg_trials' = NoTrials /\ failures' = NoTrials

(* EndReconstruction, and ReconstructionManager::Delete of a discarded model *)
Keep == cur' = 0 /\ UNCHANGED <<models, stats>>
Discard ==
    /\ DeRegisterFrameEvents(Reg)
    /\ models' = [k \in 1..Len(models) - 1 |-> models[IF k < cur THEN k ELSE k + 1]]
    /\ cur' = 0

(* FindFirstInitialImage and FindSecondInitialImage: images with correspondences *)
(* that are registered in no model; the first not used too often.  A single image *)
(* that is given is the first, without either condition. *)
Unregistered == {i \in Images : num_registrations[i] = 0}
IsInitialPairProvided == Cardinality(Provided) = 2

(* Mutant: the second image may be registered in another model. *)
SeedPairs_FirstOnly ==
    {p \in Connected :
        IF Provided = {}
        THEN \E i \in p : i \in Unregistered /\ init_num_reg_trials[i] < InitMaxRegTrials
        ELSE Provided \subseteq p}

SeedPairs ==
    {p \in Connected :
        /\ Provided \subseteq p /\ p \ Provided \subseteq Unregistered
        /\ Provided = {} => \E i \in p : init_num_reg_trials[i] < InitMaxRegTrials}

(* reg_stats_.num_reg_trials, or num_structure_less_reg_trials, of the images of S *)
CountTrials(sl, S) ==
    num_reg_trials' =
        [num_reg_trials EXCEPT ![sl] = [i \in Images |-> @[i] + (IF i \in S THEN 1 ELSE 0)]]

(* RegisterInitialImagePair: two events for the images of a frame with both *)
RegisterInitialImagePair(a, b) ==
    /\ init_num_reg_trials' =
         [i \in Images |-> init_num_reg_trials[i] + (IF i \in {a, b} THEN 1 ELSE 0)]
    /\ CountTrials(FALSE, {a, b})
    /\ models' = [models EXCEPT ![cur] = @ \cup {FrameOf[a], FrameOf[b]}]
    /\ RegisterFrameEvents([i \in Images |-> Once({FrameOf[a]})[i] + Once({FrameOf[b]})[i]],
                           num_shared_reg_images)
-----------------------------------------------------------------------------
(* Reconstruct and InitializeReconstruction *)

Finish(st) == status' = st /\ pc' = "end"

EnterLoop(r) ==
    /\ reg_next_success' = TRUE /\ prev_reg_next_success' = TRUE
    /\ ba_prev_num_reg_frames' = Cardinality(r)
    /\ grew' = FALSE
    /\ UNCHANGED <<flag, fresh, others, reg_trial>>    \* still initial

(* The top of the trial loop.  A user's model is continued in the first trial. *)
BeginTrial ==
    /\ pc = "trial" /\ trial < InitNumTrials /\ ~stopped
    /\ LET continue == stage = 0 /\ trial = 0 /\ models # <<>>
           ms == IF continue THEN models ELSE Append(models, {})
           idx == IF continue THEN 1 ELSE Len(ms)
       IN /\ BeginReconstruction(ms, idx)
          /\ CASE unknownRig -> Finish("UNKNOWN_SENSOR_FROM_RIG") /\ UNCHANGED loop
               [] ~unknownRig /\ ms[idx] = {} -> pc' = "init" /\ UNCHANGED <<status, loop>>
               [] ~unknownRig /\ ms[idx] # {} ->
                    pc' = "loop" /\ EnterLoop(ms[idx]) /\ UNCHANGED status
    /\ UNCHANGED <<seeds, stage, trial, stopped, unknownRig>>

EndTrials ==
    /\ pc = "trial" /\ (trial >= InitNumTrials \/ stopped)
    /\ status' = IF trial >= InitNumTrials THEN "CONTINUE" ELSE "STOP"
    /\ pc' = "return"
    /\ UNCHANGED <<models, cur, stats, seeds, model, stage, trial, loop, stopped, unknownRig>>

(* FindInitialImagePair gives up after it has tried all pairs, an image of a *)
(* provided pair is not in the reconstruction, or the pair is unsuitable. *)
NoInitialPair ==
    /\ pc = "init"
    /\ \/ /\ ~IsInitialPairProvided /\ Finish("NO_INITIAL_PAIR")
          /\ init_image_pairs' = init_image_pairs \cup SeedPairs
       \/ /\ IsInitialPairProvided /\ UNCHANGED init_image_pairs
          /\ Finish(IF Provided \subseteq Images THEN "BAD_INITIAL_PAIR" ELSE "NO_INITIAL_PAIR")
    /\ UNCHANGED <<models, cur, stats, init_num_reg_trials, model, stage, trial, loop,
                   stopped, unknownRig>>

(* A pair is found (module InitialPairSearch), others may have been tried. *)
InitialPair ==
    /\ pc = "init"
    /\ \E a, b \in Images : \E Tried \in SUBSET (SeedPairs \ init_image_pairs) :
         /\ IF IsInitialPairProvided THEN {a, b} = Provided /\ Tried = {} ELSE {a, b} \in Tried
         /\ init_image_pairs' = init_image_pairs \cup Tried \cup {{a, b}}
         /\ RegisterInitialImagePair(a, b)
    /\ pc' = "check"
    /\ UNCHANGED <<cur, filtered_frames, existing_frame_ids, failures, stage, trial,
                   status, loop, stopped, unknownRig>>

(* Triangulation, global adjustment and filters of the initial pair *)
CheckInitialPair ==
    /\ pc = "check"
    /\ \E S \in SUBSET Reg : \E enough \in BOOLEAN :
         /\ FilterFrames(S)
         /\ IF enough /\ Reg \ S # {}
            THEN pc' = "loop" /\ EnterLoop(Reg \ S) /\ UNCHANGED status
            ELSE Finish("BAD_INITIAL_PAIR") /\ UNCHANGED loop
    /\ UNCHANGED <<cur, seeds, stage, trial, stopped, unknownRig>>
-----------------------------------------------------------------------------
(* ReconstructSubModel: the registration loop *)

pipe == <<cur, seeds, stage, trial, status, stopped, unknownRig>>

LoopTop ==
    /\ pc = "loop"
    /\ IF stopped
       THEN pc' = "after" /\ UNCHANGED loop
       ELSE /\ prev_reg_next_success' = reg_next_success /\ reg_next_success' = FALSE
            /\ grew' = FALSE /\ flag' = 1 /\ pc' = "find"
            /\ UNCHANGED <<fresh, others, reg_trial, ba_prev_num_reg_frames>>
    /\ UNCHANGED <<models, stats, model, pipe>>

(* FindNextImages: unregistered images that see enough points and have trials *)
(* left; first those neither filtered nor tried. *)
FindNextImages ==
    /\ pc = "find"
    /\ LET trials == num_reg_trials[Flags[flag]]
           IsFresh(i) == FrameOf[i] \notin filtered_frames /\ trials[i] = 0
       IN \E see \in SUBSET {i \in Images \ ImagesOf(Reg) : trials[i] < MaxRegTrials} :
            /\ NumRegImages < 2 => see = {}
            /\ fresh' = {i \in see : IsFresh(i)}
            /\ others' = {i \in see : ~IsFresh(i)}
    /\ reg_trial' = 0 /\ pc' = "attempt"
    /\ UNCHANGED <<models, stats, model, reg_next_success, prev_reg_next_success, flag,
                   ba_prev_num_reg_frames, grew, pipe>>

Candidates == IF fresh # {} THEN fresh ELSE others

(* Mutant: only the estimation for a single camera counts. *)
CountNextImage_NotGeneral(i) ==
    \/ CountTrials(FALSE, {i})
    \/ Cardinality(ImagesOf({FrameOf[i]})) > 1 /\ UNCHANGED num_reg_trials

(* RegisterNextImage counts a trial of the image, or hands its frame to *)
(* RegisterNextGeneralFrame, which counts one of each image of it. *)
CountNextImage(i) == \E S \in {{i}, ImagesOf({FrameOf[i]})} : CountTrials(FALSE, S)

(* Mutant: a successful registration counts no trial. *)
Registered_NotCounted ==
    /\ pc = "attempt"
    /\ \E i \in Candidates : RegisterFrame(FrameOf[i])
    /\ reg_next_success' = TRUE /\ pc' = "refine"
    /\ UNCHANGED <<num_reg_trials, filtered_frames, existing_frame_ids, failures,
                   prev_reg_next_success, flag, fresh, others, reg_trial,
                   ba_prev_num_reg_frames, pipe>>

Registered ==
    /\ pc = "attempt"
    /\ \E i \in Candidates :
         /\ RegisterFrame(FrameOf[i])
         /\ IF Flags[flag] THEN CountTrials(TRUE, {i}) ELSE CountNextImage(i)
    /\ reg_next_success' = TRUE /\ pc' = "refine"
    /\ UNCHANGED <<filtered_frames, existing_frame_ids, failures, prev_reg_next_success,
                   flag, fresh, others, reg_trial, ba_prev_num_reg_frames, pipe>>

(* A failed attempt takes the next candidate; a small model gives up after some. *)
NextCandidate(i) ==
    /\ LET giveUp == reg_trial >= KMinNumInitialRegTrials /\ NumRegImages' < min_model_size
       IN /\ fresh' = IF giveUp THEN {} ELSE fresh \ {i}
          /\ others' = IF giveUp THEN {} ELSE others \ {i}
    /\ reg_trial' = reg_trial + 1
    /\ failures' = [failures EXCEPT ![Flags[flag]][i] =
                      IF @ < MaxRegTrials THEN @ + 1 ELSE @]
    /\ UNCHANGED <<filtered_frames, existing_frame_ids, reg_next_success,
                   prev_reg_next_success, flag, ba_prev_num_reg_frames>>

NotRegistered ==
    /\ pc = "attempt"
    /\ \E i \in Candidates :
         /\ UNCHANGED <<models, cur, stats, grew>>
         /\ IF Flags[flag] THEN CountTrials(TRUE, {i}) ELSE CountNextImage(i)
         /\ NextCandidate(i)
    /\ UNCHANGED <<pc, pipe>>

(* RegisterNextStructureLessImage registers the frame before the refinement that *)
(* may make it return false. *)
RefinementFailed ==
    /\ pc = "attempt" /\ Flags[flag]
    /\ UNCHANGED <<pc, pipe>>
    /\ \E i \in Candidates :
         /\ RegisterFrame(FrameOf[i]) /\ CountTrials(TRUE, {i})
         /\ NextCandidate(i)

NoCandidate ==
    /\ pc = "attempt" /\ Candidates = {}
    /\ IF flag < Len(Flags)
       THEN flag' = flag + 1 /\ pc' = "find"
       ELSE pc' = "post" /\ flag' = 1
    /\ reg_trial' = 0
    /\ UNCHANGED <<models, stats, model, reg_next_success, prev_reg_next_success, fresh,
                   others, ba_prev_num_reg_frames, grew, pipe>>

(* The locals of the candidate loop go out of scope. *)
LeaveCandidates == flag' = 1 /\ fresh' = {} /\ others' = {} /\ reg_trial' = 0

(* After a registration: the local and perhaps the global refinement *)
CheckRunGlobalRefinement ==
    \/ Cardinality(Reg) * 10 >= BaFramesRatio * ba_prev_num_reg_frames
    \/ Cardinality(Reg) >= BaFramesFreq + ba_prev_num_reg_frames

Refine ==
    /\ pc = "refine"
    /\ \/ \E S \in SUBSET Reg :       \* frames or points have grown enough
            /\ FilterFrames(S)
            /\ ba_prev_num_reg_frames' = Cardinality(Reg \ S)
       \/ /\ ~CheckRunGlobalRefinement
          /\ UNCHANGED <<models, stats, model, ba_prev_num_reg_frames>>
    /\ LeaveCandidates /\ pc' = "post"
    /\ UNCHANGED <<reg_next_success, prev_reg_next_success, grew, pipe>>

Overlaps == num_shared_reg_images >= MaxModelOverlap

(* The end of the pass; after a first failure a final global refinement *)
EndPass ==
    /\ pc = "post"
    /\ pc' = IF ~Overlaps /\ (reg_next_success \/ prev_reg_next_success)
             THEN "loop" ELSE "after"
    /\ IF ~Overlaps /\ ~reg_next_success /\ prev_reg_next_success
       THEN \E S \in SUBSET Reg : FilterFrames(S)
       ELSE UNCHANGED <<models, stats, model>>
    /\ UNCHANGED <<loop, pipe>>

(* Interrupted, or the final global refinement *)
AfterLoop ==
    /\ pc = "after"
    /\ \E S \in SUBSET Reg :
         /\ S # {} => ~stopped /\ Cardinality(Reg) # ba_prev_num_reg_frames
         /\ FilterFrames(S)
    /\ Finish(IF stopped THEN "INTERRUPTED" ELSE "SUCCESS")
    /\ UNCHANGED <<loop, cur, seeds, stage, trial, stopped, unknownRig>>
-----------------------------------------------------------------------------
(* The switch on the status of a sub-model, and Run *)

(* Mutant: only an empty model is discarded. *)
TooSmall_Empty == NumRegImages = 0

TooSmall ==
    \/ MultipleModels /\ Len(models) > 1 /\ NumRegImages < min_model_size
    \/ NumRegImages = 0

(* Mutant: off by one in the number of models *)
EnoughModels_OneMore(ms) ==
    \/ ~MultipleModels
    \/ Len(ms) > MaxNumModels
    \/ num_total_reg_images >= Cardinality(Images) - 1

EnoughModels(ms) ==
    \/ ~MultipleModels
    \/ Len(ms) >= MaxNumModels
    \/ num_total_reg_images >= Cardinality(Images) - 1

NextTrial == trial' = trial + 1 /\ pc' = "trial" /\ UNCHANGED status
LeaveTrials(st) == status' = st /\ pc' = "return" /\ UNCHANGED trial

EndTrial ==
    /\ pc = "end"
    /\ \/ status = "INTERRUPTED" /\ Keep /\ LeaveTrials("STOP")
       \/ status = "UNKNOWN_SENSOR_FROM_RIG" /\ Discard /\ LeaveTrials("STOP")
       \/ status = "BAD_INITIAL_PAIR" /\ Discard /\ NextTrial
       \/ status = "NO_INITIAL_PAIR" /\ Discard /\ LeaveTrials("CONTINUE")
       \/ /\ status = "SUCCESS"
          /\ IF TooSmall THEN Discard ELSE Keep
          /\ IF EnoughModels(models') THEN LeaveTrials("STOP") ELSE NextTrial
    /\ UNCHANGED <<seeds, model, stage, loop, stopped, unknownRig>>

ShouldStop == num_total_reg_images = Cardinality(Images) \/ stopped

(* Mutant: the trials of the initial images are not reset. *)
Return_KeepTrials ==
    /\ pc = "return"
    /\ IF status = "STOP" \/ stage = LastStage \/ ShouldStop
       THEN pc' = "done" /\ UNCHANGED <<stage, trial, seeds>>
       ELSE /\ stage' = stage + 1 /\ trial' = 0 /\ pc' = "trial"
            /\ init_image_pairs' = {} /\ UNCHANGED init_num_reg_trials
    /\ UNCHANGED <<models, cur, stats, model, status, loop, stopped, unknownRig>>

(* Back in Run: the next relaxation of the initialization thresholds *)
Return ==
    /\ pc = "return"
    /\ IF status = "STOP" \/ stage = LastStage \/ ShouldStop
       THEN pc' = "done" /\ UNCHANGED <<stage, trial, seeds>>
       ELSE /\ stage' = stage + 1 /\ trial' = 0 /\ pc' = "trial"
            /\ init_image_pairs' = {} /\ init_num_reg_trials' = [i \in Images |-> 0]
    /\ UNCHANGED <<models, cur, stats, model, status, loop, stopped, unknownRig>>

(* The user stops the thread or the maximum runtime passes, at any time. *)
StopRequest ==
    /\ pc # "done" /\ ~stopped /\ stopped' = TRUE
    /\ UNCHANGED <<models, cur, stats, seeds, model, pc, stage, trial, status, loop,
                   unknownRig>>

Done == pc = "done" /\ UNCHANGED vars

Pipeline ==
    \/ BeginTrial \/ EndTrials \/ NoInitialPair \/ InitialPair \/ CheckInitialPair
    \/ LoopTop \/ FindNextImages \/ Registered \/ NotRegistered \/ RefinementFailed
    \/ NoCandidate \/ Refine \/ EndPass \/ AfterLoop \/ EndTrial \/ Return
Next == Pipeline \/ StopRequest \/ Done

Spec == Init /\ [][Next]_vars /\ WF_vars(Pipeline)
-----------------------------------------------------------------------------
(* Safety *)

InModels(i) == Cardinality({k \in DOMAIN models : FrameOf[i] \in models[k]})

(* The statistics, kept by increments over all models, filtered frames and *)
(* discarded models, are what their comments say: "The number of reconstructions *)
(* in which images are registered", and the images registered in at least one *)
(* model and shared with other models. *)
RegistrationsCounted ==
    cur # 0 =>
      /\ \A i \in Images : num_registrations[i] = InModels(i)
      /\ num_total_reg_images = Cardinality({i \in Images : InModels(i) > 0})
      /\ num_shared_reg_images = Cardinality({i \in ImagesOf(Reg) : InModels(i) > 1})

(* Only the first model may be small; an interrupted one is kept as it is. *)
SmallModelsDiscarded ==
    \A k \in 2..Len(models) :
      \/ k = cur
      \/ Cardinality(ImagesOf(models[k])) >= min_model_size
      \/ stopped /\ k = Len(models)

(* No round of relaxation and no discarded model takes the pipeline past the *)
(* number of sub-models asked for. *)
ModelsBounded == Len(models) <= MaxNumModels

(* "Only use images for initialization that are not registered in any of the *)
(* other reconstructions", whatever was filtered and discarded before, but those *)
(* that the user gives, with which every model begins. *)
SeedsFromOutside ==
    pc = "init" /\ pc' = "check" =>
        /\ \A i \in Provided : FrameOf[i] \in models'[cur]
        /\ \A k \in DOMAIN models :
              k # cur => models[k] \cap models'[cur] \subseteq {FrameOf[i] : i \in Provided}
SeedsAreNew == [][SeedsFromOutside]_vars

(* "This function automatically ignores images that failed to register for *)
(* `max_reg_trials`", whichever estimation they were handed to and whatever else *)
(* was registered or filtered meanwhile. *)
FailedImagesIgnored ==
    pc = "attempt" => \A i \in Candidates : failures[Flags[flag]][i] < MaxRegTrials

(* A model the user imported with fixed frames comes out with all of them. *)
ImportedSurvives ==
    FixExistingFrames /\ ~unknownRig =>
      \A k \in DOMAIN Imported : Imported[k] # {} =>
        k \in DOMAIN models /\ Imported[k] \subseteq models[k]

(* "If no image could be registered, try a single final global iterative bundle *)
(* adjustment and try again to register one image. If this fails once, then exit *)
(* the incremental mapping": the loop ends, but for overlap or a stop, after a *)
(* pass that registered nothing. *)
ExitsOnlyWhenStuck == [][pc = "post" /\ pc' = "after" /\ ~Overlaps => ~grew]_vars

(* Liveness: registered and filtered frames cannot alternate forever, and every *)
(* loop of trials ends, since trials are counted. *)
Ends == <>(pc = "done")
=============================================================================

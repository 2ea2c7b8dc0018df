------------------------ MODULE AutomaticReconstruction ------------------------
(***************************************************************************)
(* colmap::AutomaticReconstructionController                                *)
(* (controllers/automatic_reconstruction.cc): a thread that runs the stages *)
(* from extraction to meshing on a workspace, skips what the workspace has, *)
(* and can be stopped by another thread, killed, and run again.             *)
(*                                                                         *)
(* The results of a stage are kept with the model they are made of and      *)
(* whether they are all that the stage makes of it: a stage that is stopped *)
(* or killed, or works on less than all, leaves less.  The smaller the      *)
(* number of a model, the more points it has.                               *)
(***************************************************************************)
EXTENDS Naturals, Sequences, SequencesExt, Functions

CONSTANTS
    NumModels,              \* models that the mapper may find
    Options,                \* of the controller and of the build
    MaxRuns                 \* bound: runs on one workspace

Threads == {"extraction", "matching"}       \* the stages in a thread of their own
Dense == {"images", "maps", "fused", "mesh"}
Stages == Threads \cup {"sparse"} \cup Dense
Results == (1 .. NumModels) \X BOOLEAN
None == <<>>

(* What the constants must satisfy. *)
StagesAssumption ==
    /\ NumModels \in Nat /\ MaxRuns \in Nat \ {0}
    /\ Options \subseteq [extraction : BOOLEAN, matching : BOOLEAN, sparse : BOOLEAN,
                          dense : BOOLEAN, cuda : BOOLEAN, mesher : BOOLEAN]

VARIABLES
    options,
    database,   \* whether it has all features, and all matches
    sparse,     \* the directories sparse/0, sparse/1 and so on
    dense,      \* what each directory dense/i has
    at, stage,  \* where Run() is
    model,      \* the index of the model in RunDenseMapper()
    manager,    \* reconstruction_manager_
    active,     \* active_thread_
    child,      \* the state of each stage's thread
    asked,      \* the threads told to stop
    stopped,    \* IsStopped()
    stopper,    \* where the other thread is in Stop()
    runs,
    late,       \* history: stages that ended after Stop() had returned
    clean       \* history: nothing was left that a later run takes for complete

disk == <<database, sparse, dense>>
place == <<at, stage, model, manager>>
threads == <<active, child, asked>>
stopping == <<stopped, stopper>>
history == <<runs, late, clean>>
vars == <<options, disk, place, threads, stopping, history>>

Empty == [o \in Dense |-> None]

TypeOK ==
    /\ options \in Options /\ database \in [Threads -> BOOLEAN]
    /\ sparse \in Seq(Results \cup {None}) /\ Len(sparse) <= NumModels
    /\ dense \in [1 .. NumModels -> [Dense -> Results \cup {None}]]
    /\ at \in {"check", "set", "start", "wait", "reset", "clear", "make", "write",
               "done", "threw"}
    /\ stage \in Stages /\ model \in 1 .. NumModels + 1 /\ manager \in Seq(Results)
    /\ active \in Threads \cup {"none"} /\ asked \subseteq Threads
    /\ child \in [Threads -> {"new", "running", "finished", "destroyed"}]
    /\ stopped \in BOOLEAN /\ stopper \in Threads \cup {"idle", "none", "returned"}
    /\ runs \in 1 .. MaxRuns /\ late \in 0 .. 7 /\ clean \in BOOLEAN

(* A new controller, after Setup(). *)
Begun ==
    /\ at = "check" /\ stage = "extraction" /\ model = 1 /\ manager = <<>>
    /\ active = "none" /\ child = [s \in Threads |-> "new"] /\ asked = {}
    /\ stopped = FALSE /\ stopper = "idle" /\ late = 0

Init ==
    /\ options \in Options
    /\ database = [s \in Threads |-> FALSE] /\ sparse = <<>>
    /\ dense = [m \in 1 .. NumModels |-> Empty]
    /\ Begun /\ runs = 1 /\ clean = TRUE

-----------------------------------------------------------------------------
(* Run() *)

After == [extraction |-> "matching", matching |-> "sparse", sparse |-> "images",
          images |-> "maps", maps |-> "fused", fused |-> "mesh", mesh |-> "images"]

At(p) == at = p /\ UNCHANGED options
Goto(p) == at' = p /\ UNCHANGED <<stage, model, manager>>
NextStage ==
    /\ at' = "check" /\ stage' = After[stage]
    /\ model' = IF stage = "mesh" THEN model + 1 ELSE model

Exists(o) == dense[model][o] # None

(* RunDenseMapper() returns when it has no model left, without CUDA before    *)
(* the depth maps, and without the library of the mesher that was chosen.    *)
NothingLeft ==
    /\ stage \in Dense
    /\ \/ ~options.dense \/ model > Len(manager)
       \/ stage = "maps" /\ ~options.cuda
       \/ stage = "mesh" /\ ~options.mesher /\ ~Exists("mesh")

ModelDone == stage = "images" /\ Exists("fused") /\ Exists("mesh")

Skipped_NoMaps == IF stage \in Dense THEN Exists(stage) ELSE ~options[stage]
(* What a model has is not made again; PatchMatchController, which skips the  *)
(* maps one by one, is run in any case.                                      *)
Skipped == IF stage \in Dense THEN stage # "maps" /\ Exists(stage) ELSE ~options[stage]

StopSeen_NotForFusion == stopped /\ stage # "fused"
(* IsStopped() is looked at before every stage. *)
StopSeen == stopped

Checks == At("check") /\ UNCHANGED <<disk, threads, stopping, history>>
Passes == Checks /\ ~StopSeen /\ ~NothingLeft

Return == Checks /\ (StopSeen \/ NothingLeft) /\ Goto("done")
NextModel == Passes /\ ModelDone /\ model' = model + 1 /\ UNCHANGED <<at, stage, manager>>
SkipStage == Passes /\ ~ModelDone /\ Skipped /\ NextStage /\ UNCHANGED manager
EnterStage ==
    /\ Passes /\ ~ModelDone /\ ~Skipped
    /\ Goto(IF stage \in Threads THEN "set" ELSE "make")

-----------------------------------------------------------------------------
(* RunFeatureExtraction(), RunFeatureMatching() *)

SetActive ==
    /\ At("set") /\ Goto("start")
    /\ active' = stage
    /\ UNCHANGED <<disk, child, asked, stopping, history>>

(* Thread::Start() forgets an earlier Stop(). *)
StartThread ==
    /\ At("start") /\ Goto("wait")
    /\ child' = [child EXCEPT ![stage] = "running"] /\ asked' = asked \ {stage}
    /\ UNCHANGED <<disk, active, stopping, history>>

Late == late' = IF stopper = "returned" THEN late + 1 ELSE late

(* It adds what the database lacks, unless it is stopped before.              *)
ThreadEnds(s) ==
    /\ child[s] = "running" /\ child' = [child EXCEPT ![s] = "finished"]
    /\ \E whole \in IF s \in asked THEN BOOLEAN ELSE {TRUE} :
          database' = [database EXCEPT
                     ![s] = @ \/ (whole /\ (s = "matching" => database["extraction"]))]
    /\ Late
    /\ UNCHANGED <<options, sparse, dense, place, active, asked, stopping, runs, clean>>

WaitThread ==
    /\ At("wait") /\ child[stage] = "finished" /\ Goto("reset")
    /\ UNCHANGED <<disk, threads, stopping, history>>

ResetThread ==
    /\ At("reset") /\ Goto("clear")
    /\ child' = [child EXCEPT ![stage] = "destroyed"]
    /\ UNCHANGED <<disk, active, asked, stopping, history>>

ClearActive ==
    /\ At("clear") /\ NextStage
    /\ active' = "none"
    /\ UNCHANGED <<disk, manager, child, asked, stopping, history>>

-----------------------------------------------------------------------------
(* RunSparseMapper() *)

Making(s) == At("make") /\ stage \in s
MayBeCut == IF stopped THEN BOOLEAN ELSE {FALSE}

(* Models found earlier are read instead; one that was not written to its end *)
(* throws.                                                                   *)
Read ==
    /\ Making({"sparse"}) /\ sparse # <<>>
    /\ IF None \in Range(sparse) THEN Goto("threw")
       ELSE NextStage /\ manager' = sparse
    /\ UNCHANGED <<disk, threads, stopping, history>>

Map ==
    /\ Making({"sparse"}) /\ sparse = <<>>
    /\ \E found \in SetToSeqs(1 .. NumModels), n \in 0 .. NumModels, cut \in MayBeCut :
          manager' = [k \in 1 .. n |-> <<found[k], database["matching"] /\ ~cut>>]
    /\ at' = "write" /\ UNCHANGED <<stage, model>>
    /\ clean' = (clean /\ stopper = "idle") /\ Late
    /\ UNCHANGED <<disk, threads, stopping, runs>>

(* ReconstructionManager::Write() numbers the directories by the size of the  *)
(* models, of which m[1] is the rank; in the manager they stay in the order   *)
(* in which they were found.                                                  *)
Larger(models, m) == {j \in DOMAIN models : models[j][1] < m[1]}
BySize(models) ==
    [k \in DOMAIN models |->
        CHOOSE m \in Range(models) : Cardinality(Larger(models, m)) = k - 1]

Write ==
    /\ At("write")
    /\ IF Len(sparse) < Len(manager)
         THEN /\ sparse' = Append(sparse, BySize(manager)[Len(sparse) + 1])
              /\ Goto("write")
         ELSE NextStage /\ UNCHANGED <<sparse, manager>>
    /\ UNCHANGED <<database, dense, threads, stopping, history>>

-----------------------------------------------------------------------------
(* RunDenseMapper() *)

Input ==
    CASE stage = "images" -> manager[model]
      [] stage = "maps" -> dense[model]["images"]
      [] stage = "fused" -> dense[model]["maps"]
      [] stage = "mesh" -> dense[model]["fused"]

Put(result) == dense' = [dense EXCEPT ![model] = [@ EXCEPT ![stage] = result]]
Part == <<Input[1], FALSE>>

(* Meshing cannot be stopped.  Points are written also when their fusion was. *)
Make ==
    /\ Making(Dense) /\ NextStage
    /\ \E cut \in IF stage = "mesh" THEN {FALSE} ELSE MayBeCut :
          Put(IF stage = "maps" /\ Exists("maps") /\ dense[model]["maps"][2] THEN dense[model]["maps"]
              ELSE <<Input[1], Input[2] /\ ~cut>>)
    /\ clean' = (clean /\ (stage \in {"images", "fused"} => ~stopped)) /\ Late
    /\ UNCHANGED <<database, sparse, manager, threads, stopping, runs>>

Run ==
    \/ Return \/ NextModel \/ SkipStage \/ EnterStage
    \/ SetActive \/ StartThread \/ WaitThread \/ ResetThread \/ ClearActive \/ Read \/ Map
    \/ Write \/ Make

-----------------------------------------------------------------------------
(* Stop(), called by the graphical interface once in a run.  It reads         *)
(* active_thread_ without a lock, and the thread may be destroyed before it  *)
(* is told to stop: this does nothing, or else ends the process, as Kill.    *)
StopReads ==
    /\ stopper = "idle" /\ at \notin {"done", "threw"}
    /\ stopper' = active
    /\ UNCHANGED <<options, disk, place, threads, stopped, history>>

StopThread ==
    /\ stopper \in Threads
    /\ asked' = IF child[stopper] = "destroyed" THEN asked ELSE asked \cup {stopper}
    /\ stopper' = "none"
    /\ UNCHANGED <<options, disk, place, active, child, stopped, history>>

StopSets ==
    /\ stopper = "none"
    /\ stopped' = TRUE /\ stopper' = "returned"
    /\ UNCHANGED <<options, disk, place, threads, history>>

(* The next run finds the models in the order of their sizes, the directories *)
(* of this run in the order in which the manager has them.                   *)
SameOrder == dense = [m \in 1 .. NumModels |-> Empty] \/ manager \in {<<>>, sparse}

Begin ==
    /\ runs < MaxRuns /\ runs' = runs + 1
    /\ at' = "check" /\ stage' = "extraction" /\ model' = 1 /\ manager' = <<>>
    /\ active' = "none" /\ child' = [s \in Threads |-> "new"] /\ asked' = {}
    /\ stopped' = FALSE /\ stopper' = "idle" /\ late' = 0
    /\ UNCHANGED options

Rerun ==
    /\ at \in {"done", "threw"} /\ Begin
    /\ clean' = (clean /\ SameOrder)
    /\ UNCHANGED disk

(* The process is killed: what is being made is left as far as it got. *)
Kill ==
    /\ at \notin {"done", "threw"} /\ Begin
    /\ clean' = (clean /\ SameOrder /\ at # "write"
                 /\ ~(at = "make" /\ stage \in Dense \ {"maps"}))
    /\ \/ UNCHANGED disk
       \/ /\ at = "write" /\ Len(sparse) < Len(manager)
          /\ sparse' = Append(sparse, None) /\ UNCHANGED <<database, dense>>
       \/ at = "make" /\ stage \in Dense /\ ~Exists(stage) /\ Put(Part) /\ UNCHANGED <<database, sparse>>

Next ==
    \/ Run \/ \E s \in Threads : ThreadEnds(s)
    \/ StopReads \/ StopThread \/ StopSets \/ Rerun \/ Kill

Spec == Init /\ [][Next]_vars

-----------------------------------------------------------------------------
(* A run that nobody stops makes everything of every model, also after runs   *)
(* that were stopped or killed while features, matches or depth maps were    *)
(* computed: what these leave is completed, and what a later stage makes of  *)
(* it does not exist yet (automatic_reconstruction.cc:228-260, 362-491).     *)
AllMade ==
    at = "done" /\ stopper = "idle" /\ clean
    /\ options = [s \in {"extraction", "matching", "sparse", "dense", "cuda", "mesher"} |-> TRUE]
        => \A k \in DOMAIN manager : \A o \in Dense : dense[k][o] = <<manager[k][1], TRUE>>

(* Stop() reads the active thread before it sets the flag that Run() looks at *)
(* between stages, and Start() forgets a stop: the stage under way, or one   *)
(* that is begun meanwhile, may run to its end after Stop() has returned, but *)
(* no other (221-226, 262-298).                                              *)
OneStageLate == late <= 1

(* What is complete stays, whatever run finds it (304-315, 390, 398, 440, 468). *)
CompleteStays ==
    [][/\ \A k \in 1 .. NumModels, o \in Dense :
             dense[k][o] # None /\ dense[k][o][2] => dense'[k][o] = dense[k][o]
       /\ \A k \in DOMAIN sparse : sparse'[k] = sparse[k]]_vars
===============================================================================

----------------------------- MODULE FeatureStages -----------------------------
(***************************************************************************)
(* The stages that make features and matches, and what runs them: matching, *)
(* extraction (E), the job of the C interface (J) and the automatic         *)
(* reconstruction (A).                                                      *)
(***************************************************************************)
EXTENDS FeatureMatching

CONSTANTS
    Resizers, Extractors, Writer, NumImages, Unreadable, Featureless, MayFail, QueueSize,
    ERuns,                                              \* of the extraction
    Cancellers,                                         \* of the job
    NumModels, Options, ARuns                           \* of the reconstruction

VARIABLES
    db, jobs, closed, carrying, setup, returned, epc, index, ecancelled, eruns,
    requested, jactive, jthread, jstopped, jpc, exit, status, events, jasked, canceller, owner,
    options, database, sparse, dense, at, stage, model, manager, aactive, child, aasked,
    astopped, stopper, aruns, late, clean

extraction ==
    <<db, jobs, closed, carrying, setup, returned, epc, index, ecancelled, eruns>>
job ==
    <<requested, jactive, jthread, jstopped, jpc, exit, status, events, jasked, canceller,
      owner>>
automatic ==
    <<options, database, sparse, dense, at, stage, model, manager, aactive, child, aasked,
      astopped, stopper, aruns, late, clean>>

E == INSTANCE FeatureExtraction WITH
        hand <- carrying, exited <- returned, pc <- epc,
        cancelled <- ecancelled, runs <- eruns, MaxRuns <- ERuns

J == INSTANCE ColmapKitJob WITH
        pc <- jpc, stopped <- jstopped, active <- jactive, thread <- jthread, asked <- jasked

A == INSTANCE AutomaticReconstruction WITH
        active <- aactive, asked <- aasked, stopped <- astopped, runs <- aruns, MaxRuns <- ARuns

-----------------------------------------------------------------------------
(* When an extraction that was not cancelled has joined its threads, the     *)
(* database has every image that features can be extracted from              *)
(* (feature_extraction.cc:564-578).                                          *)
(* An automatic reconstruction that nobody stops makes everything of every   *)
(* model, also after a run that was stopped or killed while it computed      *)
(* features, matches or depth maps (automatic_reconstruction.cc:228-471).    *)
AllWritten == E!AllWritten /\ A!AllMade

(* No geometry is stored for matches that are not, and features once         *)
(* computed go into the database, also when the extraction is cancelled;     *)
(* only a kill loses them (feature_extraction.cc:532-538).  The automatic    *)
(* reconstruction makes nothing anew that it has made completely.            *)
ResultsKept == NoOrphanGeometry /\ E!FeaturesKept /\ A!CompleteStays

(* The job ends with one terminal event, which says what the status says.    *)
(* When Stop() of an automatic reconstruction has returned, one stage more   *)
(* may come to its end (automatic_reconstruction.cc:221-226), but no other.  *)
EndsAsTold == J!OneTerminalEvent /\ A!OneStageLate

(* A job cancelled before its models are written is not OK, and a mapper     *)
(* that has no model for that reason has not failed.                         *)
CancelIsNotFailure == J!CancelIsNotFailure
===============================================================================

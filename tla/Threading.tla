------------------------------- MODULE Threading -------------------------------
(***************************************************************************)
(* The two classes of util/threading.h that have threads wait for one       *)
(* another: a JobQueue and the threads that use it, and a Thread (T) with   *)
(* the controllers that start, stop, pause, resume and join it.             *)
(***************************************************************************)
EXTENDS JobQueue

CONSTANTS
    Controllers,            \* of the thread
    MayCall                 \* the methods each of them calls

VARIABLES
    started, stopped, paused, pausing, tfinished, tsetup, setupValid, mutex, worker, tpc,
    lateItems

thread ==
    <<started, stopped, paused, pausing, tfinished, tsetup, setupValid, mutex, worker, tpc,
      lateItems>>

T == INSTANCE Thread WITH
        CanCall <- MayCall, pc <- tpc, setup <- tsetup, finished <- tfinished

-----------------------------------------------------------------------------
(* The type invariants of the two classes (threading.h). *)
TypesOK == TypeOK /\ T!TypeOK

(* What Thread's IsRunning(), IsFinished() and CheckValidSetup() tell agrees *)
(* with where the thread is.                                                 *)
FlagsTellTheTruth == T!FlagsTellTheTruth

(* Once Thread::Stop() has set the flag at most one item begins in the run:   *)
(* the one for which the worker had its answer before (threading.cc:63-69).   *)
OneItemAfterStop == T!OneItemAfterStop
===============================================================================

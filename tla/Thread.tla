-------------------------------- MODULE Thread --------------------------------
(***************************************************************************)
(* colmap::Thread (util/threading.h, .cc): a worker thread that other       *)
(* threads start, pause, resume, stop, join and start again.                *)
(*                                                                         *)
(* The worker runs the loop threading.h documents and the controllers of    *)
(* this repository implement: signal the setup, then for each item          *)
(* BlockIfPaused(), IsStopped(), process.  ControllerThread::IsStopped()    *)
(* makes the same two calls.  Every method is one critical section, except  *)
(* Start(), which joins the previous run with the mutex held, Stop(), which *)
(* releases it before Resume(), and the two methods that wait.              *)
(* Timer and callback lists are left out.                                   *)
(***************************************************************************)
EXTENDS Naturals, FiniteSets

CONSTANTS
    Controllers,            \* the threads that call the public methods
    CanCall                 \* the methods each of them calls

(* What the constants must satisfy. *)
ControllersAssumption == Controllers # {}

(* thread_ is not protected by the mutex in Wait(): one controller, the      *)
(* owner, starts and joins.                                                  *)
OneOwner ==
    \A c, d \in Controllers :
        CanCall[c] \cap {"start", "wait"} # {} /\ CanCall[d] \cap {"start", "wait"} # {}
            => c = d

VARIABLES
    started, stopped, paused, pausing, finished, setup, setupValid,
    mutex,                  \* mutex_: the controller that keeps it between steps
    worker,                 \* where the thread runs; "none" if not joinable
    pc,                     \* the method each controller is in
    lateItems               \* history: items begun since Stop() set the flag, up to 2

flags == <<started, stopped, paused, pausing, finished, setup, setupValid>>
vars == <<flags, mutex, worker, pc, lateItems>>

Nobody == {}                \* the value of mutex while it is free
WorkerLocations == {"none", "started", "setup", "block", "paused", "resumed", "check",
                    "go", "item", "finish", "callback", "exit"}
Locations == {"idle", "join_old", "spawn", "reset", "resume", "wait", "check", "asleep"}

TypeOK ==
    /\ {started, stopped, paused, pausing, finished, setup, setupValid} \subseteq BOOLEAN
    /\ worker \in WorkerLocations
    /\ pc \in [Controllers -> Locations]
    /\ mutex = {c \in Controllers : pc[c] \in {"join_old", "spawn", "reset"}}
    /\ lateItems \in 0..2

Init ==
    /\ started = FALSE /\ stopped = FALSE /\ paused = FALSE /\ pausing = FALSE
    /\ finished = FALSE /\ setup = FALSE /\ setupValid = FALSE
    /\ mutex = Nobody
    /\ worker = "none"
    /\ pc = [c \in Controllers |-> "idle"]
    /\ lateItems = 0

Free == mutex = Nobody
Goto(c, l) == pc' = [pc EXCEPT ![c] = l]
Calls(c, method) == pc[c] = "idle" /\ method \in CanCall[c]

-----------------------------------------------------------------------------
(* The controllers. *)

(* Start() throws, and changes nothing, while a run is in progress. *)
StartLocks(c) ==
    /\ Calls(c, "start") /\ Free
    /\ ~started \/ finished
    /\ mutex' = {c}
    /\ Goto(c, "join_old")
    /\ UNCHANGED <<flags, worker, lateItems>>

Joinable == worker \in {"none", "exit"}

StartJoins(c) ==
    /\ pc[c] = "join_old" /\ Joinable
    /\ worker' = "none"
    /\ Goto(c, "spawn")
    /\ UNCHANGED <<flags, mutex, lateItems>>

MutexAtSpawn_Released == Nobody
(* The new thread runs before the flags are reset, but cannot lock. *)
MutexAtSpawn == mutex

StartSpawns(c) ==
    /\ pc[c] = "spawn"
    /\ worker' = "started"
    /\ mutex' = MutexAtSpawn
    /\ Goto(c, "reset")
    /\ UNCHANGED <<flags, lateItems>>

StartResets(c) ==
    /\ pc[c] = "reset"
    /\ started' = TRUE
    /\ stopped' = FALSE /\ paused' = FALSE /\ pausing' = FALSE
    /\ finished' = FALSE /\ setup' = FALSE /\ setupValid' = FALSE
    /\ mutex' = Nobody
    /\ lateItems' = 0
    /\ Goto(c, "idle")
    /\ UNCHANGED worker

StopSets(c) ==
    /\ Calls(c, "stop") /\ Free
    /\ stopped' = TRUE
    /\ Goto(c, "resume")
    /\ UNCHANGED <<started, paused, pausing, finished, setup, setupValid, mutex, worker,
                   lateItems>>

Pause(c) ==
    /\ Calls(c, "pause") /\ Free
    /\ paused' = TRUE
    /\ UNCHANGED <<started, stopped, pausing, finished, setup, setupValid, mutex, worker, pc,
                   lateItems>>

NotifyResume_IfRunning == IF worker = "paused" /\ ~stopped THEN "resumed" ELSE worker
NotifyResume == IF worker = "paused" THEN "resumed" ELSE worker

(* Resume(), called by itself or by Stop(). *)
Resume(c) ==
    /\ Calls(c, "resume") \/ pc[c] = "resume"
    /\ Free
    /\ paused' = FALSE
    /\ worker' = IF paused THEN NotifyResume ELSE worker
    /\ Goto(c, "idle")
    /\ UNCHANGED <<started, stopped, pausing, finished, setup, setupValid, mutex, lateItems>>

WaitCalled(c) ==
    /\ Calls(c, "wait")
    /\ Goto(c, "wait")
    /\ UNCHANGED <<flags, mutex, worker, lateItems>>

WaitReturns(c) ==
    /\ pc[c] = "wait" /\ Joinable
    /\ worker' = "none"
    /\ Goto(c, "idle")
    /\ UNCHANGED <<flags, mutex, lateItems>>

(* CheckValidSetup() waits at most once: there is no loop around the wait. *)
CheckSleeps(c) ==
    /\ Calls(c, "check") /\ Free
    /\ ~setup
    /\ Goto(c, "asleep")
    /\ UNCHANGED <<flags, mutex, worker, lateItems>>

CheckReturns(c) ==
    /\ (Calls(c, "check") /\ setup) \/ pc[c] = "check"
    /\ Free
    /\ Goto(c, "idle")
    /\ UNCHANGED <<flags, mutex, worker, lateItems>>

-----------------------------------------------------------------------------
(* The worker. *)

At(l) == worker = l
WorkerGoes(l) == worker' = l /\ UNCHANGED <<mutex, pc, lateItems>>

StartedCallback == At("started") /\ WorkerGoes("setup") /\ UNCHANGED flags

NotifySetup == [c \in Controllers |-> IF pc[c] = "asleep" THEN "check" ELSE pc[c]]

(* SignalValidSetup() or SignalInvalidSetup(); after the latter Run() ends. *)
SignalSetup ==
    /\ At("setup") /\ Free
    /\ setup' = TRUE
    /\ setupValid' \in BOOLEAN
    /\ worker' = IF setupValid' THEN "block" ELSE "finish"
    /\ pc' = NotifySetup
    /\ UNCHANGED <<started, stopped, paused, pausing, finished, mutex, lateItems>>

(* Fault: a worker that was paused goes on without asking IsStopped(). *)
AfterBlock_Go == "go"
AfterBlock == "check"

BlockIfPaused ==
    /\ At("block") /\ Free
    /\ pausing' = paused
    /\ WorkerGoes(IF paused THEN "paused" ELSE "check")
    /\ UNCHANGED <<started, stopped, paused, finished, setup, setupValid>>

(* The wait is over; paused_ is not looked at again. *)
LeaveBlock ==
    /\ At("resumed") /\ Free
    /\ pausing' = FALSE
    /\ WorkerGoes(AfterBlock)
    /\ UNCHANGED <<started, stopped, paused, finished, setup, setupValid>>

(* IsStopped() answers, and releases the mutex, ... *)
CheckStopped ==
    /\ At("check") /\ Free
    /\ WorkerGoes(IF stopped THEN "finish" ELSE "go")
    /\ UNCHANGED flags

(* ... before the item begins, whatever is called in between; the end of the *)
(* data ends the loop, too.                                                  *)
BeginItem ==
    /\ At("go")
    /\ \/ /\ worker' = "item"
          /\ lateItems' = IF stopped /\ lateItems < 2 THEN lateItems + 1 ELSE lateItems
       \/ worker' = "finish" /\ UNCHANGED lateItems
    /\ UNCHANGED <<flags, mutex, pc>>

ProcessItem == At("item") /\ WorkerGoes("block") /\ UNCHANGED flags

Finish ==
    /\ At("finish") /\ Free
    /\ finished' = TRUE
    /\ WorkerGoes("callback")
    /\ UNCHANGED <<started, stopped, paused, pausing, setup, setupValid>>

FinishedCallback == At("callback") /\ WorkerGoes("exit") /\ UNCHANGED flags

(* Either wait may return without a notification. *)
SpuriousWakeup ==
    /\ UNCHANGED <<flags, mutex, lateItems>>
    /\ \/ At("paused") /\ WorkerGoes("resumed")
       \/ \E c \in Controllers :
             pc[c] = "asleep" /\ Goto(c, "check") /\ UNCHANGED worker

WorkerNext ==
    \/ StartedCallback \/ SignalSetup \/ BlockIfPaused \/ LeaveBlock \/ CheckStopped
    \/ BeginItem \/ ProcessItem \/ Finish \/ FinishedCallback

(* A controller inside a method; calling one is its own choice. *)
Continue(c) ==
    \/ StartJoins(c) \/ StartSpawns(c) \/ StartResets(c)
    \/ pc[c] = "resume" /\ Resume(c)
    \/ WaitReturns(c)
    \/ pc[c] = "check" /\ CheckReturns(c)

Next ==
    \/ WorkerNext
    \/ \E c \in Controllers :
          \/ StartLocks(c) \/ StopSets(c) \/ Pause(c) \/ Resume(c) \/ WaitCalled(c)
          \/ CheckSleeps(c) \/ CheckReturns(c) \/ Continue(c)
    \/ SpuriousWakeup

(* The scheduler runs every thread that can run, and the mutex, which is     *)
(* free again and again, is not withheld from one of them for ever.          *)
Fairness == SF_vars(WorkerNext) /\ \A c \in Controllers : SF_vars(Continue(c))

Spec == Init /\ [][Next]_vars /\ Fairness

-----------------------------------------------------------------------------
(* What IsRunning(), IsFinished() and CheckValidSetup() tell agrees with     *)
(* where the thread is, although the thread is spawned before its flags are  *)
(* reset: an unfinished thread is alive, a finished one does not run, and a  *)
(* thread past its setup has it recorded.                                    *)
FlagsTellTheTruth ==
    Free =>
      /\ started /\ ~finished => worker \notin {"none", "callback", "exit"}
      /\ finished => worker \in {"none", "callback", "exit"}
      /\ worker \in {"block", "paused", "resumed", "check", "go", "item"} => setup /\ setupValid
      /\ pausing => worker \in {"paused", "resumed"}

(* Stop() may come after IsStopped() has answered the worker: one more item   *)
(* begins then, and no second one in this run, however often the worker is   *)
(* paused and resumed from then on (threading.cc:63-69, threading.h:69-80).  *)
OneItemAfterStop == lateItems <= 1

(* A stopped thread finishes and can be joined, unless it is kept paused     *)
(* from then on.                                                             *)
StopFinishes ==
    []<>(~paused) =>
        /\ started /\ stopped ~> finished
        /\ \A c \in Controllers : pc[c] = "wait" /\ stopped ~> pc[c] # "wait"

(* CheckValidSetup() returns when called on a thread that has been started.  *)
SetupIsTold ==
    \A c \in Controllers :
        pc[c] = "asleep" /\ worker # "none" ~> pc[c] # "asleep"

==============================================================================

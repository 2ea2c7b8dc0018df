------------------------------ MODULE MCThreading ------------------------------
(***************************************************************************)
(* JobQueue and Thread of util/threading.h, each with the threads that use  *)
(* it: a behaviour is one of the class it is about, the other does not move. *)
(*                                                                         *)
(* The queue has two producers, two consumers and the controller that waits *)
(* for, stops and clears it, as in the feature extraction pipeline.         *)
(* The thread has an owner that starts, joins and checks the setup, and a   *)
(* second one, the user interface, that stops, pauses and resumes it.       *)
(***************************************************************************)
EXTENDS Threading, TLC

CONSTANTS p1, p2, c1, c2, k, owner, ui

VARIABLE about

all == <<about, vars, thread>>

MCThreads == {p1, p2, c1, c2, k}
MCCanCall ==
    (p1 :> {"push"}) @@ (p2 :> {"push"}) @@ (c1 :> {"pop"}) @@ (c2 :> {"pop"})
    @@ (k :> {"wait", "stop", "clear"})
MCMayCall ==
    (owner :> {"start", "wait", "stop", "check"})
    @@ (ui :> {"stop", "pause", "resume", "check"})

ASSUME T!ControllersAssumption /\ T!OneOwner

MCInit ==
    /\ about \in {"queue", "thread"}
    /\ Init /\ T!Init

QueueNext == about = "queue" /\ Next /\ UNCHANGED <<about, thread>>
ThreadNext == about = "thread" /\ T!Next /\ UNCHANGED <<about, vars>>

MCNext == QueueNext \/ ThreadNext

(* The fairness of each class, which binds it while the behaviour is about it. *)
MCSpec ==
    /\ MCInit /\ [][MCNext]_all
    /\ \A t \in Threads : WF_vars(about = "queue" /\ Proceed(t))
    /\ SF_thread(about = "thread" /\ T!WorkerNext)
    /\ \A c \in Controllers : SF_thread(about = "thread" /\ T!Continue(c))

-----------------------------------------------------------------------------
(* Stop() ends every wait: whoever sleeps on a stopped queue leaves it; a      *)
(* stopped thread finishes and can be joined, unless it is kept paused, and  *)
(* whoever waits for the setup of a running thread is told.                  *)
StopFinishes == StopReleases /\ T!StopFinishes /\ T!SetupIsTold
=============================================================================

------------------------------ MODULE JobQueue ------------------------------
(***************************************************************************)
(* colmap::JobQueue<T> (util/threading.h): the bounded producer/consumer    *)
(* queue between the stages of feature extraction and matching.             *)
(*                                                                         *)
(* Each method holds mutex_ from its first line to its return or to a wait  *)
(* on a condition variable, so what happens between two waits is one step.  *)
(* Stop() releases the mutex before it notifies: three steps.  A job is     *)
(* the number of its acceptance; its data is left out.                      *)
(***************************************************************************)
EXTENDS Naturals, Sequences, FiniteSets

CONSTANTS
    Threads,
    MaxJobs,                \* max_num_jobs_
    CanCall,                \* the methods each thread calls
    PushLimit               \* bound: no Push() is called once so many succeeded

ASSUME MaxJobsAssumption == MaxJobs \in Nat \ {0}
ASSUME ThreadsAssumption == IsFiniteSet(Threads)
ASSUME PushLimitAssumption == PushLimit \in Nat

VARIABLES
    jobs,                   \* jobs_
    stop,                   \* stop_
    asleep,                 \* the threads waiting on each condition variable
    pc,                     \* the method a thread is in
    accepted,               \* number of jobs accepted by Push()
    last                    \* job returned by the last successful Pop()

vars == <<jobs, stop, asleep, pc, accepted, last>>

Conditions == {"push", "pop", "empty"}
Locations == {"idle", "push", "pop", "wait", "notify_push", "notify_pop"}

(* The queue never holds more than max_num_jobs_ jobs. *)
TypeOK ==
    /\ jobs \in Seq(Nat)
    /\ Len(jobs) <= MaxJobs
    /\ stop \in BOOLEAN
    /\ asleep \in [Conditions -> SUBSET Threads]
    /\ pc \in [Threads -> Locations]
    /\ accepted \in Nat
    /\ last \in Nat

Init ==
    /\ jobs = <<>>
    /\ stop = FALSE
    /\ asleep = [c \in Conditions |-> {}]
    /\ pc = [t \in Threads |-> "idle"]
    /\ accepted = 0
    /\ last = 0

Awake(t) == \A c \in Conditions : t \notin asleep[c]

Goto(t, l) == pc' = [pc EXCEPT ![t] = l]

Sleep(t, c) ==
    /\ asleep' = [asleep EXCEPT ![c] = @ \cup {t}]
    /\ UNCHANGED <<jobs, stop, pc, accepted, last>>

(* The outcomes of notify_one: one waiting thread, if there is one, leaves. *)
Woken(waiting) == IF waiting = {} THEN {{}} ELSE {waiting \ {w} : w \in waiting}

-----------------------------------------------------------------------------
(* A thread enters Push(), Pop() or Wait() and contends for the mutex. *)
Call(t) ==
    /\ pc[t] = "idle"
    /\ \E op \in CanCall[t] \cap {"push", "pop", "wait"} :
          /\ op = "push" => accepted < PushLimit
          /\ Goto(t, op)
    /\ UNCHANGED <<jobs, stop, asleep, accepted, last>>

Full_OffByOne == Len(jobs) > MaxJobs
Full == Len(jobs) >= MaxJobs

PushBlocks(t) ==
    /\ pc[t] = "push" /\ Awake(t)
    /\ Full /\ ~stop
    /\ Sleep(t, "pop")

NotifyPush_WhenItWasEmpty(w) == IF Len(jobs) = 0 THEN Woken(w) ELSE {w}
(* Push() notifies for every job, not only for the one that ends emptiness. *)
NotifyPush(w) == Woken(w)

PushSucceeds(t) ==
    /\ pc[t] = "push" /\ Awake(t)
    /\ ~Full /\ ~stop
    /\ jobs' = Append(jobs, accepted + 1)
    /\ accepted' = accepted + 1
    /\ \E w \in NotifyPush(asleep["push"]) :
          asleep' = [asleep EXCEPT !["push"] = w]
    /\ Goto(t, "idle")
    /\ UNCHANGED <<stop, last>>

PushFails(t) ==
    /\ pc[t] = "push" /\ Awake(t)
    /\ stop
    /\ Goto(t, "idle")
    /\ UNCHANGED <<jobs, stop, asleep, accepted, last>>

PopBlocks(t) ==
    /\ pc[t] = "pop" /\ Awake(t)
    /\ jobs = <<>> /\ ~stop
    /\ Sleep(t, "push")

NotifyPop(w) == Woken(w)

Taken_Newest == jobs[Len(jobs)]
Taken == Head(jobs)

PopSucceeds(t) ==
    /\ pc[t] = "pop" /\ Awake(t)
    /\ jobs # <<>> /\ ~stop
    /\ last' = Taken
    /\ jobs' = Tail(jobs)
    /\ \E w \in NotifyPop(asleep["pop"]) :
          asleep' = [asleep EXCEPT
                        !["pop"] = w,
                        !["empty"] = IF Tail(jobs) = <<>> THEN {} ELSE @]
    /\ Goto(t, "idle")
    /\ UNCHANGED <<stop, accepted>>

(* Pop() on a stopped queue returns an invalid job, whatever is queued. *)
PopFails(t) ==
    /\ pc[t] = "pop" /\ Awake(t)
    /\ stop
    /\ Goto(t, "idle")
    /\ UNCHANGED <<jobs, stop, asleep, accepted, last>>

(* Wait() looks at the jobs alone: a stopped queue is not let go. *)
WaitBlocks(t) ==
    /\ pc[t] = "wait" /\ Awake(t)
    /\ jobs # <<>>
    /\ Sleep(t, "empty")

WaitReturns(t) ==
    /\ pc[t] = "wait" /\ Awake(t)
    /\ jobs = <<>>
    /\ Goto(t, "idle")
    /\ UNCHANGED <<jobs, stop, asleep, accepted, last>>

Stop(t) ==
    /\ pc[t] = "idle" /\ "stop" \in CanCall[t]
    /\ stop' = TRUE
    /\ Goto(t, "notify_push")
    /\ UNCHANGED <<jobs, asleep, accepted, last>>

NotifyAll_One(c) == \E w \in Woken(asleep[c]) : asleep' = [asleep EXCEPT ![c] = w]
NotifyAll(c) == asleep' = [asleep EXCEPT ![c] = {}]

(* Stop() notifies push_condition_, then pop_condition_, without the mutex, *)
(* and never empty_condition_.                                              *)
StopNotifies(t) ==
    /\ \/ pc[t] = "notify_push" /\ NotifyAll("push") /\ Goto(t, "notify_pop")
       \/ pc[t] = "notify_pop" /\ NotifyAll("pop") /\ Goto(t, "idle")
    /\ UNCHANGED <<jobs, stop, accepted, last>>

(* Clear() swaps the queue for an empty one and notifies nobody. *)
Clear(t) ==
    /\ pc[t] = "idle" /\ "clear" \in CanCall[t]
    /\ jobs' = <<>>
    /\ UNCHANGED <<stop, asleep, pc, accepted, last>>

(* A wait on a condition variable may return without a notification. *)
SpuriousWakeup(t) ==
    /\ \E c \in Conditions :
          /\ t \in asleep[c]
          /\ asleep' = [asleep EXCEPT ![c] = @ \ {t}]
    /\ UNCHANGED <<jobs, stop, pc, accepted, last>>

(* What a thread that holds or waits for the mutex does next. *)
Proceed(t) ==
    \/ PushBlocks(t) \/ PushSucceeds(t) \/ PushFails(t)
    \/ PopBlocks(t) \/ PopSucceeds(t) \/ PopFails(t)
    \/ WaitBlocks(t) \/ WaitReturns(t)
    \/ StopNotifies(t)

(* The callers' discipline: the only calls of Clear() follow Stop(), from   *)
(* the thread that is the only one to Wait().                               *)
DisciplinedClear(t) ==
    /\ Clear(t)
    /\ stop
    /\ asleep["empty"] = {}

Next ==
    \E t \in Threads :
        \/ Call(t) \/ Proceed(t) \/ Stop(t) \/ DisciplinedClear(t)
        \/ SpuriousWakeup(t)

Spec == Init /\ [][Next]_vars

(* The system scheduler lets every runnable thread run: each critical       *)
(* section is short, and a thread that contends for mutex_ gets it.         *)
FairSpec == Spec /\ \A t \in Threads : WF_vars(Proceed(t))

-----------------------------------------------------------------------------
InPush == {t \in Threads : pc[t] = "push" /\ t \notin asleep["pop"]}
InPop == {t \in Threads : pc[t] = "pop" /\ t \notin asleep["push"]}

(* The wait sets hold threads that are in the method that waits there. *)
SleepersWait ==
    /\ \A t \in asleep["push"] : pc[t] = "pop"
    /\ \A t \in asleep["pop"] : pc[t] = "push"
    /\ \A t \in asleep["empty"] : pc[t] = "wait"

(* While a Pop() sleeps there are as many threads awake in Pop() as there   *)
(* are jobs: no job waits for a sleeper.                                    *)
PopWakeup ==
    ~stop /\ asleep["push"] # {} => Len(jobs) <= Cardinality(InPop)

(* While a Push() sleeps every free slot has a thread awake in Push(). *)
PushWakeup ==
    ~stop /\ asleep["pop"] # {} => MaxJobs <= Len(jobs) + Cardinality(InPush)

(* Nobody sleeps in Wait() on an empty queue. *)
EmptyWakeup == asleep["empty"] # {} => jobs # <<>>

(* A thread that sleeps on a stopped queue is about to be notified. *)
StopWakeup ==
    stop =>
      /\ asleep["push"] # {} => \E t \in Threads : pc[t] = "notify_push"
      /\ asleep["pop"] # {} =>
            \E t \in Threads : pc[t] \in {"notify_push", "notify_pop"}

(* Only Stop() notifies on the way to idle. *)
StopSet == \A t \in Threads : pc[t] \in {"notify_push", "notify_pop"} => stop

(* No lost wakeup, although Push() and Pop() notify one thread only, three  *)
(* conditions share one mutex, waits wake spuriously, newcomers overtake    *)
(* the notified, and Stop() notifies outside the lock.                      *)
NoLostWakeup == PopWakeup /\ PushWakeup /\ EmptyWakeup /\ StopWakeup

(* The jobs in the queue are the last ones accepted, oldest first. *)
Consecutive ==
    /\ Len(jobs) <= accepted
    /\ \A i \in 1 .. Len(jobs) : jobs[i] = accepted - Len(jobs) + i

(* The inductive invariant. *)
IInv == TypeOK /\ SleepersWait /\ StopSet /\ NoLostWakeup /\ Consecutive

(* The queue implements the bounded FIFO buffer: jobs are delivered in the  *)
(* order of acceptance, each once, none beyond the capacity, and none is    *)
(* accepted or delivered after Stop().                                      *)
Fifo == INSTANCE BoundedFifo WITH
    Bound <- MaxJobs, taken <- accepted - Len(jobs), closed <- stop

(* Every step of the queue is one of the buffer or does not change it       *)
(* (util/threading.h:421-469).                                              *)
ImplementsFifo == Fifo!Spec

(* Stop() returns every thread from Push() and Pop() (threading.h:341). *)
StopReleases ==
    \A t \in Threads : stop /\ pc[t] \in {"push", "pop"} ~> pc[t] = "idle"

==============================================================================

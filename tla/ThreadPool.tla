------------------------------ MODULE ThreadPool ------------------------------
(***************************************************************************)
(* colmap::ThreadPool (util/threading.h, .cc): workers that run tasks, and  *)
(* clients that add tasks, wait for all of them and stop the pool.          *)
(*                                                                         *)
(* A task is a model value; its outcome is in its future (outcome) and in   *)
(* the checker it leaves behind, which rethrows its exception.  Every       *)
(* notification but those of the waits is made after the mutex is released. *)
(***************************************************************************)
EXTENDS Naturals, Sequences, FiniteSets

CONSTANTS
    Workers, Clients,
    Tasks,                  \* each is added at most once
    Failing                 \* those that throw

(* GetEffectiveNumThreads() is at least 1. *)
ASSUME PoolAssumption ==
    IsFiniteSet(Workers) /\ Workers # {} /\ Failing \subseteq Tasks

VARIABLES
    tasks,                  \* tasks_
    stopped,                \* stopped_
    active,                 \* num_active_workers_
    checkers,               \* finished_task_checkers_: the tasks they belong to
    outcome,                \* of each task, as seen through its future
    reported,               \* failed tasks that some Wait() or Stop() reported
    runs,                   \* the task a worker runs
    wpc,                    \* where each worker is
    cpc                     \* where each client is

pool == <<tasks, stopped, active, checkers>>
vars == <<pool, outcome, reported, runs, wpc, cpc>>

Outcomes == {"new", "queued", "running", "done", "dropped"}
WorkerLocations == {"look", "asleep", "run", "report", "notify", "exited"}
ClientLocations == {"idle", "notify_one", "wait", "asleep",
                    "stop_notify", "stop_join", "stop_finish"}

Busy == {w \in Workers : wpc[w] \in {"run", "report"}}

(* num_active_workers_ counts the workers that have a task to run or to      *)
(* report, and every variable has its type.                                  *)
TypeOK ==
    /\ tasks \in Seq(Tasks)
    /\ stopped \in BOOLEAN
    /\ active = Cardinality(Busy)
    /\ checkers \subseteq Tasks /\ reported \subseteq Failing
    /\ outcome \in [Tasks -> Outcomes]
    /\ runs \in [Workers -> Tasks \cup {"none"}]
    /\ \A w \in Busy : runs[w] \in Tasks
    /\ wpc \in [Workers -> WorkerLocations]
    /\ cpc \in [Clients -> ClientLocations]

Init ==
    /\ tasks = <<>> /\ stopped = FALSE /\ active = 0 /\ checkers = {}
    /\ outcome = [t \in Tasks |-> "new"]
    /\ reported = {}
    /\ runs = [w \in Workers |-> "none"]
    /\ wpc = [w \in Workers |-> "look"]
    /\ cpc = [c \in Clients |-> "idle"]

WGoto(w, l) == wpc' = [wpc EXCEPT ![w] = l]
CGoto(c, l) == cpc' = [cpc EXCEPT ![c] = l]
Sleeping == {w \in Workers : wpc[w] = "asleep"}

-----------------------------------------------------------------------------
(* The workers. *)

WorkerSleeps(w) ==
    /\ wpc[w] = "look"
    /\ ~stopped /\ tasks = <<>>
    /\ WGoto(w, "asleep")
    /\ UNCHANGED <<pool, outcome, reported, runs, cpc>>

WorkerExits(w) ==
    /\ wpc[w] = "look"
    /\ stopped /\ tasks = <<>>
    /\ WGoto(w, "exited")
    /\ UNCHANGED <<pool, outcome, reported, runs, cpc>>

WorkerTakes(w) ==
    /\ wpc[w] = "look"
    /\ tasks # <<>>
    /\ runs' = [runs EXCEPT ![w] = Head(tasks)]
    /\ outcome' = [outcome EXCEPT ![Head(tasks)] = "running"]
    /\ tasks' = Tail(tasks)
    /\ active' = active + 1
    /\ WGoto(w, "run")
    /\ UNCHANGED <<stopped, checkers, reported, cpc>>

(* The packaged task catches what the task throws and fulfils the future. *)
WorkerRuns(w) ==
    /\ wpc[w] = "run"
    /\ outcome' = [outcome EXCEPT ![runs[w]] = "done"]
    /\ WGoto(w, "report")
    /\ UNCHANGED <<pool, reported, runs, cpc>>

ActiveAfter_OnSuccess(w) == IF runs[w] \in Failing THEN active ELSE active - 1
ActiveAfter(w) == active - 1

WorkerReports(w) ==
    /\ wpc[w] = "report"
    /\ active' = ActiveAfter(w)
    /\ checkers' = checkers \cup {runs[w]}
    /\ WGoto(w, "notify")
    /\ UNCHANGED <<tasks, stopped, outcome, reported, runs, cpc>>

WakeClients_Nobody == cpc
WakeClients == [c \in Clients |-> IF cpc[c] = "asleep" THEN "wait" ELSE cpc[c]]

WorkerNotifies(w) ==
    /\ wpc[w] = "notify"
    /\ cpc' = WakeClients
    /\ WGoto(w, "look")
    /\ UNCHANGED <<pool, outcome, reported, runs>>

-----------------------------------------------------------------------------
(* The clients. *)

(* AddTask() on a stopped pool throws and changes nothing. *)
AddTask(c, t) ==
    /\ cpc[c] = "idle" /\ outcome[t] = "new"
    /\ ~stopped
    /\ tasks' = Append(tasks, t)
    /\ outcome' = [outcome EXCEPT ![t] = "queued"]
    /\ CGoto(c, "notify_one")
    /\ UNCHANGED <<stopped, active, checkers, reported, runs, wpc>>

(* The outcomes of notify_one on task_condition_. *)
NotifyOne ==
    IF Sleeping = {} THEN {wpc}
    ELSE {[wpc EXCEPT ![w] = "look"] : w \in Sleeping}

AddTaskNotifies(c) ==
    /\ cpc[c] = "notify_one"
    /\ wpc' \in NotifyOne
    /\ CGoto(c, "idle")
    /\ UNCHANGED <<pool, outcome, reported, runs>>

WaitCalled(c) ==
    /\ cpc[c] = "idle"
    /\ CGoto(c, "wait")
    /\ UNCHANGED <<pool, outcome, reported, runs, wpc>>

Quiet_NoneQueued == tasks = <<>>
Quiet == tasks = <<>> /\ active = 0

WaitSleeps(c) ==
    /\ cpc[c] = "wait" /\ ~Quiet
    /\ CGoto(c, "asleep")
    /\ UNCHANGED <<pool, outcome, reported, runs, wpc>>

(* CheckFinishedTasks(): all checkers run; what they throw is thrown at once. *)
CheckFinishedTasks ==
    /\ reported' = reported \cup (checkers \cap Failing)
    /\ checkers' = {}

WaitReturns(c) ==
    /\ cpc[c] = "wait" /\ Quiet
    /\ CheckFinishedTasks
    /\ CGoto(c, "idle")
    /\ UNCHANGED <<tasks, stopped, active, outcome, runs, wpc>>

(* Stop() that finds exceptions throws them and leaves the pool running. *)
StopThrows(c) ==
    /\ cpc[c] = "idle" /\ ~stopped
    /\ checkers \cap Failing # {}
    /\ CheckFinishedTasks
    /\ UNCHANGED <<tasks, stopped, active, outcome, runs, wpc, cpc>>

(* The queued tasks are destroyed; their futures hold a broken promise. *)
StopSets(c) ==
    /\ cpc[c] = "idle" /\ ~stopped
    /\ checkers \cap Failing = {}
    /\ CheckFinishedTasks
    /\ stopped' = TRUE
    /\ tasks' = <<>>
    /\ outcome' = [t \in Tasks |-> IF outcome[t] = "queued" THEN "dropped" ELSE outcome[t]]
    /\ CGoto(c, "stop_notify")
    /\ UNCHANGED <<active, runs, wpc>>

NotifyWorkers_One == NotifyOne
NotifyWorkers == {[w \in Workers |-> IF wpc[w] = "asleep" THEN "look" ELSE wpc[w]]}

StopNotifies(c) ==
    /\ cpc[c] = "stop_notify"
    /\ wpc' \in NotifyWorkers
    /\ CGoto(c, "stop_join")
    /\ UNCHANGED <<pool, outcome, reported, runs>>

StopJoins(c) ==
    /\ cpc[c] = "stop_join"
    /\ \A w \in Workers : wpc[w] = "exited"
    /\ CGoto(c, "stop_finish")
    /\ UNCHANGED <<pool, outcome, reported, runs, wpc>>

StopReturns(c) ==
    /\ cpc[c] = "stop_finish"
    /\ cpc' = [WakeClients EXCEPT ![c] = "idle"]
    /\ UNCHANGED <<pool, outcome, reported, runs, wpc>>

SpuriousWakeup ==
    /\ UNCHANGED <<pool, outcome, reported, runs>>
    /\ \/ \E w \in Workers : wpc[w] = "asleep" /\ WGoto(w, "look") /\ UNCHANGED cpc
       \/ \E c \in Clients : cpc[c] = "asleep" /\ CGoto(c, "wait") /\ UNCHANGED wpc

WorkerNext(w) ==
    \/ WorkerSleeps(w) \/ WorkerExits(w) \/ WorkerTakes(w) \/ WorkerRuns(w)
    \/ WorkerReports(w) \/ WorkerNotifies(w)

ClientContinues(c) ==
    \/ AddTaskNotifies(c) \/ WaitSleeps(c) \/ WaitReturns(c)
    \/ StopNotifies(c) \/ StopJoins(c) \/ StopReturns(c)

Next ==
    \/ \E w \in Workers : WorkerNext(w)
    \/ \E c \in Clients :
          \/ ClientContinues(c) \/ WaitCalled(c) \/ StopThrows(c) \/ StopSets(c)
          \/ \E t \in Tasks : AddTask(c, t)
    \/ SpuriousWakeup

(* Threads that can run are run, and tasks end. *)
Fairness ==
    /\ \A w \in Workers : WF_vars(WorkerNext(w))
    /\ \A c \in Clients : WF_vars(ClientContinues(c))

Spec == Init /\ [][Next]_vars /\ Fairness

-----------------------------------------------------------------------------
(* A future that is pending belongs to a task that is queued or runs, and a  *)
(* failure that nobody has seen is with a worker or a checker.               *)
TasksAccountedFor ==
    \A t \in Tasks :
        /\ outcome[t] = "queued" => \E i \in DOMAIN tasks : tasks[i] = t
        /\ outcome[t] = "running" => \E w \in Workers : wpc[w] = "run" /\ runs[w] = t
        /\ outcome[t] = "done" /\ t \in Failing =>
              \/ t \in reported \cup checkers
              \/ \E w \in Workers : wpc[w] = "report" /\ runs[w] = t

(* No task waits while all workers sleep, and no worker sleeps in a stopped  *)
(* pool, unless the notification is on its way.                              *)
PoolNoLostWakeup ==
    /\ tasks # <<>> /\ Sleeping = Workers => \E c \in Clients : cpc[c] = "notify_one"
    /\ stopped /\ Sleeping # {} => \E c \in Clients : cpc[c] = "stop_notify"

(* The inductive invariant. *)
IInv == TypeOK /\ TasksAccountedFor /\ PoolNoLostWakeup

(* "Wait() throws an AggregateException containing all task exceptions at    *)
(* once." (threading.h:229): when Wait() is over nothing is queued or runs,  *)
(* and every task that failed has been reported to some caller.              *)
WaitReports ==
    [][\A c \in Clients : WaitReturns(c) =>
          \A t \in Tasks :
             /\ outcome[t] \notin {"queued", "running"}
             /\ outcome[t] = "done" /\ t \in Failing => t \in reported']_vars

(* The future of every accepted task gets a value or an exception. *)
FuturesReady ==
    \A t \in Tasks : outcome[t] = "queued" ~> outcome[t] \in {"done", "dropped"}

(* Wait() ends, also when the pool is stopped under it, and so does Stop().  *)
CallsEnd == \A c \in Clients : cpc[c] # "idle" ~> cpc[c] = "idle"

==============================================================================

--------------------------- MODULE ThreadPool_proofs ---------------------------
(***************************************************************************)
(* The pool, for any non-empty finite set of workers and any sets of        *)
(* clients and tasks: the type invariant with the count of active workers,  *)
(* the absence of lost wakeups, and what Wait() guarantees when it returns. *)
(*                                                                         *)
(* What runs its tasks on a pool, each for any constants of its own:        *)
(* the stereo fusion (F), the patch match stereo (P), and the hierarchical   *)
(* pipeline (H), whose mappers are tasks of a pool.                          *)
(***************************************************************************)
EXTENDS PoolTasks, FiniteSetTheorems, SequenceTheorems, WellFoundedInduction,
        NaturalsInduction, Integers, TLAPS

-----------------------------------------------------------------------------

LEMMA BusyFinite == IsFiniteSet(Busy) /\ Cardinality(Busy) \in Nat
<1>1. IsFiniteSet(Workers) /\ Busy \subseteq Workers
  BY PoolAssumption DEF PoolAssumption, Busy
<1> QED
  BY <1>1, FS_Subset, FS_CardinalityType

LEMMA InitInv == Init => IInv
<1> SUFFICES ASSUME Init PROVE IInv
  OBVIOUS
<1>1. Busy = {} /\ Sleeping = {}
  BY DEF Init, Busy, Sleeping
<1>2. TypeOK
  <2>1. active = Cardinality(Busy)
    BY <1>1, FS_EmptySet DEF Init
  <2>2. outcome \in [Tasks -> Outcomes]
    BY DEF Init, Outcomes
  <2>3. wpc \in [Workers -> WorkerLocations] /\ cpc \in [Clients -> ClientLocations]
    BY DEF Init, WorkerLocations, ClientLocations
  <2>4. runs \in [Workers -> Tasks \cup {"none"}]
    BY DEF Init
  <2>5. tasks \in Seq(Tasks) /\ stopped \in BOOLEAN
    BY EmptySeq, Zenon DEF Init
  <2>6. checkers \subseteq Tasks /\ reported \subseteq Failing
    BY DEF Init
  <2>7. \A w \in Busy : runs[w] \in Tasks
    BY <1>1
  <2> QED
    BY <2>1, <2>2, <2>3, <2>4, <2>5, <2>6, <2>7, Zenon DEF TypeOK
<1>3. TasksAccountedFor
  BY DEF Init, TasksAccountedFor
<1>4. PoolNoLostWakeup
  BY <1>1 DEF Init, PoolNoLostWakeup
<1> QED
  BY <1>2, <1>3, <1>4 DEF IInv

-----------------------------------------------------------------------------
(* A step that keeps the workers with a task keeps their count. *)
LEMMA SameBusy ==
    ASSUME TypeOK, active' = active, Busy' = Busy
    PROVE  active' = Cardinality(Busy)'
<1>1. Cardinality(Busy)' = Cardinality(Busy)
  BY DEF Busy
<1> QED
  BY <1>1 DEF TypeOK

(* Of the notifications a worker receives, the outcome is a subset of the    *)
(* sleepers, smaller by one if there was one.                                *)
LEMMA NotifyOneEffect ==
    ASSUME TypeOK, wpc' \in NotifyOne
    PROVE  /\ wpc' \in [Workers -> WorkerLocations]
           /\ Busy' = Busy
           /\ \A w \in Workers : wpc[w] \in {"run", "report"} => wpc'[w] = wpc[w]
           /\ Sleeping' \subseteq Sleeping
           /\ Sleeping # {} => Sleeping' # Sleeping
<1>1. CASE Sleeping = {}
  BY <1>1 DEF NotifyOne, Sleeping, Busy, TypeOK
<1>2. CASE Sleeping # {}
  <2>1. PICK w \in Sleeping : wpc' = [wpc EXCEPT ![w] = "look"]
    BY <1>2 DEF NotifyOne
  <2>2. w \in Workers /\ wpc[w] = "asleep"
    BY DEF Sleeping
  <2> QED
    BY <2>1, <2>2 DEF Sleeping, Busy, TypeOK, WorkerLocations
<1> QED
  BY <1>1, <1>2

LEMMA NotifyWorkersEffect ==
    ASSUME TypeOK, wpc' \in NotifyWorkers
    PROVE  /\ wpc' \in [Workers -> WorkerLocations]
           /\ Busy' = Busy
           /\ \A w \in Workers : wpc[w] \in {"run", "report"} => wpc'[w] = wpc[w]
           /\ Sleeping' = {}
BY DEF NotifyWorkers, Sleeping, Busy, TypeOK, WorkerLocations

LEMMA WakeClientsEffect ==
    ASSUME TypeOK
    PROVE  /\ WakeClients \in [Clients -> ClientLocations]
           /\ \A c \in Clients :
                 cpc[c] \in {"notify_one", "stop_notify"} => WakeClients[c] = cpc[c]
BY DEF WakeClients, TypeOK, ClientLocations

-----------------------------------------------------------------------------
LEMMA TypeInductive == TypeOK /\ [Next]_vars => TypeOK'
<1> SUFFICES ASSUME TypeOK, [Next]_vars PROVE TypeOK'
  OBVIOUS
<1> USE DEF pool, WGoto, CGoto
<1>1. ASSUME NEW w \in Workers,
             WorkerSleeps(w) \/ WorkerExits(w) \/ WorkerNotifies(w)
      PROVE TypeOK'
  <2>1. Busy' = Busy /\ active' = active
    BY <1>1 DEF Busy, TypeOK, WorkerSleeps, WorkerExits, WorkerNotifies
  <2>2. wpc' \in [Workers -> WorkerLocations] /\ cpc' \in [Clients -> ClientLocations]
    BY <1>1, WakeClientsEffect
    DEF TypeOK, WorkerLocations, WorkerSleeps, WorkerExits, WorkerNotifies
  <2> QED
    BY <1>1, <2>1, <2>2, SameBusy
    DEF TypeOK, WorkerSleeps, WorkerExits, WorkerNotifies
<1>2. ASSUME NEW w \in Workers, WorkerTakes(w) PROVE TypeOK'
  <2>1. Head(tasks) \in Tasks /\ Tail(tasks) \in Seq(Tasks)
    BY <1>2 DEF TypeOK, WorkerTakes
  <2>2. Busy' = Busy \cup {w} /\ w \notin Busy
    BY <1>2 DEF Busy, TypeOK, WorkerTakes
  <2>3. Cardinality(Busy)' = Cardinality(Busy) + 1
    BY <2>2, BusyFinite, FS_AddElement
  <2>4. active' = Cardinality(Busy)'
    BY <1>2, <2>3 DEF TypeOK, WorkerTakes
  <2>5. runs' \in [Workers -> Tasks \cup {"none"}] /\ \A v \in Busy' : runs'[v] \in Tasks
    BY <1>2, <2>1, <2>2 DEF TypeOK, WorkerTakes, Busy
  <2>6. outcome' \in [Tasks -> Outcomes] /\ wpc' \in [Workers -> WorkerLocations]
    BY <1>2 DEF TypeOK, WorkerTakes, Outcomes, WorkerLocations
  <2> QED
    BY <1>2, <2>1, <2>4, <2>5, <2>6 DEF TypeOK, WorkerTakes
<1>3. ASSUME NEW w \in Workers, WorkerRuns(w) PROVE TypeOK'
  <2>1. Busy' = Busy /\ active' = active
    BY <1>3 DEF Busy, TypeOK, WorkerRuns
  <2>2. outcome' \in [Tasks -> Outcomes] /\ wpc' \in [Workers -> WorkerLocations]
    BY <1>3 DEF TypeOK, WorkerRuns, Outcomes, WorkerLocations
  <2> QED
    BY <1>3, <2>1, <2>2, SameBusy DEF TypeOK, WorkerRuns
<1>4. ASSUME NEW w \in Workers, WorkerReports(w) PROVE TypeOK'
  <2>1. Busy' = Busy \ {w} /\ w \in Busy
    BY <1>4 DEF Busy, TypeOK, WorkerReports
  <2>2. Cardinality(Busy)' = Cardinality(Busy) - 1
    BY <2>1, BusyFinite, FS_RemoveElement
  <2>3. active' = Cardinality(Busy)'
    BY <1>4, <2>2 DEF TypeOK, WorkerReports, ActiveAfter
  <2>4. wpc' \in [Workers -> WorkerLocations] /\ checkers' \subseteq Tasks
    BY <1>4, <2>1 DEF TypeOK, WorkerReports, WorkerLocations
  <2> QED
    BY <1>4, <2>1, <2>3, <2>4 DEF TypeOK, WorkerReports
<1>5. ASSUME NEW c \in Clients, NEW t \in Tasks, AddTask(c, t) PROVE TypeOK'
  <2>1. Busy' = Busy /\ active' = active
    BY <1>5 DEF Busy, AddTask
  <2>2. tasks' \in Seq(Tasks) /\ outcome' \in [Tasks -> Outcomes]
        /\ cpc' \in [Clients -> ClientLocations]
    BY <1>5 DEF TypeOK, AddTask, Outcomes, ClientLocations
  <2> QED
    BY <1>5, <2>1, <2>2, SameBusy DEF TypeOK, AddTask
<1>6. ASSUME NEW c \in Clients, AddTaskNotifies(c) \/ StopNotifies(c) PROVE TypeOK'
  <2>1. Busy' = Busy /\ active' = active /\ wpc' \in [Workers -> WorkerLocations]
    BY <1>6, NotifyOneEffect, NotifyWorkersEffect DEF AddTaskNotifies, StopNotifies
  <2>2. cpc' \in [Clients -> ClientLocations]
    BY <1>6 DEF TypeOK, AddTaskNotifies, StopNotifies, ClientLocations
  <2> QED
    BY <1>6, <2>1, <2>2, SameBusy DEF TypeOK, AddTaskNotifies, StopNotifies
<1>7. ASSUME NEW c \in Clients,
             WaitCalled(c) \/ WaitSleeps(c) \/ StopJoins(c) \/ StopReturns(c)
      PROVE TypeOK'
  <2>1. Busy' = Busy /\ active' = active
    BY <1>7 DEF Busy, WaitCalled, WaitSleeps, StopJoins, StopReturns
  <2>2. cpc' \in [Clients -> ClientLocations]
    BY <1>7, WakeClientsEffect
    DEF TypeOK, WaitCalled, WaitSleeps, StopJoins, StopReturns, ClientLocations
  <2> QED
    BY <1>7, <2>1, <2>2, SameBusy
    DEF TypeOK, WaitCalled, WaitSleeps, StopJoins, StopReturns
<1>8. ASSUME NEW c \in Clients, WaitReturns(c) \/ StopThrows(c) \/ StopSets(c)
      PROVE TypeOK'
  <2>1. Busy' = Busy /\ active' = active
    BY <1>8 DEF Busy, WaitReturns, StopThrows, StopSets
  <2>2. reported' \subseteq Failing /\ checkers' \subseteq Tasks
    BY <1>8 DEF TypeOK, WaitReturns, StopThrows, StopSets, CheckFinishedTasks
  <2>3. outcome' \in [Tasks -> Outcomes]
    <3>1. CASE StopSets(c)
      BY <3>1 DEF TypeOK, StopSets, Outcomes
    <3> QED
      BY <1>8, <3>1 DEF TypeOK, WaitReturns, StopThrows
  <2>4. tasks' \in Seq(Tasks)
    <3>1. CASE StopSets(c)
      BY <3>1, EmptySeq, Zenon DEF StopSets
    <3> QED
      BY <1>8, <3>1 DEF TypeOK, WaitReturns, StopThrows
  <2>5. stopped' \in BOOLEAN /\ cpc' \in [Clients -> ClientLocations]
    BY <1>8 DEF TypeOK, WaitReturns, StopThrows, StopSets, ClientLocations
  <2> QED
    BY <1>8, <2>1, <2>2, <2>3, <2>4, <2>5, SameBusy
    DEF TypeOK, WaitReturns, StopThrows, StopSets
<1>9. CASE SpuriousWakeup
  <2>1. Busy' = Busy /\ active' = active
    BY <1>9 DEF Busy, TypeOK, SpuriousWakeup
  <2>2. wpc' \in [Workers -> WorkerLocations] /\ cpc' \in [Clients -> ClientLocations]
    BY <1>9 DEF TypeOK, SpuriousWakeup, WorkerLocations, ClientLocations
  <2> QED
    BY <1>9, <2>1, <2>2, SameBusy DEF TypeOK, SpuriousWakeup
<1>10. CASE UNCHANGED vars
  <2>1. Busy' = Busy /\ active' = active
    BY <1>10 DEF Busy, vars
  <2> QED
    BY <1>10, <2>1, SameBusy DEF TypeOK, vars
<1> QED
  BY <1>1, <1>2, <1>3, <1>4, <1>5, <1>6, <1>7, <1>8, <1>9, <1>10
  DEF Next, WorkerNext, ClientContinues
-----------------------------------------------------------------------------
LEMMA WakeupInductive ==
    TypeOK /\ PoolNoLostWakeup /\ [Next]_vars => PoolNoLostWakeup'
<1> SUFFICES ASSUME TypeOK, PoolNoLostWakeup, [Next]_vars PROVE PoolNoLostWakeup'
  OBVIOUS
<1> USE DEF pool, WGoto, CGoto, TypeOK
<1>1. ASSUME NEW w \in Workers,
             WorkerExits(w) \/ WorkerTakes(w) \/ WorkerRuns(w) \/ WorkerReports(w)
      PROVE PoolNoLostWakeup'
  <2>1. w \notin Sleeping' /\ Sleeping' = Sleeping
    BY <1>1 DEF Sleeping, WorkerExits, WorkerTakes, WorkerRuns, WorkerReports
  <2> QED
    BY <1>1, <2>1
    DEF PoolNoLostWakeup, WorkerExits, WorkerTakes, WorkerRuns, WorkerReports
<1>2. ASSUME NEW w \in Workers, WorkerSleeps(w) PROVE PoolNoLostWakeup'
  BY <1>2 DEF PoolNoLostWakeup, WorkerSleeps
<1>3. ASSUME NEW w \in Workers, WorkerNotifies(w) PROVE PoolNoLostWakeup'
  <2>1. w \notin Sleeping' /\ Sleeping' = Sleeping
    BY <1>3 DEF Sleeping, WorkerNotifies
  <2>2. \A c \in Clients : cpc[c] = "stop_notify" => cpc'[c] = "stop_notify"
    BY <1>3, WakeClientsEffect DEF WorkerNotifies
  <2> QED
    BY <1>3, <2>1, <2>2 DEF PoolNoLostWakeup, WorkerNotifies
<1>4. ASSUME NEW c \in Clients, NEW t \in Tasks, AddTask(c, t) PROVE PoolNoLostWakeup'
  <2>1. Sleeping' = Sleeping /\ cpc'[c] = "notify_one" /\ ~stopped'
    BY <1>4 DEF Sleeping, AddTask
  <2> QED
    BY <2>1 DEF PoolNoLostWakeup
<1>5. ASSUME NEW c \in Clients, AddTaskNotifies(c) PROVE PoolNoLostWakeup'
  <2>1. Sleeping' # Workers
    <3>1. Sleeping \subseteq Workers /\ Workers # {}
      BY PoolAssumption DEF Sleeping, PoolAssumption
    <3>2. Sleeping' \subseteq Sleeping /\ (Sleeping # {} => Sleeping' # Sleeping)
      BY <1>5, NotifyOneEffect DEF AddTaskNotifies
    <3> QED
      BY <3>1, <3>2
  <2>2. Sleeping' # {} => Sleeping # {}
    BY <1>5, NotifyOneEffect DEF AddTaskNotifies
  <2>3. \A d \in Clients : cpc[d] = "stop_notify" => cpc'[d] = "stop_notify"
    BY <1>5 DEF AddTaskNotifies
  <2> QED
    BY <1>5, <2>1, <2>2, <2>3 DEF PoolNoLostWakeup, AddTaskNotifies
<1>6. ASSUME NEW c \in Clients, StopNotifies(c) PROVE PoolNoLostWakeup'
  <2>1. Sleeping' = {}
    BY <1>6, NotifyWorkersEffect DEF StopNotifies
  <2> QED
    BY <2>1, PoolAssumption DEF PoolNoLostWakeup, PoolAssumption
<1>7. ASSUME NEW c \in Clients, StopSets(c) PROVE PoolNoLostWakeup'
  <2>1. tasks' = <<>> /\ cpc'[c] = "stop_notify"
    BY <1>7 DEF StopSets
  <2> QED
    BY <2>1 DEF PoolNoLostWakeup
<1>8. ASSUME NEW c \in Clients,
             \/ WaitCalled(c) \/ WaitSleeps(c) \/ WaitReturns(c)
             \/ StopThrows(c) \/ StopJoins(c) \/ StopReturns(c)
      PROVE PoolNoLostWakeup'
  <2>1. \A d \in Clients :
           cpc[d] \in {"notify_one", "stop_notify"} => cpc'[d] = cpc[d]
    BY <1>8, WakeClientsEffect
    DEF WaitCalled, WaitSleeps, WaitReturns, StopThrows, StopJoins, StopReturns
  <2>2. Sleeping' = Sleeping /\ tasks' = tasks /\ stopped' = stopped
    BY <1>8
    DEF WaitCalled, WaitSleeps, WaitReturns, StopThrows, StopJoins, StopReturns, Sleeping
  <2> QED
    BY <2>1, <2>2 DEF PoolNoLostWakeup
<1>9. CASE SpuriousWakeup
  <2>1. CASE \E w \in Workers : wpc[w] = "asleep" /\ WGoto(w, "look") /\ UNCHANGED cpc
    <3>1. Sleeping' \subseteq Sleeping /\ Sleeping' # Workers
      BY <2>1 DEF Sleeping
    <3> QED
      BY <1>9, <2>1, <3>1 DEF PoolNoLostWakeup, SpuriousWakeup
  <2>2. CASE \E c \in Clients : cpc[c] = "asleep" /\ CGoto(c, "wait") /\ UNCHANGED wpc
    <3>1. Sleeping' = Sleeping
      BY <2>2 DEF Sleeping
    <3> QED
      BY <1>9, <2>2, <3>1 DEF PoolNoLostWakeup, SpuriousWakeup
  <2> QED
    BY <1>9, <2>1, <2>2 DEF SpuriousWakeup
<1>10. CASE UNCHANGED vars
  BY <1>10 DEF vars, PoolNoLostWakeup, Sleeping
<1> QED
  BY <1>1, <1>2, <1>3, <1>4, <1>5, <1>6, <1>7, <1>8, <1>9, <1>10
  DEF Next, WorkerNext, ClientContinues

-----------------------------------------------------------------------------
(* The steps that leave the futures, the queue, the reports and the workers  *)
(* with a task as they are.                                                  *)
LEMMA SameAccounts ==
    ASSUME TasksAccountedFor,
           outcome' = outcome, tasks' = tasks, runs' = runs,
           reported \cup (checkers \cap Failing) \subseteq reported' \cup checkers',
           \A w \in Workers : wpc[w] \in {"run", "report"} => wpc'[w] = wpc[w]
    PROVE  TasksAccountedFor'
BY DEF TasksAccountedFor

LEMMA AccountsInductive ==
    TypeOK /\ TasksAccountedFor /\ [Next]_vars => TasksAccountedFor'
<1> SUFFICES ASSUME TypeOK, TasksAccountedFor, [Next]_vars PROVE TasksAccountedFor'
  OBVIOUS
<1> USE DEF pool, WGoto, CGoto, TypeOK
<1>1. ASSUME NEW w \in Workers,
             WorkerSleeps(w) \/ WorkerExits(w) \/ WorkerNotifies(w)
      PROVE TasksAccountedFor'
  BY <1>1, SameAccounts DEF WorkerSleeps, WorkerExits, WorkerNotifies
<1>2. ASSUME NEW w \in Workers, WorkerTakes(w) PROVE TasksAccountedFor'
  <2>1. /\ tasks # <<>> /\ Head(tasks) \in Tasks /\ tasks' = Tail(tasks)
        /\ wpc[w] = "look" /\ wpc' = [wpc EXCEPT ![w] = "run"]
        /\ runs' = [runs EXCEPT ![w] = Head(tasks)]
        /\ outcome' = [outcome EXCEPT ![Head(tasks)] = "running"]
        /\ reported' = reported /\ checkers' = checkers
    BY <1>2 DEF WorkerTakes
  <2>2. ASSUME NEW t \in Tasks, outcome'[t] = "queued"
        PROVE \E i \in DOMAIN tasks' : tasks'[i] = t
    <3>1. t # Head(tasks) /\ outcome[t] = "queued"
      BY <2>1, <2>2
    <3>2. PICK i \in 1..Len(tasks) : tasks[i] = t
      BY <3>1 DEF TasksAccountedFor
    <3>3. i # 1
      BY <2>1, <3>1, <3>2
    <3>4. i - 1 \in DOMAIN tasks' /\ tasks'[i - 1] = t
      BY <2>1, <3>2, <3>3
    <3> QED
      BY <3>4
  <2>3. ASSUME NEW t \in Tasks, outcome'[t] = "running"
        PROVE \E v \in Workers : wpc'[v] = "run" /\ runs'[v] = t
    <3>1. CASE t = Head(tasks)
      BY <2>1, <3>1
    <3>2. CASE t # Head(tasks)
      <4>1. PICK v \in Workers : wpc[v] = "run" /\ runs[v] = t
        BY <2>1, <2>3, <3>2 DEF TasksAccountedFor
      <4> QED
        BY <2>1, <4>1
    <3> QED
      BY <3>1, <3>2
  <2>4. ASSUME NEW t \in Failing, outcome'[t] = "done"
        PROVE \/ t \in reported' \cup checkers'
              \/ \E v \in Workers : wpc'[v] = "report" /\ runs'[v] = t
    <3>1. t \in Tasks /\ outcome[t] = "done"
      BY <2>1, <2>4, PoolAssumption DEF PoolAssumption
    <3>2. CASE t \in reported \cup checkers
      BY <2>1, <3>2
    <3>3. CASE \E v \in Workers : wpc[v] = "report" /\ runs[v] = t
      BY <2>1, <3>3
    <3> QED
      BY <3>1, <3>2, <3>3 DEF TasksAccountedFor
  <2> QED
    BY <2>2, <2>3, <2>4 DEF TasksAccountedFor
<1>3. ASSUME NEW w \in Workers, WorkerRuns(w) PROVE TasksAccountedFor'
  <2>1. /\ wpc[w] = "run" /\ wpc' = [wpc EXCEPT ![w] = "report"]
        /\ outcome' = [outcome EXCEPT ![runs[w]] = "done"]
        /\ UNCHANGED <<runs, tasks, reported, checkers>>
    BY <1>3 DEF WorkerRuns
  <2>2. runs[w] \in Tasks
    BY <2>1 DEF Busy
  <2> QED
    BY <2>1, <2>2 DEF TasksAccountedFor
<1>4. ASSUME NEW w \in Workers, WorkerReports(w) PROVE TasksAccountedFor'
  <2>1. /\ wpc[w] = "report" /\ wpc' = [wpc EXCEPT ![w] = "notify"]
        /\ checkers' = checkers \cup {runs[w]}
        /\ UNCHANGED <<runs, tasks, reported, outcome>>
    BY <1>4 DEF WorkerReports
  <2> QED
    BY <2>1 DEF TasksAccountedFor
<1>5. ASSUME NEW c \in Clients, NEW t \in Tasks, AddTask(c, t)
      PROVE TasksAccountedFor'
  <2>1. /\ tasks' = Append(tasks, t)
        /\ outcome' = [outcome EXCEPT ![t] = "queued"]
        /\ UNCHANGED <<runs, reported, checkers, wpc>>
    BY <1>5 DEF AddTask
  <2>2. ASSUME NEW s \in Tasks, outcome'[s] = "queued"
        PROVE \E i \in DOMAIN tasks' : tasks'[i] = s
    <3>1. CASE s = t
      <4>1. Len(tasks) + 1 \in DOMAIN tasks' /\ tasks'[Len(tasks) + 1] = t
        BY <2>1
      <4> QED
        BY <3>1, <4>1
    <3>2. CASE s # t
      <4>1. PICK i \in DOMAIN tasks : tasks[i] = s
        BY <2>1, <2>2, <3>2 DEF TasksAccountedFor
      <4>2. i \in DOMAIN tasks' /\ tasks'[i] = s
        BY <2>1, <4>1
      <4> QED
        BY <4>2
    <3> QED
      BY <3>1, <3>2
  <2> QED
    BY <2>1, <2>2 DEF TasksAccountedFor
<1>6. ASSUME NEW c \in Clients, AddTaskNotifies(c) \/ StopNotifies(c)
      PROVE TasksAccountedFor'
  <2>1. \A w \in Workers : wpc[w] \in {"run", "report"} => wpc'[w] = wpc[w]
    BY <1>6, NotifyOneEffect, NotifyWorkersEffect DEF AddTaskNotifies, StopNotifies
  <2> QED
    BY <1>6, <2>1, SameAccounts DEF AddTaskNotifies, StopNotifies
<1>7. ASSUME NEW c \in Clients,
             WaitCalled(c) \/ WaitSleeps(c) \/ StopJoins(c) \/ StopReturns(c)
      PROVE TasksAccountedFor'
  BY <1>7, SameAccounts DEF WaitCalled, WaitSleeps, StopJoins, StopReturns
<1>8. ASSUME NEW c \in Clients, WaitReturns(c) \/ StopThrows(c)
      PROVE TasksAccountedFor'
  BY <1>8, SameAccounts DEF WaitReturns, StopThrows, CheckFinishedTasks
<1>9. ASSUME NEW c \in Clients, StopSets(c) PROVE TasksAccountedFor'
  <2>1. /\ \A t \in Tasks : outcome'[t] = IF outcome[t] = "queued" THEN "dropped"
                                          ELSE outcome[t]
        /\ checkers \cap Failing = {} /\ reported' = reported
        /\ UNCHANGED <<runs, wpc>>
    BY <1>9 DEF StopSets, CheckFinishedTasks
  <2> QED
    BY <2>1 DEF TasksAccountedFor
<1>10. CASE SpuriousWakeup
  BY <1>10, SameAccounts DEF SpuriousWakeup
<1>11. CASE UNCHANGED vars
  BY <1>11, SameAccounts DEF vars
<1> QED
  BY <1>1, <1>2, <1>3, <1>4, <1>5, <1>6, <1>7, <1>8, <1>9, <1>10, <1>11
  DEF Next, WorkerNext, ClientContinues

-----------------------------------------------------------------------------
LEMMA Invariance == Spec => []IInv
<1>1. Init => IInv
  BY InitInv
<1>2. IInv /\ [Next]_vars => IInv'
  BY TypeInductive, WakeupInductive, AccountsInductive DEF IInv
<1> QED
  BY <1>1, <1>2, PTL DEF Spec

(* num_active_workers_ is always the number of workers that run a task or    *)
(* have still to report one, and the other variables have their types.       *)
THEOREM TypeCorrect == Spec => []TypeOK
<1>1. IInv => TypeOK
  BY DEF IInv
<1> QED
  BY <1>1, Invariance, PTL

(* No task waits in the queue while all workers sleep, and no worker sleeps  *)
(* in a stopped pool, unless the notification is on its way.                 *)
THEOREM WakeupSafety == Spec => []PoolNoLostWakeup
<1>1. IInv => PoolNoLostWakeup
  BY DEF IInv
<1> QED
  BY <1>1, Invariance, PTL

(* When Wait() returns no task is queued or running, and every task that     *)
(* failed has been reported to some caller.                                  *)
THEOREM WaitSafety == Spec => WaitReports
<1> DEFINE Reports ==
      \A c \in Clients : WaitReturns(c) =>
          \A t \in Tasks :
             /\ outcome[t] \notin {"queued", "running"}
             /\ outcome[t] = "done" /\ t \in Failing => t \in reported'
<1>1. IInv => Reports
  <2> SUFFICES ASSUME IInv, NEW c \in Clients, WaitReturns(c), NEW t \in Tasks
               PROVE  /\ outcome[t] \notin {"queued", "running"}
                      /\ outcome[t] = "done" /\ t \in Failing => t \in reported'
    OBVIOUS
  <2>1. tasks = <<>> /\ reported' = reported \cup (checkers \cap Failing)
    BY DEF WaitReturns, Quiet, CheckFinishedTasks
  <2>2. Busy = {}
    <3>1. Cardinality(Busy) = 0
      BY DEF WaitReturns, Quiet, IInv, TypeOK
    <3> QED
      BY <3>1, BusyFinite, FS_EmptySet
  <2>3. \A w \in Workers : wpc[w] \notin {"run", "report"}
    BY <2>2 DEF Busy
  <2>4. DOMAIN tasks = {}
    BY <2>1
  <2> QED
    BY <2>1, <2>3, <2>4 DEF IInv, TasksAccountedFor
<1>2. IInv => [Reports]_vars
  BY <1>1
<1> QED
  BY <1>2, Invariance, PTL DEF WaitReports

-----------------------------------------------------------------------------
(* Induction over a set, which stands for the property of the numbers in it. *)
LEMMA Least ==
    ASSUME NEW S \in SUBSET Nat, S # {}
    PROVE  \E x \in S : \A y \in S : x <= y
<1> DEFINE R == {p \in Nat \X Nat : p[1] < p[2]}
<1>1. IsWellFoundedOn(R, Nat)
  BY NatLessThanWellFounded DEF OpToRel
<1> HIDE DEF R
<1>2. PICK x \in S : \A y \in S : ~(<<y, x>> \in R)
  BY <1>1, WFMin
<1>3. ASSUME NEW y \in S PROVE x <= y
  <2>1. x \in Nat /\ y \in Nat /\ ~(<<y, x>> \in R)
    BY <1>2
  <2>2. <<y, x>> \in R <=> y < x
    BY <2>1 DEF R
  <2> QED BY <2>1, <2>2
<1> QED BY <1>3

LEMMA Induction ==
    ASSUME NEW S, 0 \in S, \A n \in Nat : n \in S => n + 1 \in S
    PROVE  Nat \subseteq S
<1> SUFFICES ASSUME Nat \ S # {} PROVE FALSE
  OBVIOUS
<1>1. PICK x \in Nat \ S : \A y \in Nat \ S : x <= y
  BY Least
<1>2. x # 0 /\ x - 1 \in Nat
  BY <1>1
<1>3. x - 1 \in S
  <2>1. ~(x <= x - 1)
    BY <1>1
  <2> QED BY <1>1, <1>2, <2>1
<1>4. (x - 1) + 1 = x
  BY <1>1
<1> QED BY <1>1, <1>2, <1>3, <1>4

(* A function that is defined by recursion over the numbers up to n exists:  *)
(* Gen gives each of its values from the number and the value before.        *)
Follows(f, n, Gen) == \A i \in 1 .. n : f[i] = Gen[<<i, f[i - 1]>>]

LEMMA RecursionExists ==
    ASSUME NEW n \in Nat, NEW V, NEW a \in V, NEW Gen \in [(1 .. n) \X V -> V]
    PROVE  \E f \in [0 .. n -> V] : f[0] = a /\ Follows(f, n, Gen)
<1> DEFINE Good(f, m) == f[0] = a /\ \A i \in 1 .. m : f[i] = Gen[<<i, f[i - 1]>>]
           S == {m \in Nat : m <= n => \E f \in [0 .. m -> V] : Good(f, m)}
<1>1. 0 \in S
  <2> DEFINE f == [i \in 0 .. 0 |-> a]
  <2>1. f \in [0 .. 0 -> V] /\ Good(f, 0)
    OBVIOUS
  <2> QED BY <2>1
<1>2. ASSUME NEW m \in Nat, m \in S PROVE m + 1 \in S
  <2> SUFFICES ASSUME m + 1 <= n PROVE \E f \in [0 .. m + 1 -> V] : Good(f, m + 1)
    OBVIOUS
  <2>1. PICK f \in [0 .. m -> V] : Good(f, m)
    BY <1>2
  <2> DEFINE g == [i \in 0 .. m + 1 |-> IF i = m + 1 THEN Gen[<<m + 1, f[m]>>] ELSE f[i]]
  <2>2. f[m] \in V /\ m + 1 \in 1 .. n
    BY <2>1
  <2>3. Gen[<<m + 1, f[m]>>] \in V
    BY <2>2
  <2>4. g \in [0 .. m + 1 -> V]
    <3>1. \A i \in 0 .. m + 1 : i # m + 1 => i \in 0 .. m
      OBVIOUS
    <3> QED BY <2>1, <2>3, <3>1
  <2>5. g[0] = a /\ g[m + 1] = Gen[<<m + 1, f[m]>>] /\ g[m] = f[m]
    BY <2>1
  <2>6. ASSUME NEW i \in 1 .. m + 1 PROVE g[i] = Gen[<<i, g[i - 1]>>]
    <3>1. CASE i = m + 1
      <4>1. i - 1 = m
        BY <3>1
      <4> HIDE DEF g
      <4> QED BY <2>5, <3>1, <4>1
    <3>2. CASE i # m + 1
      <4>1. i \in 1 .. m /\ i - 1 \in 0 .. m /\ i - 1 # m + 1 /\ i \in 0 .. m + 1 /\ i - 1 \in 0 .. m + 1
        BY <3>2
      <4>2. g[i] = f[i] /\ g[i - 1] = f[i - 1]
        BY <3>2, <4>1
      <4> HIDE DEF g
      <4> QED BY <2>1, <4>1, <4>2
    <3> QED BY <3>1, <3>2
  <2> HIDE DEF g
  <2> QED BY <2>4, <2>5, <2>6
<1>3. n \in S
  <2> HIDE DEF S
  <2>1. Nat \subseteq S
    BY <1>1, <1>2, Induction
  <2> QED BY <2>1
<1>4. PICK f \in [0 .. n -> V] : Good(f, n)
  BY <1>3
<1> QED BY <1>4 DEF Follows

-----------------------------------------------------------------------------
(* The elements of a sequence. *)
LEMMA RangeIs == \A s : F!Range(s) = {s[i] : i \in DOMAIN s}
BY DEF F!Range

LEMMA RangeEmpty == F!Range(<<>>) = {}
BY RangeIs

LEMMA RangeType == ASSUME NEW X, NEW s \in Seq(X) PROVE F!Range(s) \subseteq X
BY RangeIs, LenProperties, ElementOfSeq

LEMMA RangeAppend ==
    ASSUME NEW X, NEW s \in Seq(X), NEW x \in X
    PROVE  /\ Append(s, x) \in Seq(X) /\ Len(Append(s, x)) = Len(s) + 1
           /\ F!Range(Append(s, x)) = F!Range(s) \cup {x}
<1>1. /\ Append(s, x) \in Seq(X) /\ Len(Append(s, x)) = Len(s) + 1 /\ Len(s) \in Nat
      /\ Append(s, x)[Len(s) + 1] = x /\ \A k \in 1 .. Len(s) : Append(s, x)[k] = s[k]
      /\ DOMAIN s = 1 .. Len(s)
  BY AppendProperties, LenProperties
<1>2. DOMAIN Append(s, x) = 1 .. Len(s) + 1
  BY <1>1, LenProperties
<1>3. \A k : k \in 1 .. Len(s) + 1 <=> k \in 1 .. Len(s) \/ k = Len(s) + 1
  BY <1>1
<1>4. \A y : y \in F!Range(Append(s, x)) <=> y \in F!Range(s) \cup {x}
  BY <1>1, <1>2, <1>3, RangeIs
<1> QED BY <1>1, <1>4

LEMMA RangeHeadTail ==
    ASSUME NEW X, NEW s \in Seq(X), s # <<>>
    PROVE  /\ Tail(s) \in Seq(X) /\ Head(s) \in X
           /\ F!Range(s) = F!Range(Tail(s)) \cup {Head(s)}
<1>1. /\ Tail(s) \in Seq(X) /\ Len(Tail(s)) = Len(s) - 1 /\ Head(s) \in X /\ Len(s) \in Nat \ {0}
      /\ \A k \in 1 .. Len(s) - 1 : Tail(s)[k] = s[k + 1]
      /\ Head(s) = s[1]
  BY HeadTailProperties, EmptySeq, LenProperties
<1>2. DOMAIN s = 1 .. Len(s) /\ DOMAIN Tail(s) = 1 .. Len(s) - 1
  BY <1>1, LenProperties
<1>3. \A k \in 1 .. Len(s) : k = 1 \/ (k - 1 \in 1 .. Len(s) - 1 /\ k = (k - 1) + 1)
  BY <1>1
<1>4. \A k \in 1 .. Len(s) - 1 : k + 1 \in 1 .. Len(s)
  BY <1>1
<1>5. 1 \in 1 .. Len(s)
  BY <1>1
<1>6. ASSUME NEW y \in F!Range(s) PROVE y \in F!Range(Tail(s)) \cup {Head(s)}
  <2>1. PICK k \in 1 .. Len(s) : y = s[k]
    BY <1>2, <1>6, RangeIs
  <2>2. CASE k = 1
    BY <1>1, <2>1, <2>2
  <2>3. CASE k # 1
    <3>1. k - 1 \in 1 .. Len(s) - 1 /\ Tail(s)[k - 1] = s[k]
      BY <1>1, <1>3, <2>1, <2>3
    <3> QED BY <1>2, <2>1, <3>1, RangeIs
  <2> QED BY <2>2, <2>3
<1>7. ASSUME NEW y \in F!Range(Tail(s)) PROVE y \in F!Range(s)
  <2>1. PICK k \in 1 .. Len(s) - 1 : y = Tail(s)[k]
    BY <1>2, <1>7, RangeIs
  <2>2. y = s[k + 1] /\ k + 1 \in 1 .. Len(s)
    BY <1>1, <1>4, <2>1
  <2> QED BY <1>2, <2>2, RangeIs
<1>8. Head(s) \in F!Range(s)
  BY <1>1, <1>2, <1>5, RangeIs
<1> QED BY <1>1, <1>6, <1>7, <1>8

LEMMA RangeFrontLast ==
    ASSUME NEW X, NEW s \in Seq(X), s # <<>>
    PROVE  /\ F!Front(s) \in Seq(X) /\ F!Last(s) \in X /\ F!Last(s) \in F!Range(s)
           /\ F!Range(F!Front(s)) \subseteq F!Range(s)
<1>1. Len(s) \in Nat \ {0} /\ DOMAIN s = 1 .. Len(s)
  BY EmptySeq, LenProperties
<1> DEFINE n == Len(s) - 1
<1>2. n \in Nat /\ 1 \in Int /\ n \in Int /\ Len(s) \in 1 .. Len(s) /\ \A i \in 1 .. n : i \in 1 .. Len(s)
  BY <1>1
<1>3. \A i \in 1 .. Len(s) : s[i] \in X
  BY ElementOfSeq
<1>4. F!Front(s) = SubSeq(s, 1, n) /\ F!Last(s) = s[Len(s)]
  BY DEF F!Front, F!Last
<1> HIDE DEF n
<1>5. \A i \in 1 .. n : s[i] \in X
  BY <1>2, <1>3
<1>6. /\ SubSeq(s, 1, n) \in Seq(X)
      /\ Len(SubSeq(s, 1, n)) = IF 1 <= n THEN n - 1 + 1 ELSE 0
      /\ \A i \in 1 .. n - 1 + 1 : SubSeq(s, 1, n)[i] = s[1 + i - 1]
  BY <1>2, <1>5, SubSeqProperties
<1>7. Len(SubSeq(s, 1, n)) = n /\ \A i \in 1 .. n : SubSeq(s, 1, n)[i] = s[i]
  <2>1. Len(SubSeq(s, 1, n)) = n
    BY <1>2, <1>6
  <2>2. \A i \in 1 .. n : i \in 1 .. n - 1 + 1 /\ 1 + i - 1 = i
    BY <1>2
  <2> QED BY <1>6, <2>1, <2>2
<1>8. DOMAIN SubSeq(s, 1, n) = 1 .. n
  BY <1>6, <1>7, LenProperties
<1> QED BY <1>1, <1>2, <1>3, <1>4, <1>6, <1>7, <1>8, RangeIs

LEMMA RangeConcat ==
    ASSUME NEW X, NEW s \in Seq(X), NEW t \in Seq(X)
    PROVE  s \o t \in Seq(X) /\ F!Range(s \o t) \subseteq F!Range(s) \cup F!Range(t)
<1>1. /\ s \o t \in Seq(X) /\ Len(s \o t) = Len(s) + Len(t) /\ Len(s) \in Nat /\ Len(t) \in Nat
      /\ \A i \in 1 .. Len(s) + Len(t) : (s \o t)[i] = IF i <= Len(s) THEN s[i] ELSE t[i - Len(s)]
      /\ DOMAIN s = 1 .. Len(s) /\ DOMAIN t = 1 .. Len(t)
  BY ConcatProperties, LenProperties
<1>2. DOMAIN (s \o t) = 1 .. Len(s) + Len(t)
  BY <1>1, LenProperties
<1>3. ASSUME NEW i \in 1 .. Len(s) + Len(t) PROVE (s \o t)[i] \in F!Range(s) \cup F!Range(t)
  <2>1. i <= Len(s) => i \in 1 .. Len(s)
    BY <1>1
  <2>2. ~(i <= Len(s)) => i - Len(s) \in 1 .. Len(t)
    BY <1>1
  <2>3. CASE i <= Len(s)
    <3>1. (s \o t)[i] = s[i] /\ i \in DOMAIN s
      BY <1>1, <1>3, <2>1, <2>3
    <3> QED BY <3>1, RangeIs
  <2>4. CASE ~(i <= Len(s))
    <3>1. (s \o t)[i] = t[i - Len(s)] /\ i - Len(s) \in DOMAIN t
      BY <1>1, <1>3, <2>2, <2>4
    <3> QED BY <3>1, RangeIs
  <2> QED BY <2>3, <2>4
<1>4. ASSUME NEW y \in F!Range(s \o t) PROVE y \in F!Range(s) \cup F!Range(t)
  <2>1. PICK i \in DOMAIN (s \o t) : y = (s \o t)[i]
    BY <1>4, RangeIs
  <2>2. i \in 1 .. Len(s) + Len(t)
    BY <1>2, <2>1
  <2> QED BY <1>3, <2>1, <2>2
<1> QED BY <1>1, <1>4

(* What Kept(s, S) leaves of s. *)
LEMMA KeptElements ==
    ASSUME NEW X, NEW s \in Seq(X), NEW S
    PROVE  F!Kept(s, S) \in Seq(X) /\ F!Range(F!Kept(s, S)) = F!Range(s) \cap S
<1> DEFINE n == Len(s)
           V == Seq(X)
           Gen == [x \in (1 .. n) \X V |-> IF s[x[1]] \in S THEN Append(x[2], s[x[1]]) ELSE x[2]]
           Rec(f) == f = [i \in 0 .. n |-> IF i = 0 THEN <<>>
                                           ELSE IF s[i] \in S THEN Append(f[i - 1], s[i])
                                           ELSE f[i - 1]]
<1>1. n \in Nat /\ DOMAIN s = 1 .. n /\ \A i \in 1 .. n : s[i] \in X
  BY LenProperties, ElementOfSeq
<1>2. <<>> \in V /\ \A t \in V, x \in X : Append(t, x) \in V
  BY EmptySeq, AppendProperties
<1>3. Gen \in [(1 .. n) \X V -> V]
  <2> HIDE DEF V
  <2> QED BY <1>1, <1>2
<1>4. \E f : Rec(f)
  <2> HIDE DEF Gen, V, n
  <2>1. PICK f \in [0 .. n -> V] : f[0] = <<>> /\ Follows(f, n, Gen)
    BY <1>1, <1>2, <1>3, RecursionExists DEF n
  <2>2. ASSUME NEW i \in 1 .. n
        PROVE  f[i] = IF s[i] \in S THEN Append(f[i - 1], s[i]) ELSE f[i - 1]
    <3>1. i - 1 \in 0 .. n
      BY <1>1
    <3>2. f[i - 1] \in V
      BY <2>1, <3>1
    <3>3. <<i, f[i - 1]>> \in (1 .. n) \X V
      BY <3>2
    <3>4. Gen[<<i, f[i - 1]>>] = IF s[i] \in S THEN Append(f[i - 1], s[i]) ELSE f[i - 1]
      BY <3>3 DEF Gen
    <3> QED BY <2>1, <3>4 DEF Follows
  <2>3. \A i \in 0 .. n : i = 0 \/ i \in 1 .. n
    BY <1>1
  <2>4. \A i \in 0 .. n : f[i] = IF i = 0 THEN <<>> ELSE IF s[i] \in S THEN Append(f[i - 1], s[i])
                                                    ELSE f[i - 1]
    BY <2>1, <2>2, <2>3
  <2>5. f = [i \in 0 .. n |-> f[i]]
    BY <2>1
  <2>6. Rec(f)
    BY <2>4, <2>5
  <2> QED BY <2>6
<1> DEFINE f == CHOOSE f : Rec(f)
<1>5. Rec(f)
  BY <1>4
<1>6. F!Kept(s, S) = f[n]
  BY DEF F!Kept
<1>7. f[0] = <<>> /\ \A i \in 1 .. n : f[i] = IF s[i] \in S THEN Append(f[i - 1], s[i]) ELSE f[i - 1]
  <2> HIDE DEF f
  <2>1. \A i \in 0 .. n : f[i] = IF i = 0 THEN <<>> ELSE IF s[i] \in S THEN Append(f[i - 1], s[i])
                                                    ELSE f[i - 1]
    BY <1>5
  <2>2. 0 \in 0 .. n /\ \A i \in 1 .. n : i \in 0 .. n /\ i # 0
    BY <1>1
  <2> QED BY <2>1, <2>2
<1> HIDE DEF f
<1> DEFINE T == {m \in Nat : m <= n => f[m] \in V /\ F!Range(f[m]) = {s[i] : i \in 1 .. m} \cap S}
<1>8. 0 \in T
  <2>1. {s[i] : i \in 1 .. 0} = {}
    OBVIOUS
  <2> QED BY <1>2, <1>7, <2>1, RangeEmpty
<1>9. ASSUME NEW m \in Nat, m \in T PROVE m + 1 \in T
  <2> SUFFICES ASSUME m + 1 <= n
               PROVE  f[m + 1] \in V /\ F!Range(f[m + 1]) = {s[i] : i \in 1 .. m + 1} \cap S
    OBVIOUS
  <2>1. f[m] \in V /\ F!Range(f[m]) = {s[i] : i \in 1 .. m} \cap S
    BY <1>1, <1>9
  <2>2. m + 1 \in 1 .. n /\ m + 1 - 1 = m
    BY <1>1
  <2>3. f[m + 1] = IF s[m + 1] \in S THEN Append(f[m], s[m + 1]) ELSE f[m]
    BY <1>7, <2>2
  <2>4. {s[i] : i \in 1 .. m + 1} = {s[i] : i \in 1 .. m} \cup {s[m + 1]}
    <3>1. \A i : i \in 1 .. m + 1 <=> i \in 1 .. m \/ i = m + 1
      OBVIOUS
    <3> QED BY <3>1
  <2>5. s[m + 1] \in X
    BY <1>1, <2>2
  <2>6. /\ Append(f[m], s[m + 1]) \in Seq(X)
        /\ F!Range(Append(f[m], s[m + 1])) = F!Range(f[m]) \cup {s[m + 1]}
    BY <2>1, <2>5, RangeAppend
  <2> HIDE DEF V
  <2>7. CASE s[m + 1] \in S
    BY <2>1, <2>3, <2>4, <2>6, <2>7 DEF V
  <2>8. CASE s[m + 1] \notin S
    BY <2>1, <2>3, <2>4, <2>8
  <2> QED BY <2>7, <2>8
<1>10. n \in T
  <2> HIDE DEF T
  <2>1. Nat \subseteq T
    BY <1>8, <1>9, Induction
  <2> QED BY <1>1, <2>1
<1> QED BY <1>1, <1>6, <1>10, RangeIs

-----------------------------------------------------------------------------
(* Where a pixel of the image under way waits to be fused. *)
WaitsAtWorker(w, p) ==
    \/ p \in F!Range(fjob[w].todo)
    \/ fjob[w].fusing /\ fjob[w].queue = <<<<p, 0>>>> /\ fjob[w].tested = <<>>
    \/ fjob[w].tested = <<p, 0>>
Waits(p) ==
    \/ \E b \in F!Range(frest) \cup F!Range(ftasks) : p \in F!Range(b)
    \/ \E w \in Workers : WaitsAtWorker(w, p)

(* What a worker has in its hands. *)
JobRight(w) ==
    /\ ~fjob[w].busy => fjob[w] = F!Idle
    /\ fjob[w].fusing => fjob[w].busy
    /\ ~fjob[w].fusing => fjob[w].point = <<>> /\ fjob[w].queue = <<>> /\ fjob[w].tested = <<>>
    /\ fjob[w].queue # <<>> \/ fjob[w].tested # <<>> => Len(fjob[w].point) < MaxNumPixels
    /\ \A p \in F!Range(fjob[w].todo) : p \in F!PixelsOf(image)
    /\ \A x \in F!Range(fjob[w].queue) : x[1][1] \notin fused
    /\ fjob[w].tested # <<>> => fjob[w].tested[1][1] \notin fused

(* The points of a worker have no pixel in common. *)
PointsRight(w) ==
    /\ F!Range(fjob[w].point) \subseteq masks
    /\ \A n \in DOMAIN points[w] :
          /\ points[w][n] \subseteq masks
          /\ points[w][n] \cap F!Range(fjob[w].point) = {}
          /\ fjob[w].tested # <<>> => fjob[w].tested[1] \notin points[w][n]
          /\ \A m \in DOMAIN points[w] : m # n => points[w][n] \cap points[w][m] = {}
    /\ fjob[w].tested # <<>> => fjob[w].tested[1] \notin F!Range(fjob[w].point)

RunRight ==
    /\ fat \in {"next", "add"} => image \in F!Images \ fused
    /\ fat # "add" => frest = <<>> /\ F!PoolDone
    /\ \A b \in F!Range(frest) \cup F!Range(ftasks) : F!Range(b) \subseteq F!PixelsOf(image)
    /\ fat = "done" /\ ~fstopped => InUse \subseteq fused

MasksRight ==
    /\ \A p \in F!Pixels \ Filtered : p[1] \in fused => p \in masks
    /\ fat = "add" => \A p \in F!PixelsOf(image) \ Filtered : p \in masks \/ Waits(p)

FusionInv ==
    /\ F!TypeOK /\ RunRight /\ MasksRight
    /\ \A w \in Workers : JobRight(w) /\ PointsRight(w)


-----------------------------------------------------------------------------
(* What the constants give. *)
LEMMA PixelImages ==
    ASSUME F!FusionAssumption
    PROVE  /\ \A p \in F!Pixels : p[1] \in F!Images /\ p \in F!PixelsOf(p[1])
           /\ \A i \in F!Images : \A p \in F!PixelsOf(i) : p \in F!Pixels /\ p[1] = i
           /\ F!Images \subseteq Nat /\ InUse \subseteq F!Images
BY DEF F!FusionAssumption, F!Pixels, F!Images

LEMMA FirstIs == ASSUME NEW S \in SUBSET Nat, S # {} PROVE F!First(S) \in S
BY Least DEF F!First

(* FindNextImage() gives an image in use that is not done, while there is one. *)
LEMMA NextIsOpen ==
    ASSUME F!FusionAssumption, NEW i \in F!Images, NEW done, done \subseteq F!Images
    PROVE  \/ F!FindNextImage(i, done) \in InUse \ done
           \/ F!FindNextImage(i, done) = -1 /\ InUse \subseteq done
<1> DEFINE near == F!OpenOverlapping(i, done)
           far == F!OpenAnywhere(done)
<1>1. Overlap[i] \in Seq(F!Images)
  BY DEF F!FusionAssumption
<1>2. near \in SUBSET Nat /\ \A k \in near : Overlap[i][k] \in InUse \ done
  <2>1. DOMAIN Overlap[i] \subseteq Nat
    BY <1>1, LenProperties
  <2> QED BY <2>1 DEF F!OpenOverlapping, F!Open
<1>3. far \in SUBSET Nat /\ far \subseteq InUse \ done /\ (far = {} => InUse \subseteq done)
  BY PixelImages DEF F!OpenAnywhere, F!Open
<1>4. CASE near # {}
  <2> HIDE DEF near, far
  <2>1. F!First(near) \in near
    BY <1>2, <1>4, FirstIs
  <2> QED BY <1>2, <1>4, <2>1 DEF F!FindNextImage, near
<1>5. CASE near = {} /\ far # {}
  <2> HIDE DEF near, far
  <2>1. F!First(far) \in far
    BY <1>3, <1>5, FirstIs
  <2> QED BY <1>3, <1>5, <2>1 DEF F!FindNextImage, near, far
<1>6. CASE near = {} /\ far = {}
  BY <1>3, <1>6 DEF F!FindNextImage
<1> QED BY <1>4, <1>5, <1>6

(* What is pushed after a pixel is in images that are not fused. *)
LEMMA SeenRight ==
    ASSUME F!FusionAssumption, NEW p \in F!Pixels, NEW depth \in Nat
    PROVE  /\ F!Seen(p, depth) \in Seq(F!Pixels \X Nat)
           /\ \A x \in F!Range(F!Seen(p, depth)) : x[1][1] \notin fused
<1> DEFINE S == {i \in F!Images : F!Candidate(i) /\ Project[<<p, i>>] # Nowhere}
           there == F!Kept(Overlap[p[1]], S)
           seen == [i \in DOMAIN there |-> <<Project[<<p, there[i]>>], depth + 1>>]
<1>1. Overlap[p[1]] \in Seq(F!Images)
  BY PixelImages DEF F!FusionAssumption
<1>2. there \in Seq(F!Images) /\ F!Range(there) \subseteq S
  BY <1>1, KeptElements
<1>3. Len(there) \in Nat /\ DOMAIN there = 1 .. Len(there)
  BY <1>2, LenProperties
<1>4. F!Seen(p, depth) = seen
  BY DEF F!Seen
<1> HIDE DEF there
<1>5. ASSUME NEW k \in 1 .. Len(there)
      PROVE  Project[<<p, there[k]>>] \in F!Pixels /\ Project[<<p, there[k]>>][1] \notin fused
  <2>1. there[k] \in S
    BY <1>2, <1>3, RangeIs
  <2>2. Project[<<p, there[k]>>] \in F!PixelsOf(there[k])
    BY <2>1 DEF F!FusionAssumption
  <2> QED BY <2>1, <2>2, PixelImages DEF F!Candidate
<1>6. seen \in [1 .. Len(there) -> F!Pixels \X Nat]
  BY <1>3, <1>5
<1>7. seen \in Seq(F!Pixels \X Nat)
  <2> HIDE DEF seen
  <2> QED BY <1>3, <1>6, SeqDef
<1>8. ASSUME NEW x \in F!Range(seen) PROVE x[1][1] \notin fused
  <2>1. PICK k \in 1 .. Len(there) : x = seen[k]
    <3>1. DOMAIN seen = 1 .. Len(there)
      BY <1>3
    <3> QED BY <1>8, <3>1, RangeIs
  <2>2. x = <<Project[<<p, there[k]>>], depth + 1>>
    BY <1>3, <2>1
  <2> QED BY <1>5, <2>2
<1> QED BY <1>4, <1>7, <1>8

-----------------------------------------------------------------------------
FusionJobs ==
    [busy : BOOLEAN, todo : Seq(F!Pixels), fusing : BOOLEAN, queue : Seq(F!Pixels \X Nat),
     tested : {<<>>} \cup (F!Pixels \X Nat), point : Seq(F!Pixels)]

LEMMA JobsHold ==
    ASSUME F!TypeOK
    PROVE  /\ fjob \in [Workers -> FusionJobs]
           /\ \A w \in Workers :
                /\ fjob[w].busy \in BOOLEAN /\ fjob[w].fusing \in BOOLEAN
                /\ fjob[w].todo \in Seq(F!Pixels) /\ fjob[w].point \in Seq(F!Pixels)
                /\ fjob[w].queue \in Seq(F!Pixels \X Nat)
                /\ fjob[w].tested \in {<<>>} \cup (F!Pixels \X Nat)
                /\ Len(fjob[w].point) <= MaxNumPixels
BY DEF F!TypeOK, FusionJobs

LEMMA IdleJob ==
    /\ F!Idle \in FusionJobs
    /\ ~F!Idle.busy /\ ~F!Idle.fusing /\ F!Idle.todo = <<>> /\ F!Idle.queue = <<>>
    /\ F!Idle.tested = <<>> /\ F!Idle.point = <<>>
<1>1. <<>> \in Seq(F!Pixels) /\ <<>> \in Seq(F!Pixels \X Nat)
  BY EmptySeq
<1> QED BY <1>1 DEF F!Idle, FusionJobs

LEMMA PairNotEmpty == \A a, b : <<a, b>> # <<>>
<1> TAKE a, b
<1>1. Len(<<a, b>>) = 2 /\ Len(<<>>) = 0
  OBVIOUS
<1> QED BY <1>1

LEMMA PairsHold ==
    /\ \A x : x \in F!Pixels \X Nat => x # <<>> /\ x[1] \in F!Pixels /\ x[2] \in Nat
                                       /\ x = <<x[1], x[2]>>
    /\ \A p \in F!Pixels, d \in Nat : <<p, d>> \in F!Pixels \X Nat /\ <<p, d>>[1] = p
<1>2. ASSUME NEW x \in F!Pixels \X Nat
      PROVE  x # <<>> /\ x[1] \in F!Pixels /\ x[2] \in Nat /\ x = <<x[1], x[2]>>
  <2>1. PICK p \in F!Pixels, d \in Nat : x = <<p, d>>
    OBVIOUS
  <2>2. x # <<>>
    BY <2>1, PairNotEmpty
  <2> QED BY <2>1, <2>2
<1> QED BY <1>2

LEMMA FusionStarts == F!FusionAssumption /\ F!Init => FusionInv
<1> SUFFICES ASSUME F!FusionAssumption, F!Init PROVE FusionInv
  OBVIOUS
<1>1. \A w \in Workers : fjob[w] = F!Idle /\ points[w] = <<>>
  BY DEF F!Init
<1>2. <<>> \in Seq(Seq(F!Pixels)) /\ <<>> \in Seq(SUBSET F!Pixels) /\ DOMAIN <<>> = {}
  BY EmptySeq
<1>3. Len(<<>>) = 0 /\ MaxNumPixels \in Nat \ {0}
  BY DEF F!FusionAssumption
<1>4. F!TypeOK
  <2>1. fjob \in [Workers -> FusionJobs] /\ points \in [Workers -> Seq(SUBSET F!Pixels)]
    BY <1>2, IdleJob DEF F!Init
  <2>2. \A w \in Workers : Len(fjob[w].point) <= MaxNumPixels
    BY <1>1, <1>3, IdleJob
  <2>3. masks \subseteq F!Pixels /\ fused \subseteq F!Images /\ image \in F!Images
    BY DEF F!Init, F!FusionAssumption, F!Images
  <2> QED BY <1>2, <2>1, <2>2, <2>3 DEF F!TypeOK, FusionJobs, F!Init
<1>5. RunRight
  BY <1>1, <1>4, IdleJob, RangeEmpty DEF RunRight, F!Init, F!PoolDone, F!TypeOK
<1>6. MasksRight
  BY DEF MasksRight, F!Init
<1>7. \A w \in Workers : JobRight(w) /\ PointsRight(w)
  BY <1>1, <1>2, IdleJob, RangeEmpty DEF JobRight, PointsRight
<1> QED BY <1>4, <1>5, <1>6, <1>7 DEF FusionInv

(* Fuse() of a worker: what it must do to its job for all to stay as it was. *)
LEMMA WorkerKeeps ==
    ASSUME FusionInv, fat = "add", NEW w \in Workers, NEW j \in FusionJobs, F!Become(w, j),
           Len(j.point) <= MaxNumPixels,
           UNCHANGED <<fused, image, frest, fstopped, fat>>,
           masks \subseteq masks', masks' \subseteq F!Pixels,
           ftasks' \in Seq(Seq(F!Pixels)), F!Range(ftasks') \subseteq F!Range(ftasks),
           \A b \in F!Range(ftasks) : b \in F!Range(ftasks') \/ b = j.todo,
           points' \in [Workers -> Seq(SUBSET F!Pixels)],
           \A v \in Workers \ {w} : points'[v] = points[v],
           \A p \in F!Pixels \ Filtered : WaitsAtWorker(w, p) => p \in masks' \/ WaitsAtWorker(w, p)',
           JobRight(w)', PointsRight(w)'
    PROVE  FusionInv'
<1>1. /\ fjob' \in [Workers -> FusionJobs] /\ fjob'[w] = j
      /\ \A v \in Workers \ {w} : fjob'[v] = fjob[v]
  BY JobsHold DEF FusionInv, F!Become
<1>2. F!TypeOK'
  <2>1. \A v \in Workers : Len(fjob'[v].point) <= MaxNumPixels
    BY <1>1, JobsHold DEF FusionInv
  <2> QED BY <1>1, <2>1 DEF FusionInv, F!TypeOK, FusionJobs
<1>3. RunRight'
  BY DEF RunRight, FusionInv
<1>4. ASSUME NEW v \in Workers \ {w} PROVE JobRight(v)' /\ PointsRight(v)' /\ \A p : WaitsAtWorker(v, p) => WaitsAtWorker(v, p)'
  <2>1. JobRight(v) /\ PointsRight(v)
    BY DEF FusionInv
  <2>2. JobRight(v)'
    BY <1>1, <2>1 DEF JobRight
  <2>3. PointsRight(v)'
    BY <1>1, <2>1 DEF PointsRight
  <2>4. \A p : WaitsAtWorker(v, p) => WaitsAtWorker(v, p)'
    BY <1>1 DEF WaitsAtWorker
  <2> QED BY <2>2, <2>3, <2>4
<1>5. MasksRight'
  <2>1. \A p \in F!Pixels \ Filtered : p[1] \in fused' => p \in masks'
    BY DEF FusionInv, MasksRight
  <2>2. ASSUME NEW p \in F!Pixels \ Filtered, Waits(p) PROVE p \in masks' \/ Waits(p)'
    <3>1. CASE \E b \in F!Range(frest) : p \in F!Range(b)
      BY <3>1 DEF Waits
    <3>2. ASSUME NEW b \in F!Range(ftasks), p \in F!Range(b) PROVE Waits(p)'
      <4>1. CASE b \in F!Range(ftasks')
        BY <3>2, <4>1 DEF Waits
      <4>2. CASE b = j.todo
        <5>1. p \in F!Range(fjob'[w].todo)
          BY <1>1, <3>2, <4>2
        <5>2. WaitsAtWorker(w, p)'
          BY <5>1 DEF WaitsAtWorker
        <5> QED BY <5>2 DEF Waits
      <4> QED BY <4>1, <4>2
    <3>3. ASSUME NEW v \in Workers, WaitsAtWorker(v, p) PROVE p \in masks' \/ Waits(p)'
      <4>1. p \in masks' \/ WaitsAtWorker(v, p)'
        BY <1>4, <3>3
      <4> QED BY <4>1 DEF Waits
    <3> QED BY <2>2, <3>1, <3>2, <3>3 DEF Waits
  <2>3. \A p \in F!PixelsOf(image) : p \in F!Pixels
    BY DEF F!Pixels, FusionInv, RunRight
  <2>4. \A p \in F!PixelsOf(image) \ Filtered : p \in masks \/ Waits(p)
    BY DEF FusionInv, MasksRight
  <2> QED BY <2>1, <2>2, <2>3, <2>4 DEF MasksRight
<1> QED BY <1>2, <1>3, <1>4, <1>5 DEF FusionInv

LEMMA BusyAdds ==
    ASSUME FusionInv, NEW w \in Workers, fjob[w].busy \/ ftasks # <<>>
    PROVE  fat = "add" /\ image \in F!Images \ fused
BY DEF FusionInv, RunRight, F!PoolDone

LEMMA TakeKeeps == ASSUME FusionInv, NEW w \in Workers, F!Take(w) PROVE FusionInv'
<1> DEFINE b == Head(ftasks)
           j == [F!Idle EXCEPT !.busy = TRUE, !.todo = b]
<1>1. /\ ~fjob[w].busy /\ ftasks # <<>> /\ F!Become(w, j) /\ ftasks' = Tail(ftasks)
      /\ UNCHANGED <<masks, fused, image, frest, points, fstopped, fat>>
  BY DEF F!Take
<1>2. ftasks \in Seq(Seq(F!Pixels)) /\ fjob[w] = F!Idle /\ PointsRight(w) /\ fat = "add"
  BY <1>1, BusyAdds DEF FusionInv, F!TypeOK, JobRight
<1>3. /\ Tail(ftasks) \in Seq(Seq(F!Pixels)) /\ b \in Seq(F!Pixels)
      /\ F!Range(ftasks) = F!Range(Tail(ftasks)) \cup {b}
  BY <1>1, <1>2, RangeHeadTail
<1>4. /\ j \in FusionJobs /\ j.busy /\ ~j.fusing /\ j.todo = b /\ j.queue = <<>> /\ j.tested = <<>>
      /\ j.point = <<>>
  <2> HIDE DEF b
  <2> QED BY <1>3, IdleJob DEF F!Idle, FusionJobs
<1>5. fjob'[w] = j
  BY <1>1, JobsHold DEF F!Become, FusionInv
<1> HIDE DEF j, b
<1>6. Len(j.point) <= MaxNumPixels
  BY <1>2, <1>4, IdleJob, JobsHold DEF FusionInv
<1>7. JobRight(w)'
  <2>1. \A p \in F!Range(b) : p \in F!PixelsOf(image)
    BY <1>3 DEF FusionInv, RunRight
  <2> QED BY <1>1, <1>4, <1>5, <2>1, RangeEmpty DEF JobRight
<1>8. PointsRight(w)'
  BY <1>1, <1>2, <1>4, <1>5, IdleJob DEF PointsRight
<1>9. \A p : ~WaitsAtWorker(w, p)
  BY <1>2, PairNotEmpty, IdleJob, RangeEmpty DEF WaitsAtWorker
<1>10. points' \in [Workers -> Seq(SUBSET F!Pixels)] /\ masks' \subseteq F!Pixels
  BY <1>1 DEF FusionInv, F!TypeOK
<1> QED BY <1>1, <1>2, <1>3, <1>4, <1>6, <1>7, <1>8, <1>9, <1>10, WorkerKeeps

LEMMA StartPointKeeps ==
    ASSUME F!FusionAssumption, FusionInv, NEW w \in Workers, F!StartPoint(w) PROVE FusionInv'
<1> DEFINE p == Head(fjob[w].todo)
           j == [fjob[w] EXCEPT !.todo = Tail(@), !.fusing = TRUE, !.queue = <<<<p, 0>>>>]
<1>1. /\ fjob[w].busy /\ ~fjob[w].fusing /\ fjob[w].todo # <<>> /\ F!Become(w, j)
      /\ UNCHANGED <<masks, fused, image, frest, ftasks, points, fstopped, fat>>
  BY DEF F!StartPoint
<1>2. /\ fjob[w] \in FusionJobs /\ JobRight(w) /\ PointsRight(w) /\ fat = "add"
      /\ image \in F!Images \ fused /\ fjob[w].todo \in Seq(F!Pixels)
  BY <1>1, BusyAdds, JobsHold DEF FusionInv
<1>3. /\ Tail(fjob[w].todo) \in Seq(F!Pixels) /\ p \in F!Pixels
      /\ F!Range(fjob[w].todo) = F!Range(Tail(fjob[w].todo)) \cup {p}
  BY <1>1, <1>2, RangeHeadTail
<1>4. p \in F!PixelsOf(image) /\ p[1] = image
  BY <1>2, <1>3, PixelImages DEF JobRight
<1>5. <<<<p, 0>>>> \in Seq(F!Pixels \X Nat) /\ F!Range(<<<<p, 0>>>>) = {<<p, 0>>}
  <2> HIDE DEF p
  <2>1. <<p, 0>> \in F!Pixels \X Nat
    BY <1>3
  <2>2. \A x \in F!Pixels \X Nat : <<x>> \in Seq(F!Pixels \X Nat) /\ F!Range(<<x>>) = {x}
    BY RangeIs
  <2> QED BY <2>1, <2>2
<1>6. /\ j \in FusionJobs /\ j.busy /\ j.fusing /\ j.todo = Tail(fjob[w].todo) /\ j.queue = <<<<p, 0>>>>
      /\ j.tested = fjob[w].tested /\ j.point = fjob[w].point
  <2> HIDE DEF p
  <2> QED BY <1>1, <1>2, <1>3, <1>5 DEF FusionJobs
<1>7. fjob'[w] = j
  BY <1>1, JobsHold DEF F!Become, FusionInv
<1>8. fjob[w].point = <<>> /\ fjob[w].queue = <<>> /\ fjob[w].tested = <<>>
  BY <1>1, <1>2 DEF JobRight
<1> HIDE DEF j, p
<1>9. Len(j.point) <= MaxNumPixels /\ Len(j.point) < MaxNumPixels
  <2>1. Len(<<>>) = 0
    OBVIOUS
  <2>2. MaxNumPixels \in Nat \ {0}
    BY DEF F!FusionAssumption
  <2> QED BY <1>6, <1>8, <2>1, <2>2
<1>10. JobRight(w)'
  <2>1. \A q \in F!Range(j.todo) : q \in F!PixelsOf(image)
    BY <1>2, <1>3, <1>6 DEF JobRight
  <2>2. \A x \in F!Range(j.queue) : x[1][1] \notin fused
    BY <1>2, <1>4, <1>5, <1>6
  <2> QED BY <1>1, <1>6, <1>7, <1>8, <1>9, <2>1, <2>2 DEF JobRight
<1>11. PointsRight(w)'
  BY <1>1, <1>2, <1>6, <1>7, <1>8 DEF PointsRight
<1>12. ASSUME NEW q, WaitsAtWorker(w, q) PROVE WaitsAtWorker(w, q)'
  <2>1. q \in F!Range(fjob[w].todo)
    BY <1>1, <1>8, <1>12, PairNotEmpty DEF WaitsAtWorker
  <2>2. q \in F!Range(j.todo) \/ q = p
    BY <1>3, <1>6, <2>1
  <2> QED BY <1>6, <1>7, <1>8, <2>2 DEF WaitsAtWorker
<1>13. /\ points' \in [Workers -> Seq(SUBSET F!Pixels)] /\ masks' \subseteq F!Pixels
       /\ ftasks' \in Seq(Seq(F!Pixels))
  BY <1>1 DEF FusionInv, F!TypeOK
<1> QED BY <1>1, <1>2, <1>6, <1>9, <1>10, <1>11, <1>12, <1>13, WorkerKeeps

LEMMA EndTaskKeeps == ASSUME FusionInv, NEW w \in Workers, F!EndTask(w) PROVE FusionInv'
<1>1. /\ fjob[w].busy /\ ~fjob[w].fusing /\ fjob[w].todo = <<>> /\ F!Become(w, F!Idle)
      /\ UNCHANGED <<masks, fused, image, frest, ftasks, points, fstopped, fat>>
  BY DEF F!EndTask
<1>2. JobRight(w) /\ PointsRight(w) /\ fat = "add"
  BY <1>1, BusyAdds DEF FusionInv
<1>3. fjob[w].point = <<>> /\ fjob[w].queue = <<>> /\ fjob[w].tested = <<>>
  BY <1>1, <1>2 DEF JobRight
<1>4. fjob'[w] = F!Idle
  BY <1>1, JobsHold DEF F!Become, FusionInv
<1>5. Len(F!Idle.point) <= MaxNumPixels
  BY <1>3, IdleJob, JobsHold DEF FusionInv
<1>6. JobRight(w)'
  BY <1>4, IdleJob, RangeEmpty DEF JobRight
<1>7. PointsRight(w)'
  BY <1>1, <1>2, <1>3, <1>4, IdleJob DEF PointsRight
<1>8. \A p : ~WaitsAtWorker(w, p)
  BY <1>1, <1>3, PairNotEmpty, RangeEmpty DEF WaitsAtWorker
<1>9. /\ points' \in [Workers -> Seq(SUBSET F!Pixels)] /\ masks' \subseteq F!Pixels
      /\ ftasks' \in Seq(Seq(F!Pixels))
  BY <1>1 DEF FusionInv, F!TypeOK
<1> QED BY <1>1, <1>2, <1>5, <1>6, <1>7, <1>8, <1>9, IdleJob, WorkerKeeps

LEMMA VisitKeeps == ASSUME FusionInv, NEW w \in Workers, F!Visit(w) PROVE FusionInv'
<1> DEFINE next == F!Last(fjob[w].queue)
           rest == F!Front(fjob[w].queue)
           good == F!Accepted(next[1], next[2], fjob[w].point)
           t == IF good THEN next ELSE <<>>
           j == [fjob[w] EXCEPT !.queue = rest, !.tested = t]
<1>1. /\ fjob[w].fusing /\ fjob[w].tested = <<>> /\ fjob[w].queue # <<>> /\ F!Become(w, j)
      /\ UNCHANGED <<masks, fused, image, frest, ftasks, points, fstopped, fat>>
  BY DEF F!Visit
<1>2. fjob[w] \in FusionJobs /\ JobRight(w) /\ PointsRight(w)
      /\ fjob[w].queue \in Seq(F!Pixels \X Nat)
  BY <1>1, JobsHold DEF FusionInv
<1>3. fjob[w].busy /\ fat = "add"
  BY <1>1, <1>2, BusyAdds DEF JobRight
<1>4. /\ rest \in Seq(F!Pixels \X Nat) /\ next \in F!Pixels \X Nat
      /\ next \in F!Range(fjob[w].queue) /\ F!Range(rest) \subseteq F!Range(fjob[w].queue)
  BY <1>1, <1>2, RangeFrontLast
<1>5. t \in {<<>>} \cup (F!Pixels \X Nat) /\ (t # <<>> => t = next /\ good)
  BY <1>4
<1>6. good => next[1] \notin masks
  BY DEF F!Accepted, F!AlreadyFused
<1>7. next[2] = 0 /\ ~good => next[1] \in masks \cup Filtered
  BY DEF F!Accepted, F!AlreadyFused
<1> HIDE DEF next, rest, good, t
<1>8. /\ j \in FusionJobs /\ j.busy /\ j.fusing /\ j.todo = fjob[w].todo /\ j.queue = rest
      /\ j.tested = t /\ j.point = fjob[w].point
  BY <1>1, <1>2, <1>3, <1>4, <1>5 DEF FusionJobs
<1>9. fjob'[w] = j
  BY <1>1, JobsHold DEF F!Become, FusionInv
<1> HIDE DEF j
<1>10. Len(j.point) <= MaxNumPixels
  BY <1>8, JobsHold DEF FusionInv
<1>11. JobRight(w)'
  BY <1>1, <1>2, <1>4, <1>5, <1>8, <1>9 DEF JobRight
<1>12. PointsRight(w)'
  <2>1. t # <<>> => t[1] \notin masks
    BY <1>5, <1>6
  <2>2. F!Range(j.point) \subseteq masks /\ \A n \in DOMAIN points[w] : points[w][n] \subseteq masks
    BY <1>2, <1>8 DEF PointsRight
  <2> QED BY <1>1, <1>2, <1>8, <1>9, <2>1, <2>2 DEF PointsRight
<1>13. ASSUME NEW p \in F!Pixels \ Filtered, WaitsAtWorker(w, p) PROVE p \in masks' \/ WaitsAtWorker(w, p)'
  <2>1. CASE p \in F!Range(fjob[w].todo)
    BY <1>8, <1>9, <2>1 DEF WaitsAtWorker
  <2>2. CASE fjob[w].queue = <<<<p, 0>>>>
    <3>1. next = <<p, 0>>
      <4>1. \A x : F!Range(<<x>>) = {x}
        BY RangeIs
      <4> QED BY <1>4, <2>2, <4>1
    <3>2. next[1] = p /\ next[2] = 0
      BY <3>1
    <3>3. CASE good
      <4>1. t = <<p, 0>>
        BY <3>1, <3>3 DEF t
      <4> QED BY <1>8, <1>9, <4>1 DEF WaitsAtWorker
    <3>4. CASE ~good
      BY <1>1, <1>7, <1>13, <3>2, <3>4
    <3> QED BY <3>3, <3>4
  <2>3. CASE fjob[w].tested = <<p, 0>>
    BY <1>1, <2>3, PairNotEmpty
  <2> QED BY <1>13, <2>1, <2>2, <2>3 DEF WaitsAtWorker
<1>14. /\ points' \in [Workers -> Seq(SUBSET F!Pixels)] /\ masks' \subseteq F!Pixels
       /\ ftasks' \in Seq(Seq(F!Pixels))
  BY <1>1 DEF FusionInv, F!TypeOK
<1> QED BY <1>1, <1>3, <1>8, <1>10, <1>11, <1>12, <1>13, <1>14, WorkerKeeps

LEMMA MarkKeeps ==
    ASSUME F!FusionAssumption, FusionInv, NEW w \in Workers, F!Mark(w) PROVE FusionInv'
<1> DEFINE p == fjob[w].tested[1]
           depth == fjob[w].tested[2]
           grown == Append(fjob[w].point, p)
           add == IF depth >= MaxTraversalDepth - 1 THEN <<>> ELSE F!Seen(p, depth)
           queue == IF F!Full(grown) THEN <<>> ELSE fjob[w].queue \o add
           j == IF p \in Outside THEN [fjob[w] EXCEPT !.tested = <<>>]
                ELSE [fjob[w] EXCEPT !.tested = <<>>, !.point = grown, !.queue = queue]
<1>1. /\ fjob[w].tested # <<>> /\ masks' = masks \cup {p} /\ F!Become(w, j)
      /\ UNCHANGED <<fused, image, frest, ftasks, points, fstopped, fat>>
  BY DEF F!Mark
<1>2. /\ fjob[w] \in FusionJobs /\ JobRight(w) /\ PointsRight(w)
      /\ fjob[w].queue \in Seq(F!Pixels \X Nat) /\ fjob[w].point \in Seq(F!Pixels)
      /\ fjob[w].tested \in F!Pixels \X Nat
  BY <1>1, JobsHold DEF FusionInv
<1>3. fjob[w].fusing /\ fjob[w].busy /\ Len(fjob[w].point) < MaxNumPixels
  BY <1>1, <1>2 DEF JobRight
<1>4. fat = "add"
  BY <1>3, BusyAdds
<1>5. p \in F!Pixels /\ depth \in Nat /\ fjob[w].tested = <<p, depth>>
  BY <1>2, PairsHold
<1>6. p \notin F!Range(fjob[w].point) /\ \A n \in DOMAIN points[w] : p \notin points[w][n]
  BY <1>1, <1>2 DEF PointsRight
<1>7. add \in Seq(F!Pixels \X Nat) /\ \A x \in F!Range(add) : x[1][1] \notin fused
  <2>1. CASE depth >= MaxTraversalDepth - 1
    BY <2>1, EmptySeq, RangeEmpty
  <2>2. CASE ~(depth >= MaxTraversalDepth - 1)
    <3> HIDE DEF p, depth
    <3> QED BY <1>5, <2>2, SeenRight
  <2> QED BY <2>1, <2>2
<1> HIDE DEF p, depth, add
<1>8. /\ grown \in Seq(F!Pixels) /\ Len(grown) = Len(fjob[w].point) + 1
      /\ F!Range(grown) = F!Range(fjob[w].point) \cup {p}
  BY <1>2, <1>5, RangeAppend
<1>9. /\ queue \in Seq(F!Pixels \X Nat) /\ \A x \in F!Range(queue) : x[1][1] \notin fused
      /\ queue # <<>> => ~F!Full(grown)
  <2>1. /\ fjob[w].queue \o add \in Seq(F!Pixels \X Nat)
        /\ F!Range(fjob[w].queue \o add) \subseteq F!Range(fjob[w].queue) \cup F!Range(add)
    BY <1>2, <1>7, RangeConcat
  <2>2. \A x \in F!Range(fjob[w].queue) : x[1][1] \notin fused
    BY <1>2 DEF JobRight
  <2>3. <<>> \in Seq(F!Pixels \X Nat)
    BY EmptySeq
  <2> QED BY <1>7, <2>1, <2>2, <2>3, RangeEmpty
<1>10. MaxNumPixels \in Nat /\ Len(fjob[w].point) \in Nat
  BY <1>2, LenProperties DEF F!FusionAssumption
<1>11. ~F!Full(grown) => Len(grown) < MaxNumPixels
  BY <1>8, <1>10 DEF F!Full
<1> HIDE DEF grown, queue
<1>12. /\ j \in FusionJobs /\ j.busy /\ j.fusing /\ j.todo = fjob[w].todo /\ j.tested = <<>>
       /\ \/ j.point = fjob[w].point /\ j.queue = fjob[w].queue
          \/ j.point = grown /\ j.queue = queue
  <2>1. CASE p \in Outside
    BY <1>2, <1>3, <2>1 DEF FusionJobs
  <2>2. CASE p \notin Outside
    BY <1>2, <1>3, <1>8, <1>9, <2>2 DEF FusionJobs
  <2> QED BY <2>1, <2>2
<1>13. fjob'[w] = j
  BY <1>1, JobsHold DEF F!Become, FusionInv
<1> HIDE DEF j
<1>14. Len(j.point) <= MaxNumPixels
  BY <1>3, <1>8, <1>10, <1>12
<1>15. JobRight(w)'
  <2>1. j.queue # <<>> => Len(j.point) < MaxNumPixels
    BY <1>3, <1>9, <1>11, <1>12
  <2>2. \A x \in F!Range(j.queue) : x[1][1] \notin fused
    BY <1>2, <1>9, <1>12 DEF JobRight
  <2>3. \A q \in F!Range(j.todo) : q \in F!PixelsOf(image)
    BY <1>2, <1>12 DEF JobRight
  <2> QED BY <1>1, <1>12, <1>13, <2>1, <2>2, <2>3 DEF JobRight
<1>16. PointsRight(w)'
  <2>1. F!Range(j.point) \subseteq F!Range(fjob[w].point) \cup {p}
    BY <1>8, <1>12
  <2> QED BY <1>1, <1>2, <1>6, <1>12, <1>13, <2>1 DEF PointsRight
<1>17. ASSUME NEW q \in F!Pixels \ Filtered, WaitsAtWorker(w, q) PROVE q \in masks' \/ WaitsAtWorker(w, q)'
  <2>1. CASE q \in F!Range(fjob[w].todo)
    BY <1>12, <1>13, <2>1 DEF WaitsAtWorker
  <2>2. CASE fjob[w].tested = <<q, 0>>
    <3>1. q = p
      BY <1>5, <2>2
    <3> QED BY <1>1, <3>1
  <2> QED BY <1>1, <1>17, <2>1, <2>2 DEF WaitsAtWorker
<1>18. /\ points' \in [Workers -> Seq(SUBSET F!Pixels)] /\ masks' \subseteq F!Pixels
       /\ ftasks' \in Seq(Seq(F!Pixels)) /\ masks \subseteq masks'
  BY <1>1, <1>5 DEF FusionInv, F!TypeOK
<1> QED BY <1>1, <1>4, <1>12, <1>14, <1>15, <1>16, <1>17, <1>18, WorkerKeeps

LEMMA EndPointKeeps ==
    ASSUME F!FusionAssumption, FusionInv, NEW w \in Workers, F!EndPoint(w) PROVE FusionInv'
<1> DEFINE j == [fjob[w] EXCEPT !.fusing = FALSE, !.point = <<>>]
           ended == F!Range(fjob[w].point)
<1>1. /\ fjob[w].fusing /\ fjob[w].tested = <<>> /\ fjob[w].queue = <<>> /\ F!Become(w, j)
      /\ points' = [points EXCEPT ![w] = Append(points[w], ended)] \/ points' = points
      /\ UNCHANGED <<masks, fused, image, frest, ftasks, fstopped, fat>>
  BY DEF F!EndPoint
<1>2. /\ fjob[w] \in FusionJobs /\ JobRight(w) /\ PointsRight(w) /\ fjob[w].point \in Seq(F!Pixels)
      /\ points \in [Workers -> Seq(SUBSET F!Pixels)]
  BY JobsHold DEF FusionInv, F!TypeOK
<1>3. fjob[w].busy /\ fat = "add"
  BY <1>1, <1>2, BusyAdds DEF JobRight
<1>4. <<>> \in Seq(F!Pixels)
  BY EmptySeq
<1>5. /\ j \in FusionJobs /\ j.busy /\ ~j.fusing /\ j.todo = fjob[w].todo /\ j.queue = <<>>
      /\ j.tested = <<>> /\ j.point = <<>>
  BY <1>1, <1>2, <1>3, <1>4 DEF FusionJobs
<1>6. fjob'[w] = j
  BY <1>1, JobsHold DEF F!Become, FusionInv
<1> HIDE DEF j
<1>7. Len(j.point) <= MaxNumPixels
  <2>1. Len(<<>>) = 0 /\ MaxNumPixels \in Nat \ {0}
    BY DEF F!FusionAssumption
  <2> QED BY <1>5, <2>1
<1>8. JobRight(w)'
  BY <1>1, <1>2, <1>5, <1>6, RangeEmpty DEF JobRight
<1>9. ended \in SUBSET F!Pixels
  BY <1>2, RangeType
<1>10. points[w] \in Seq(SUBSET F!Pixels)
  BY <1>2
<1> DEFINE n == Len(points[w])
<1>11. /\ Append(points[w], ended) \in Seq(SUBSET F!Pixels)
       /\ Append(points[w], ended)[n + 1] = ended /\ \A k \in 1 .. n : Append(points[w], ended)[k] = points[w][k]
       /\ DOMAIN points[w] = 1 .. n /\ n \in Nat
       /\ Len(Append(points[w], ended)) = n + 1
  <2> HIDE DEF ended
  <2> QED BY <1>9, <1>10, AppendProperties, LenProperties
<1>12. DOMAIN Append(points[w], ended) = 1 .. n + 1
  <2> HIDE DEF ended
  <2> QED BY <1>11, LenProperties
<1>13. points' \in [Workers -> Seq(SUBSET F!Pixels)] /\ \A v \in Workers \ {w} : points'[v] = points[v]
  <2> HIDE DEF ended
  <2> QED BY <1>1, <1>2, <1>11
<1>14. PointsRight(w)'
  <2>1. CASE points' = points
    BY <1>1, <1>2, <1>5, <1>6, <2>1, RangeEmpty DEF PointsRight
  <2>2. CASE points' = [points EXCEPT ![w] = Append(points[w], ended)]
    <3>1. points'[w] = Append(points[w], ended)
      BY <1>2, <2>2
    <3>2. /\ ended \subseteq masks
          /\ \A k \in 1 .. n : points[w][k] \subseteq masks /\ points[w][k] \cap ended = {}
          /\ \A k, m \in 1 .. n : m # k => points[w][k] \cap points[w][m] = {}
      BY <1>2, <1>11 DEF PointsRight
    <3> HIDE DEF ended, n
    <3>3. \A k \in 1 .. n + 1 : k \in 1 .. n \/ k = n + 1
      BY <1>11
    <3>4. ASSUME NEW k \in 1 .. n + 1 PROVE points'[w][k] \subseteq masks
      BY <1>11, <3>1, <3>2, <3>3
    <3>5. ASSUME NEW k \in 1 .. n + 1, NEW m \in 1 .. n + 1, m # k
          PROVE  points'[w][k] \cap points'[w][m] = {}
      <4>1. CASE k \in 1 .. n /\ m \in 1 .. n
        BY <1>11, <3>1, <3>2, <3>5, <4>1
      <4>2. CASE k = n + 1 /\ m \in 1 .. n
        BY <1>11, <3>1, <3>2, <4>2
      <4>3. CASE k \in 1 .. n /\ m = n + 1
        BY <1>11, <3>1, <3>2, <4>3
      <4> QED BY <3>3, <3>5, <4>1, <4>2, <4>3
    <3>6. DOMAIN points'[w] = 1 .. n + 1
      BY <1>12, <3>1 DEF n
    <3> QED BY <1>1, <1>5, <1>6, <3>4, <3>5, <3>6, RangeEmpty DEF PointsRight
  <2> QED BY <1>1, <2>1, <2>2
<1>15. ASSUME NEW p, WaitsAtWorker(w, p) PROVE WaitsAtWorker(w, p)'
  <2>1. p \in F!Range(fjob[w].todo)
    <3>1. <<<<p, 0>>>> # <<>>
      <4>1. Len(<<<<p, 0>>>>) = 1 /\ Len(<<>>) = 0
        OBVIOUS
      <4> QED BY <4>1
    <3> QED BY <1>1, <1>15, <3>1, PairNotEmpty DEF WaitsAtWorker
  <2> QED BY <1>5, <1>6, <2>1 DEF WaitsAtWorker
<1>16. ftasks' \in Seq(Seq(F!Pixels)) /\ masks' \subseteq F!Pixels
  BY <1>1 DEF FusionInv, F!TypeOK
<1> HIDE DEF ended, n
<1> QED BY <1>1, <1>3, <1>5, <1>7, <1>8, <1>13, <1>14, <1>15, <1>16, WorkerKeeps

-----------------------------------------------------------------------------
(* Run() itself. *)
LEMMA WorkersSame ==
    ASSUME FusionInv, UNCHANGED <<fused, image, fjob, points, masks>>
    PROVE  \A w \in Workers : (JobRight(w) /\ PointsRight(w))' /\ \A p : WaitsAtWorker(w, p) <=> WaitsAtWorker(w, p)'
BY DEF FusionInv, JobRight, PointsRight, WaitsAtWorker

LEMMA NextImageKeeps == ASSUME F!FusionAssumption, FusionInv, F!NextImage PROVE FusionInv'
<1>1. fat = "next" /\ UNCHANGED <<masks, fused, image, ftasks, fjob, points, fstopped>>
  BY DEF F!NextImage
<1>2. frest = <<>> /\ F!PoolDone /\ image \in F!Images \ fused
  BY <1>1 DEF FusionInv, RunRight
<1>3. F!PoolDone'
  BY <1>1, <1>2 DEF F!PoolDone
<1>4. CASE fstopped
  <2>1. fat' = "done" /\ UNCHANGED frest
    BY <1>4 DEF F!NextImage
  <2> QED BY <1>1, <1>2, <1>3, <1>4, <2>1, WorkersSame DEF FusionInv, F!TypeOK, RunRight, MasksRight
<1>5. CASE ~fstopped
  <2>1. fat' = "add" /\ frest' = Blocks[image]
    BY <1>5 DEF F!NextImage
  <2>2. Blocks[image] \in Seq(Seq(F!Pixels))
    BY <1>2 DEF F!FusionAssumption
  <2>3. F!PixelsOf(image) = UNION {F!Range(b) : b \in F!Range(Blocks[image])}
    BY RangeIs DEF F!PixelsOf
  <2>4. F!TypeOK'
    BY <1>1, <2>1, <2>2 DEF FusionInv, F!TypeOK
  <2>5. RunRight'
    <3>1. ftasks = <<>>
      BY <1>2 DEF F!PoolDone
    <3> QED BY <1>1, <1>2, <2>1, <2>3, <3>1, RangeEmpty DEF RunRight
  <2>6. MasksRight'
    <3>1. \A p \in F!PixelsOf(image) : Waits(p)'
      BY <1>1, <2>1, <2>3 DEF Waits
    <3> QED BY <1>1, <3>1 DEF FusionInv, MasksRight
  <2> QED BY <1>1, <2>4, <2>5, <2>6, WorkersSame DEF FusionInv
<1> QED BY <1>4, <1>5

LEMMA AddBlockKeeps == ASSUME F!FusionAssumption, FusionInv, F!AddTask PROVE FusionInv'
<1> DEFINE b == F!Kept(Head(frest), F!Pixels \ masks)
<1>1. /\ fat = "add" /\ frest # <<>> /\ ftasks' = Append(ftasks, b) /\ frest' = Tail(frest)
      /\ UNCHANGED <<masks, fused, image, fjob, points, fstopped, fat>>
  BY DEF F!AddTask
<1>2. frest \in Seq(Seq(F!Pixels)) /\ ftasks \in Seq(Seq(F!Pixels))
  BY DEF FusionInv, F!TypeOK
<1>3. /\ Tail(frest) \in Seq(Seq(F!Pixels)) /\ Head(frest) \in Seq(F!Pixels)
      /\ F!Range(frest) = F!Range(Tail(frest)) \cup {Head(frest)}
  BY <1>1, <1>2, RangeHeadTail
<1>4. b \in Seq(F!Pixels) /\ F!Range(b) = F!Range(Head(frest)) \cap (F!Pixels \ masks)
  BY <1>3, KeptElements
<1>5. ftasks' \in Seq(Seq(F!Pixels)) /\ F!Range(ftasks') = F!Range(ftasks) \cup {b}
  <2> HIDE DEF b
  <2> QED BY <1>1, <1>2, <1>4, RangeAppend
<1> HIDE DEF b
<1>6. F!TypeOK'
  BY <1>1, <1>3, <1>5 DEF FusionInv, F!TypeOK
<1>7. RunRight'
  <2>1. \A c \in F!Range(frest) \cup F!Range(ftasks) : F!Range(c) \subseteq F!PixelsOf(image)
    BY DEF FusionInv, RunRight
  <2>2. image \in F!Images \ fused
    BY <1>1 DEF FusionInv, RunRight
  <2> QED BY <1>1, <1>3, <1>4, <1>5, <2>1, <2>2 DEF RunRight
<1>8. MasksRight'
  <2>1. ASSUME NEW p \in F!PixelsOf(image) \ Filtered PROVE p \in masks \/ Waits(p)'
    <3>1. p \in masks \/ Waits(p)
      BY <1>1 DEF FusionInv, MasksRight
    <3>2. p \in F!Pixels
      BY <1>1, PixelImages DEF FusionInv, RunRight
    <3>3. CASE p \in F!Range(Head(frest)) /\ p \notin masks
      BY <1>4, <1>5, <3>2, <3>3 DEF Waits
    <3>4. ASSUME NEW c \in F!Range(Tail(frest)) \cup F!Range(ftasks), p \in F!Range(c) PROVE Waits(p)'
      BY <1>1, <1>5, <3>4 DEF Waits
    <3>5. ASSUME NEW w \in Workers, WaitsAtWorker(w, p) PROVE Waits(p)'
      BY <1>1, <3>5, WorkersSame DEF Waits
    <3> QED BY <1>3, <3>1, <3>3, <3>4, <3>5 DEF Waits
  <2> QED BY <1>1, <2>1 DEF FusionInv, MasksRight
<1> QED BY <1>1, <1>6, <1>7, <1>8, WorkersSame DEF FusionInv

LEMMA EndImageKeeps == ASSUME F!FusionAssumption, FusionInv, F!EndImage PROVE FusionInv'
<1>1. /\ fat = "add" /\ frest = <<>> /\ F!PoolDone /\ fused' = fused \cup {image}
      /\ image' = F!FindNextImage(image, fused') /\ fat' = IF image' < 0 THEN "done" ELSE "next"
      /\ UNCHANGED <<masks, frest, ftasks, fjob, points, fstopped>>
  BY DEF F!EndImage
<1>2. image \in F!Images \ fused /\ fused' \in SUBSET F!Images
  BY <1>1 DEF FusionInv, RunRight, F!TypeOK
<1>3. \/ image' \in InUse \ fused' /\ fat' = "next"
      \/ image' = -1 /\ InUse \subseteq fused' /\ fat' = "done"
  <2>1. image' \in InUse \ fused' \/ (image' = -1 /\ InUse \subseteq fused')
    <3>1. \A done :
             done \subseteq F!Images =>
             \/ F!FindNextImage(image, done) \in InUse \ done
             \/ F!FindNextImage(image, done) = -1 /\ InUse \subseteq done
      BY <1>2, NextIsOpen
    <3>2. image' = F!FindNextImage(image, fused') /\ fused' \subseteq F!Images
      BY <1>1, <1>2
    <3> QED BY <3>1, <3>2
  <2>2. \A i \in InUse : i \in Nat /\ ~(i < 0)
    BY PixelImages
  <2> QED BY <1>1, <2>1, <2>2
<1>4. F!PoolDone'
  BY <1>1 DEF F!PoolDone
<1>5. ftasks = <<>> /\ \A w \in Workers : fjob[w] = F!Idle
  BY <1>1 DEF F!PoolDone, FusionInv, JobRight
<1>6. F!TypeOK'
  BY <1>1, <1>2, <1>3, PixelImages DEF FusionInv, F!TypeOK
<1>7. RunRight'
  BY <1>1, <1>3, <1>4, <1>5, PixelImages, RangeEmpty DEF RunRight
<1>8. MasksRight'
  <2>1. \A p : ~Waits(p)
    <3>1. \A p, w : w \in Workers => ~WaitsAtWorker(w, p)
      BY <1>5, IdleJob, RangeEmpty, PairNotEmpty DEF WaitsAtWorker
    <3> QED BY <1>1, <1>5, <3>1, RangeEmpty DEF Waits
  <2>2. \A p \in F!PixelsOf(image) \ Filtered : p \in masks
    BY <1>1, <2>1 DEF FusionInv, MasksRight
  <2>3. \A p \in F!Pixels : p[1] = image => p \in F!PixelsOf(image)
    BY PixelImages
  <2>4. fat' # "add"
    BY <1>3
  <2>5. \A p \in F!Pixels \ Filtered : p[1] \in fused => p \in masks
    BY DEF FusionInv, MasksRight
  <2> QED BY <1>1, <2>2, <2>3, <2>4, <2>5 DEF MasksRight
<1>9. \A w \in Workers : JobRight(w)' /\ PointsRight(w)'
  <2> SUFFICES ASSUME NEW w \in Workers PROVE JobRight(w)' /\ PointsRight(w)'
    OBVIOUS
  <2>1. fjob'[w] = F!Idle /\ PointsRight(w)
    BY <1>1, <1>5 DEF FusionInv
  <2>2. JobRight(w)'
    BY <2>1, IdleJob, RangeEmpty DEF JobRight
  <2>3. PointsRight(w)'
    BY <1>1, <2>1 DEF PointsRight
  <2> QED BY <2>2, <2>3
<1> QED BY <1>6, <1>7, <1>8, <1>9 DEF FusionInv

LEMMA StopKeeps == ASSUME FusionInv, F!Stop PROVE FusionInv'
<1>1. fstopped' = TRUE /\ UNCHANGED <<masks, fused, image, frest, ftasks, fjob, points, fat>>
  BY DEF F!Stop
<1>2. F!TypeOK' /\ RunRight'
  BY <1>1 DEF FusionInv, F!TypeOK, RunRight, F!PoolDone
<1>3. MasksRight'
  BY <1>1 DEF FusionInv, MasksRight, Waits, WaitsAtWorker
<1> QED BY <1>1, <1>2, <1>3, WorkersSame DEF FusionInv

LEMMA FusionStutters == ASSUME FusionInv, UNCHANGED F!vars PROVE FusionInv'
<1>1. UNCHANGED <<masks, fused, image, frest, ftasks, fjob, points, fstopped, fat>>
  BY DEF F!vars
<1>2. F!TypeOK' /\ RunRight'
  BY <1>1 DEF FusionInv, F!TypeOK, RunRight, F!PoolDone
<1>3. MasksRight'
  BY <1>1 DEF FusionInv, MasksRight, Waits, WaitsAtWorker
<1> QED BY <1>1, <1>2, <1>3, WorkersSame DEF FusionInv

LEMMA FusionInvariance == F!FusionAssumption /\ F!Spec => []FusionInv
<1> SUFFICES ASSUME F!FusionAssumption PROVE F!Spec => []FusionInv
  OBVIOUS
<1>1. F!Init => FusionInv
  BY FusionStarts
<1>2. ASSUME FusionInv, [F!Next]_(F!vars) PROVE FusionInv'
  <2>1. CASE F!NextImage
    BY <1>2, <2>1, NextImageKeeps
  <2>2. CASE F!AddTask
    BY <1>2, <2>2, AddBlockKeeps
  <2>3. CASE F!EndImage
    BY <1>2, <2>3, EndImageKeeps
  <2>4. CASE F!Stop
    BY <1>2, <2>4, StopKeeps
  <2>5. ASSUME NEW w \in Workers, F!Work(w) PROVE FusionInv'
    BY <1>2, <2>5, TakeKeeps, StartPointKeeps, EndTaskKeeps, VisitKeeps, MarkKeeps, EndPointKeeps
       DEF F!Work
  <2>6. CASE F!Ended \/ UNCHANGED F!vars
    BY <1>2, <2>6, FusionStutters DEF F!Ended
  <2> QED BY <1>2, <2>1, <2>2, <2>3, <2>4, <2>5, <2>6 DEF F!Next, F!Controller
<1> QED BY <1>1, <1>2, PTL DEF F!Spec

-----------------------------------------------------------------------------
LEMMA FusionCardinality == \A S : F!Cardinality(S) = Cardinality(S)
BY DEF F!Cardinality, Cardinality

(* Unless it is stopped, the fusion leaves out no pixel with a depth of any   *)
(* image in use, and a pixel is in at most one point of each thread, for any  *)
(* images, blocks, overlaps and number of threads (mvs/fusion.cc:52-73,       *)
(* 254-310, 401-405).                                                         *)
THEOREM FusionComplete == F!FusionAssumption /\ F!Spec => []PixelsFused
<1> SUFFICES ASSUME F!FusionAssumption PROVE F!Spec => []PixelsFused
  OBVIOUS
<1>1. FusionInv => F!AllPixelsFused
  <2> SUFFICES ASSUME FusionInv, fat = "done", ~fstopped
               PROVE  /\ InUse \subseteq fused
                      /\ (UNION {F!PixelsOf(i) : i \in InUse}) \ Filtered \subseteq masks
    BY DEF F!AllPixelsFused
  <2>1. InUse \subseteq fused
    BY DEF FusionInv, RunRight
  <2>2. \A i \in InUse : \A p \in F!PixelsOf(i) : p \notin Filtered => p \in masks
    BY <2>1, PixelImages DEF FusionInv, MasksRight
  <2>3. ASSUME NEW p \in (UNION {F!PixelsOf(i) : i \in InUse}) \ Filtered PROVE p \in masks
    <3>1. PICK i \in InUse : p \in F!PixelsOf(i)
      BY <2>3
    <3>2. p \notin Filtered
      BY <2>3
    <3>3. p \notin Filtered => p \in masks
      BY <2>2, <3>1
    <3> QED BY <3>2, <3>3
  <2> QED BY <2>1, <2>3
<1>2. FusionInv => F!UsedOncePerThread
  <2> SUFFICES ASSUME FusionInv, NEW w \in Workers, NEW p \in F!Pixels PROVE F!Uses(w, p) <= 1
    BY DEF F!UsedOncePerThread
  <2> DEFINE S == {n \in DOMAIN points[w] : p \in points[w][n]}
  <2>1. PointsRight(w)
    BY DEF FusionInv
  <2>2. S = {} \/ (\E n : S = {n})
    <3>1. ASSUME NEW m \in S, NEW n \in S, m # n PROVE FALSE
      BY <2>1, <3>1 DEF PointsRight
    <3> HIDE DEF S
    <3> QED BY <3>1
  <2>3. S # {} => p \notin F!Range(fjob[w].point)
    BY <2>1 DEF PointsRight
  <2>4. F!Uses(w, p) = Cardinality(S) + (IF p \in F!Range(fjob[w].point) THEN 1 ELSE 0)
    BY FusionCardinality DEF F!Uses
  <2> HIDE DEF S
  <2>5. CASE S = {}
    <3>1. Cardinality(S) = 0
      BY <2>5, FS_EmptySet
    <3> QED BY <2>4, <3>1
  <2>6. CASE S # {}
    <3>1. Cardinality(S) = 1
      BY <2>2, <2>6, FS_Singleton
    <3> QED BY <2>3, <2>4, <2>6, <3>1
  <2> QED BY <2>5, <2>6
<1> QED BY <1>1, <1>2, FusionInvariance, PTL DEF PixelsFused

(* No task of an earlier image is still under way when an image is fused:     *)
(* nothing writes to its mask (mvs/fusion.cc:301-304, 504-508).               *)
THEOREM FusedStaysFused == F!FusionAssumption /\ F!Spec => F!FusedImagesRest
<1> SUFFICES ASSUME F!FusionAssumption PROVE F!Spec => F!FusedImagesRest
  BY SMTT(30)
<1> DEFINE Rests == \A i \in fused : masks' \cap F!PixelsOf(i) = masks \cap F!PixelsOf(i)
<1>1. ASSUME FusionInv, [F!Next]_(F!vars) PROVE [Rests]_(F!vars)
  <2>1. CASE UNCHANGED masks
    BY <2>1
  <2>2. ASSUME NEW w \in Workers, F!Mark(w) PROVE Rests
    <3>1. fjob[w].tested # <<>> /\ masks' = masks \cup {fjob[w].tested[1]}
      BY <2>2 DEF F!Mark
    <3>2. fjob[w].tested[1][1] \notin fused
      BY <1>1, <3>1 DEF FusionInv, JobRight
    <3>3. fused \subseteq F!Images
      BY <1>1 DEF FusionInv, F!TypeOK
    <3> QED BY <3>1, <3>2, <3>3, PixelImages
  <2>3. CASE UNCHANGED F!vars
    BY <2>3
  <2> QED BY <1>1, <2>1, <2>2, <2>3
          DEF F!Next, F!Controller, F!Work, F!NextImage, F!AddTask, F!EndImage, F!Stop, F!Ended,
              F!Take, F!StartPoint, F!EndTask, F!Visit, F!EndPoint
<1> QED BY <1>1, FusionInvariance, PTL DEF F!Spec, F!FusedImagesRest

-----------------------------------------------------------------------------
(* The files of a view by number, and the one that is written last.          *)
File(t, i, n) == files[t][i][P!Parts[n]]
LastPart == IF options.graphs THEN 3 ELSE 2
RefOf(p) == Problems[p].ref
Has(t, p) == File(t, RefOf(p), LastPart) # "none"

(* The problems that a sweep has still to solve. *)
Solving == {w \in Workers : pjob[w].step # "idle"}
Queued == F!Range(prest) \cup F!Range(ptasks)
Held == Queued \cup {pjob[w].problem : w \in Solving}

(* No problem is in two places. *)
Distinct(s) == \A i, j \in DOMAIN s : s[i] = s[j] => i = j
OnceHeld ==
    /\ Distinct(prest) /\ Distinct(ptasks) /\ F!Range(prest) \cap F!Range(ptasks) = {}
    /\ \A w \in Solving : pjob[w].problem \notin Queued
    /\ \A v, w \in Solving : pjob[v].problem = pjob[w].problem => v = w

(* A view has its last file only when the others are whole. *)
ViewsRight ==
    \A t \in P!Types, i \in Photos :
        File(t, i, LastPart) # "none" => \A n \in 1 .. LastPart - 1 : File(t, i, n) = "whole"

(* What is to be read for a problem in the first sweep. *)
FirstInputs(p) ==
    {i \in Problems[p].srcs \cup {RefOf(p)} : options.allowMissing => i \notin NoBitmap}

(* A worker has a view that is not complete, and writes its files in order. *)
SolvesRight(w) ==
    LET p == pjob[w].problem
        n == pjob[w].part
    IN  /\ p \in DOMAIN Problems /\ pjob[w].type = type /\ n \in 1 .. LastPart
        /\ pjob[w].step # "write" \/ n # LastPart => File(type, RefOf(p), LastPart) = "none"
        /\ pjob[w].step \in {"open", "write"} =>
              \A m \in 1 .. n - 1 : File(type, RefOf(p), m) = "whole"
        /\ pjob[w].step = "write" => File(type, RefOf(p), n) = "torn"
        /\ pjob[w].step \in {"lock", "read"} => n = 1
        /\ pjob[w].step \in {"lock", "read"} /\ type = "photometric" => srcs[p] = Problems[p].srcs
        /\ pjob[w].step = "read" /\ type = "photometric" => pjob[w].kept = FirstInputs(p)

(* What becomes of a problem that no place holds any more. *)
FirstDone(p) == Has("photometric", p) \/ pstopped \/ (pfailed /\ ~P!Solvable(p))
SecondDone(p) == Has("geometric", p) \/ pstopped \/ pfailed

FirstSweep ==
    type = "photometric" =>
        /\ pat = "next" => srcs = P!AllSources
        /\ \A p \in Queued : srcs[p] = Problems[p].srcs
        /\ pat # "next" => \A p \in DOMAIN Problems \ Held : FirstDone(p)
SecondSweep ==
    type = "geometric" =>
        /\ options.geometric
        /\ (\A p \in DOMAIN Problems : Has("photometric", p)) \/ (pstopped /\ Solving = {})
        /\ pat # "next" => \A p \in DOMAIN Problems \ Held : SecondDone(p)
SweepsEnd ==
    /\ pat # "add" => Held = {}
    /\ pat = "done" => ~pfailed /\ (options.geometric => type = "geometric")

SweepInv ==
    /\ P!TypeOK /\ OnceHeld /\ ViewsRight
    /\ FirstSweep /\ SecondSweep /\ SweepsEnd
    /\ \A w \in Solving : SolvesRight(w)

-----------------------------------------------------------------------------
LEMMA DistinctAppend ==
    ASSUME NEW X, NEW s \in Seq(X), NEW x \in X, Distinct(s), x \notin F!Range(s)
    PROVE  Distinct(Append(s, x))
<1>1. /\ Len(Append(s, x)) = Len(s) + 1 /\ Append(s, x) \in Seq(X) /\ Len(s) \in Nat
      /\ Append(s, x)[Len(s) + 1] = x /\ \A k \in 1 .. Len(s) : Append(s, x)[k] = s[k]
      /\ DOMAIN s = 1 .. Len(s)
  BY AppendProperties, LenProperties
<1>2. DOMAIN Append(s, x) = 1 .. Len(s) + 1
  BY <1>1, LenProperties
<1>3. \A k : k \in 1 .. Len(s) + 1 <=> k \in 1 .. Len(s) \/ k = Len(s) + 1
  BY <1>1
<1>4. \A k \in 1 .. Len(s) : s[k] # x
  BY <1>1, RangeIs
<1>5. \A i, j \in 1 .. Len(s) : s[i] = s[j] => i = j
  BY <1>1 DEF Distinct
<1>6. ASSUME NEW i \in 1 .. Len(s) + 1, NEW j \in 1 .. Len(s) + 1,
             Append(s, x)[i] = Append(s, x)[j]
      PROVE  i = j
  BY <1>1, <1>3, <1>4, <1>5, <1>6
<1> QED BY <1>2, <1>6 DEF Distinct

LEMMA DistinctTail ==
    ASSUME NEW X, NEW s \in Seq(X), s # <<>>, Distinct(s)
    PROVE  Distinct(Tail(s)) /\ Head(s) \notin F!Range(Tail(s))
<1>1. /\ Tail(s) \in Seq(X) /\ Len(Tail(s)) = Len(s) - 1 /\ Head(s) = s[1] /\ Len(s) \in Nat \ {0}
      /\ \A k \in 1 .. Len(s) - 1 : Tail(s)[k] = s[k + 1]
  BY HeadTailProperties, EmptySeq, LenProperties
<1>2. DOMAIN s = 1 .. Len(s) /\ DOMAIN Tail(s) = 1 .. Len(s) - 1
  BY <1>1, LenProperties
<1>3. \A k \in 1 .. Len(s) - 1 : k + 1 \in 1 .. Len(s) /\ k + 1 # 1 /\ k \in Int
  BY <1>1
<1>4. 1 \in 1 .. Len(s)
  BY <1>1
<1>5. \A i, j \in 1 .. Len(s) : s[i] = s[j] => i = j
  BY <1>2 DEF Distinct
<1>6. ASSUME NEW k \in 1 .. Len(s) - 1 PROVE Tail(s)[k] # s[1]
  BY <1>1, <1>3, <1>4, <1>5
<1>7. ASSUME NEW i \in 1 .. Len(s) - 1, NEW j \in 1 .. Len(s) - 1, Tail(s)[i] = Tail(s)[j]
      PROVE  i = j
  <2>1. i + 1 = j + 1
    BY <1>1, <1>3, <1>5, <1>7
  <2> QED BY <1>3, <2>1
<1>8. Distinct(Tail(s))
  BY <1>2, <1>7 DEF Distinct
<1> QED BY <1>1, <1>2, <1>6, <1>8, RangeIs

LEMMA EmptyDistinct == Distinct(<<>>)
BY DEF Distinct

-----------------------------------------------------------------------------
States == {"none", "torn", "whole"}
PartNames == {"depth", "normal", "graph"}
Steps == {"idle", "lock", "read", "open", "write"}
SweepJobs ==
    [step : Steps, problem : 0 .. Len(Problems), type : P!Types, kept : SUBSET Photos, part : 1 .. 3]

LEMMA PartsAre ==
    /\ P!Range(P!Parts) = PartNames /\ Len(P!Parts) = 3
    /\ P!Parts[1] = "depth" /\ P!Parts[2] = "normal" /\ P!Parts[3] = "graph"
    /\ \A n \in 1 .. 3 : P!Parts[n] \in PartNames
    /\ \A m, n \in 1 .. 3 : P!Parts[m] = P!Parts[n] => m = n
<1>1. /\ DOMAIN P!Parts = 1 .. 3 /\ Len(P!Parts) = 3
      /\ P!Parts[1] = "depth" /\ P!Parts[2] = "normal" /\ P!Parts[3] = "graph"
  BY DEF P!Parts
<1>2. \A n \in 1 .. 3 : n = 1 \/ n = 2 \/ n = 3
  OBVIOUS
<1>3. 1 \in 1 .. 3 /\ 2 \in 1 .. 3 /\ 3 \in 1 .. 3
  OBVIOUS
<1>4. P!Range(P!Parts) = {P!Parts[n] : n \in 1 .. 3}
  BY <1>1 DEF P!Range
<1>5. \A y : y \in P!Range(P!Parts) <=> y \in PartNames
  BY <1>1, <1>2, <1>3, <1>4 DEF PartNames
<1>6. \A n \in 1 .. 3 : P!Parts[n] \in PartNames
  BY <1>1, <1>2 DEF PartNames
<1>7. \A m, n \in 1 .. 3 : P!Parts[m] = P!Parts[n] => m = n
  BY <1>1, <1>2
<1> QED BY <1>1, <1>5, <1>6, <1>7

LEMMA LockCardinality == \A S : P!Cardinality(S) = Cardinality(S)
BY DEF P!Cardinality, Cardinality

LEMMA ProblemTypes ==
    ASSUME P!ProblemsAssumption
    PROVE  /\ DOMAIN Problems = 1 .. Len(Problems) /\ Len(Problems) \in Nat
           /\ \A p \in DOMAIN Problems :
                 RefOf(p) \in Photos /\ Problems[p].srcs \in (SUBSET Photos) \ {{}}
                 /\ RefOf(p) \notin Problems[p].srcs
           /\ \A p, q \in DOMAIN Problems : RefOf(p) = RefOf(q) => p = q
<1>1. Problems \in Seq([ref : Photos, srcs : (SUBSET Photos) \ {{}}])
  BY DEF P!ProblemsAssumption
<1>2. DOMAIN Problems = 1 .. Len(Problems) /\ Len(Problems) \in Nat
  BY <1>1, LenProperties
<1>3. \A p \in DOMAIN Problems : Problems[p] \in [ref : Photos, srcs : (SUBSET Photos) \ {{}}]
  BY <1>1, <1>2, ElementOfSeq
<1>4. \A p \in DOMAIN Problems : Problems[p].ref \notin Problems[p].srcs
  BY DEF P!ProblemsAssumption
<1>5. \A p, q \in DOMAIN Problems : RefOf(p) = RefOf(q) => p = q
  BY DEF P!ProblemsAssumption, RefOf
<1>6. \A p \in DOMAIN Problems :
                 RefOf(p) \in Photos /\ Problems[p].srcs \in (SUBSET Photos) \ {{}}
                 /\ RefOf(p) \notin Problems[p].srcs
  BY <1>3, <1>4 DEF RefOf
<1> QED BY <1>2, <1>5, <1>6

LEMMA SweepTypes ==
    ASSUME P!ProblemsAssumption, P!TypeOK
    PROVE  /\ options \in Options /\ options.graphs \in BOOLEAN /\ options.allowMissing \in BOOLEAN
           /\ options.geometric \in BOOLEAN
           /\ files \in [P!Types -> [Photos -> [PartNames -> States]]]
           /\ srcs \in [DOMAIN Problems -> SUBSET Photos] /\ type \in P!Types
           /\ prest \in Seq(DOMAIN Problems) /\ ptasks \in Seq(DOMAIN Problems)
           /\ pjob \in [Workers -> SweepJobs]
           /\ LastPart \in {2, 3} /\ P!Wanted = 1 .. LastPart
           /\ DOMAIN Problems = 1 .. Len(Problems) /\ Len(Problems) \in Nat
           /\ \A p \in DOMAIN Problems :
                 RefOf(p) \in Photos /\ Problems[p].srcs \in (SUBSET Photos) \ {{}}
                 /\ RefOf(p) \notin Problems[p].srcs
           /\ \A p, q \in DOMAIN Problems : RefOf(p) = RefOf(q) => p = q
<1>1. /\ options \in [geometric : BOOLEAN, graphs : BOOLEAN, allowMissing : BOOLEAN]
      /\ options \in Options
  BY DEF P!TypeOK, P!ProblemsAssumption
<1>2. LastPart \in {2, 3} /\ P!Wanted = 1 .. LastPart
  BY <1>1 DEF LastPart, P!Wanted
<1>3. pjob \in [Workers -> SweepJobs]
  BY PartsAre DEF P!TypeOK, SweepJobs, Steps
<1>4. files \in [P!Types -> [Photos -> [PartNames -> States]]]
  BY PartsAre DEF P!TypeOK, States
<1> QED BY <1>1, <1>2, <1>3, <1>4, ProblemTypes DEF P!TypeOK

(* Type correctness from the types that a step leaves. *)
LEMMA TypesOfSweep ==
    ASSUME options \in Options, files \in [P!Types -> [Photos -> [PartNames -> States]]],
           srcs \in [DOMAIN Problems -> SUBSET Photos], type \in P!Types,
           prest \in Seq(DOMAIN Problems), ptasks \in Seq(DOMAIN Problems),
           pjob \in [Workers -> SweepJobs], lock \in SUBSET Workers, Cardinality(lock) <= 1,
           pfailed \in BOOLEAN, pstopped \in BOOLEAN, pat \in {"next", "add", "done", "threw"},
           started \in 1 .. MaxRuns
    PROVE  P!TypeOK
<1>1. P!Cardinality(lock) <= 1
  BY LockCardinality
<1> QED BY <1>1, PartsAre DEF P!TypeOK, SweepJobs, Steps, States

LEMMA SweepIdle ==
    ASSUME P!ProblemsAssumption
    PROVE  /\ P!Idle \in SweepJobs /\ P!Idle.step = "idle" /\ P!Idle.part = 1
           /\ P!Idle.type = "photometric"
<1>1. Len(Problems) \in Nat
  BY LenProperties DEF P!ProblemsAssumption
<1>2. 0 \in 0 .. Len(Problems)
  BY <1>1
<1> QED BY <1>2 DEF P!Idle, SweepJobs, Steps, P!Types

-----------------------------------------------------------------------------
LEMMA SweepStarts == P!ProblemsAssumption /\ P!Init => SweepInv
<1> SUFFICES ASSUME P!ProblemsAssumption, P!Init PROVE SweepInv
  OBVIOUS
<1>1. options.graphs \in BOOLEAN /\ LastPart \in {2, 3}
  BY DEF P!Init, P!ProblemsAssumption, LastPart
<1>2. Solving = {} /\ Queued = {} /\ Held = {}
  BY RangeEmpty, SweepIdle DEF P!Init, Solving, Queued, Held
<1>3. \A t \in P!Types, i \in Photos, n \in 1 .. 3 : File(t, i, n) = "none"
  BY PartsAre DEF P!Init, File
<1>4. P!TypeOK
  <2>1. files \in [P!Types -> [Photos -> [PartNames -> States]]]
    BY PartsAre DEF P!Init, States
  <2>2. \A p \in DOMAIN Problems : Problems[p].srcs \in SUBSET Photos
    BY ProblemTypes
  <2>4. srcs \in [DOMAIN Problems -> SUBSET Photos]
    BY <2>2 DEF P!Init, P!AllSources
  <2>5. pjob \in [Workers -> SweepJobs]
    BY SweepIdle DEF P!Init
  <2>6. <<>> \in Seq(DOMAIN Problems)
    BY EmptySeq
  <2>7. Cardinality({}) = 0
    BY FS_EmptySet
  <2>8. 1 \in 1 .. MaxRuns
    BY DEF P!ProblemsAssumption
  <2>9. /\ options \in Options /\ type \in P!Types /\ prest = <<>> /\ ptasks = <<>> /\ lock = {}
        /\ pfailed = FALSE /\ pstopped = FALSE /\ pat = "next" /\ started = 1
    BY DEF P!Init, P!Types
  <2>10. lock \in SUBSET Workers /\ Cardinality(lock) <= 1 /\ started \in 1 .. MaxRuns
    BY <2>7, <2>8, <2>9
  <2>11. prest \in Seq(DOMAIN Problems) /\ ptasks \in Seq(DOMAIN Problems)
    BY <2>6, <2>9
  <2> QED BY <2>1, <2>4, <2>5, <2>9, <2>10, <2>11, TypesOfSweep
<1>5. OnceHeld
  BY <1>2, RangeEmpty, EmptyDistinct DEF OnceHeld, P!Init
<1>6. ViewsRight
  <2>1. LastPart \in 1 .. 3
    BY <1>1
  <2> QED BY <1>3, <2>1 DEF ViewsRight
<1>7. FirstSweep /\ SecondSweep /\ SweepsEnd
  BY <1>2 DEF FirstSweep, SecondSweep, SweepsEnd, P!Init
<1> QED BY <1>2, <1>4, <1>5, <1>6, <1>7 DEF SweepInv

(* What a worker solves is of the sweep that is under way. *)
LEMMA SolvingMeans ==
    ASSUME SweepInv, NEW w \in Solving
    PROVE  /\ pat = "add" /\ w \in Workers /\ SolvesRight(w) /\ pjob[w].problem \in Held
           /\ pjob[w].problem \in DOMAIN Problems /\ pjob[w].type = type
           /\ pjob[w].problem \notin Queued
           /\ \A v \in Solving : pjob[v].problem = pjob[w].problem => v = w
           /\ type = "geometric" => \A p \in DOMAIN Problems : Has("photometric", p)
BY DEF SweepInv, SweepsEnd, Held, Solving, SolvesRight, OnceHeld, SecondSweep

(* A step of one worker leaves what the others solve as it was. *)
OthersRest(w) ==
    \A q \in DOMAIN Problems \ {pjob[w].problem} :
        srcs'[q] = srcs[q] /\ \A t \in P!Types : files'[t][RefOf(q)] = files[t][RefOf(q)]

LEMMA OthersSolve ==
    ASSUME P!ProblemsAssumption, SweepInv, NEW w \in Solving, NEW j \in SweepJobs, P!Become(w, j),
           OthersRest(w), UNCHANGED <<options, type>>,
           NEW v \in Solving, v # w
    PROVE  SolvesRight(v)'
<1>1. SolvesRight(v) /\ pjob[v].problem # pjob[w].problem /\ pjob[v].problem \in DOMAIN Problems
  BY SolvingMeans
<1>2. pjob'[v] = pjob[v]
  BY SweepTypes DEF P!Become, SweepInv, Solving
<1>3. type \in P!Types
  BY SweepTypes DEF SweepInv
<1>4. srcs'[pjob[v].problem] = srcs[pjob[v].problem]
      /\ files'[type][RefOf(pjob[v].problem)] = files[type][RefOf(pjob[v].problem)]
  BY <1>1, <1>3 DEF OthersRest
<1>5. \A n : File(type, RefOf(pjob[v].problem), n)' = File(type, RefOf(pjob[v].problem), n)
  BY <1>2, <1>4 DEF File, RefOf
<1>6. LastPart' = LastPart /\ FirstInputs(pjob[v].problem)' = FirstInputs(pjob[v].problem)
  BY <1>2 DEF LastPart, FirstInputs, RefOf
<1> QED BY <1>1, <1>2, <1>4, <1>5, <1>6 DEF SolvesRight

(* The files of a view are never deleted. *)
Grows == \A t \in P!Types, p \in DOMAIN Problems : Has(t, p) => Has(t, p)'

LEMMA WorkGoesOn ==
    ASSUME P!ProblemsAssumption, SweepInv, NEW w \in Solving, NEW j \in SweepJobs, P!Become(w, j),
           j.step # "idle", j.problem = pjob[w].problem,
           UNCHANGED <<options, type, prest, ptasks, pfailed, pstopped, pat, started>>,
           OthersRest(w), Grows,
           srcs' \in [DOMAIN Problems -> SUBSET Photos],
           files' \in [P!Types -> [Photos -> [PartNames -> States]]],
           lock' \in SUBSET Workers, Cardinality(lock') <= 1,
           ViewsRight', SolvesRight(w)'
    PROVE  SweepInv'
<1>1. w \in Workers /\ pat = "add" /\ pjob \in [Workers -> SweepJobs]
  BY SolvingMeans, SweepTypes DEF SweepInv
<1>2. pjob' \in [Workers -> SweepJobs] /\ pjob'[w] = j /\ \A v \in Workers \ {w} : pjob'[v] = pjob[v]
  BY <1>1 DEF P!Become
<1>3. Solving' = Solving
  BY <1>1, <1>2 DEF Solving
<1>4. \A v \in Solving : pjob'[v].problem = pjob[v].problem
  BY <1>1, <1>2 DEF Solving
<1>5. Queued' = Queued /\ Held' = Held
  <2>1. Queued' = Queued
    BY DEF Queued
  <2> QED BY <1>3, <1>4, <2>1 DEF Held
<1>6. P!TypeOK'
  <2>1. /\ options' \in Options /\ type' \in P!Types /\ prest' \in Seq(DOMAIN Problems)
        /\ ptasks' \in Seq(DOMAIN Problems) /\ pfailed' \in BOOLEAN /\ pstopped' \in BOOLEAN
        /\ pat' \in {"next", "add", "done", "threw"} /\ started' \in 1 .. MaxRuns
    BY DEF SweepInv, P!TypeOK
  <2>2. P!Cardinality(lock') <= 1
    BY LockCardinality
  <2> QED BY <1>2, <2>1, <2>2, PartsAre DEF P!TypeOK, SweepJobs, Steps, States
<1>7. OnceHeld'
  <2>1. OnceHeld
    BY DEF SweepInv
  <2> QED BY <1>3, <1>4, <1>5, <2>1 DEF OnceHeld, Distinct
<1>8. \A v \in Solving' : SolvesRight(v)'
  BY <1>3, OthersSolve
<1>9. \A p \in DOMAIN Problems : P!Solvable(p)' = P!Solvable(p)
  BY DEF P!Solvable
<1>10. FirstSweep'
  <2>1. ASSUME type = "photometric", NEW p \in Queued PROVE srcs'[p] = Problems[p].srcs
    <3>1. p # pjob[w].problem /\ p \in DOMAIN Problems
      <4>1. Queued \subseteq DOMAIN Problems
        BY SweepTypes, RangeType DEF SweepInv, Queued
      <4> QED BY <4>1, SolvingMeans
    <3>2. srcs[p] = Problems[p].srcs
      BY <2>1 DEF SweepInv, FirstSweep
    <3> QED BY <3>1, <3>2 DEF OthersRest
  <2>2. ASSUME type = "photometric", NEW p \in DOMAIN Problems \ Held PROVE FirstDone(p)'
    <3>1. FirstDone(p)
      BY <1>1, <2>2 DEF SweepInv, FirstSweep
    <3> QED BY <1>9, <3>1 DEF FirstDone, Grows, P!Types
  <2> QED BY <1>1, <1>5, <2>1, <2>2 DEF FirstSweep
<1>11. SecondSweep'
  <2>1. ASSUME type = "geometric", NEW p \in DOMAIN Problems \ Held PROVE SecondDone(p)'
    <3>1. SecondDone(p)
      BY <1>1, <2>1 DEF SweepInv, SecondSweep
    <3> QED BY <3>1 DEF SecondDone, Grows, P!Types
  <2>2. ASSUME type = "geometric", NEW p \in DOMAIN Problems PROVE Has("photometric", p)'
    BY <2>2, SolvingMeans DEF Grows, P!Types
  <2> QED BY <1>1, <1>5, <2>1, <2>2 DEF SecondSweep, SweepInv
<1>12. SweepsEnd'
  BY <1>1 DEF SweepsEnd
<1> QED BY <1>6, <1>7, <1>8, <1>10, <1>11, <1>12 DEF SweepInv

LEMMA WorkEnds ==
    ASSUME P!ProblemsAssumption, SweepInv, NEW w \in Solving, NEW p0, p0 = pjob[w].problem,
           P!Become(w, P!Idle),
           UNCHANGED <<options, type, prest, ptasks, pstopped, pat, started>>,
           pfailed' \in BOOLEAN, pfailed => pfailed',
           OthersRest(w), Grows,
           srcs' \in [DOMAIN Problems -> SUBSET Photos],
           files' \in [P!Types -> [Photos -> [PartNames -> States]]],
           lock' \in SUBSET Workers, Cardinality(lock') <= 1, ViewsRight',
           type = "photometric" =>
               Has("photometric", p0)' \/ (pfailed' /\ ~P!Solvable(p0)),
           type = "geometric" => Has("geometric", p0)' \/ pfailed'
    PROVE  SweepInv'
<1>1. w \in Workers /\ pat = "add" /\ pjob \in [Workers -> SweepJobs] /\ p0 \in DOMAIN Problems
  BY SolvingMeans, SweepTypes DEF SweepInv
<1>2. pjob' \in [Workers -> SweepJobs] /\ pjob'[w] = P!Idle /\ \A v \in Workers \ {w} : pjob'[v] = pjob[v]
  BY <1>1, SweepIdle DEF P!Become
<1>3. Solving' = Solving \ {w}
  BY <1>1, <1>2, SweepIdle DEF Solving
<1>4. \A v \in Solving' : pjob'[v].problem = pjob[v].problem
  BY <1>1, <1>2, <1>3 DEF Solving
<1>5. Queued' = Queued
  BY DEF Queued
<1>6. P!TypeOK'
  <2>1. /\ options' \in Options /\ type' \in P!Types /\ prest' \in Seq(DOMAIN Problems)
        /\ ptasks' \in Seq(DOMAIN Problems) /\ pfailed' \in BOOLEAN /\ pstopped' \in BOOLEAN
        /\ pat' \in {"next", "add", "done", "threw"} /\ started' \in 1 .. MaxRuns
    BY DEF SweepInv, P!TypeOK
  <2>2. P!Cardinality(lock') <= 1
    BY LockCardinality
  <2> QED BY <1>2, <2>1, <2>2, PartsAre DEF P!TypeOK, SweepJobs, Steps, States
<1>7. OnceHeld'
  <2>1. OnceHeld
    BY DEF SweepInv
  <2> QED BY <1>3, <1>4, <1>5, <2>1 DEF OnceHeld, Distinct
<1>8. \A v \in Solving' : SolvesRight(v)'
  BY <1>3, SweepIdle, OthersSolve
<1>9. \A p \in DOMAIN Problems : P!Solvable(p)' = P!Solvable(p)
  BY DEF P!Solvable
<1>10. \A p \in DOMAIN Problems \ Held' : p = p0 \/ p \notin Held
  BY <1>3, <1>4, <1>5 DEF Held
<1>11. FirstSweep'
  <2>1. ASSUME type = "photometric", NEW p \in Queued PROVE srcs'[p] = Problems[p].srcs
    <3>1. p # p0 /\ p \in DOMAIN Problems
      <4>1. Queued \subseteq DOMAIN Problems
        BY SweepTypes, RangeType DEF SweepInv, Queued
      <4> QED BY <4>1, SolvingMeans
    <3>2. srcs[p] = Problems[p].srcs
      BY <2>1 DEF SweepInv, FirstSweep
    <3> QED BY <3>1, <3>2 DEF OthersRest
  <2>2. ASSUME type = "photometric", NEW p \in DOMAIN Problems, p \notin Held PROVE FirstDone(p)'
    <3>1. FirstDone(p)
      BY <1>1, <2>2 DEF SweepInv, FirstSweep
    <3> QED BY <1>9, <3>1 DEF FirstDone, Grows, P!Types
  <2>3. ASSUME type = "photometric" PROVE FirstDone(p0)'
    BY <1>1, <1>9, <2>3 DEF FirstDone
  <2> QED BY <1>1, <1>5, <1>10, <2>1, <2>2, <2>3 DEF FirstSweep
<1>12. SecondSweep'
  <2>1. ASSUME type = "geometric", NEW p \in DOMAIN Problems, p \notin Held PROVE SecondDone(p)'
    <3>1. SecondDone(p)
      BY <1>1, <2>1 DEF SweepInv, SecondSweep
    <3> QED BY <3>1 DEF SecondDone, Grows, P!Types
  <2>2. ASSUME type = "geometric", NEW p \in DOMAIN Problems PROVE Has("photometric", p)'
    BY <2>2, SolvingMeans DEF Grows, P!Types
  <2>3. ASSUME type = "geometric" PROVE SecondDone(p0)'
    BY <2>3 DEF SecondDone
  <2> QED BY <1>1, <1>5, <1>10, <2>1, <2>2, <2>3 DEF SecondSweep, SweepInv
<1>13. SweepsEnd'
  BY <1>1 DEF SweepsEnd
<1> QED BY <1>6, <1>7, <1>8, <1>11, <1>12, <1>13 DEF SweepInv

-----------------------------------------------------------------------------
(* What depends on the set of the problems that are held, not on where.      *)
LEMMA SweepRests ==
    ASSUME SweepInv, UNCHANGED <<options, files, srcs, type, pjob, pfailed, pstopped, pat>>,
           Queued' = Queued
    PROVE  /\ ViewsRight' /\ FirstSweep' /\ SecondSweep' /\ SweepsEnd'
           /\ \A w \in Solving' : SolvesRight(w)'
<1>1. Solving' = Solving /\ Held' = Held /\ LastPart' = LastPart
  BY DEF Solving, Held, LastPart
<1>2. \A t, i, n : File(t, i, n)' = File(t, i, n)
  BY DEF File
<1>3. \A t, p : Has(t, p)' = Has(t, p)
  BY DEF Has, File, RefOf, LastPart
<1>4. \A p : P!Solvable(p)' = P!Solvable(p) /\ FirstInputs(p)' = FirstInputs(p)
  BY DEF P!Solvable, FirstInputs, RefOf
<1>5. \A p : FirstDone(p)' = FirstDone(p) /\ SecondDone(p)' = SecondDone(p)
  BY <1>3, <1>4 DEF FirstDone, SecondDone
<1>6. ViewsRight'
  BY <1>1, <1>2 DEF SweepInv, ViewsRight
<1>7. FirstSweep' /\ SecondSweep' /\ SweepsEnd'
  BY <1>1, <1>3, <1>5 DEF SweepInv, FirstSweep, SecondSweep, SweepsEnd, P!AllSources
<1>8. ASSUME NEW w \in Solving PROVE SolvesRight(w)'
  <2>1. SolvesRight(w)
    BY DEF SweepInv
  <2>2. \A n : File(type, RefOf(pjob[w].problem), n)' = File(type, RefOf(pjob[w].problem), n)
    BY DEF File, RefOf
  <2>3. FirstInputs(pjob[w].problem)' = FirstInputs(pjob[w].problem)
    BY DEF FirstInputs, RefOf
  <2> QED BY <1>1, <2>1, <2>2, <2>3 DEF SolvesRight
<1> QED BY <1>1, <1>6, <1>7, <1>8

LEMMA BeginSweepKeeps ==
    ASSUME P!ProblemsAssumption, SweepInv, P!BeginSweep PROVE SweepInv'
<1>1. pat = "next" /\ pat' = "add" /\ prest' = [p \in DOMAIN Problems |-> p]
      /\ UNCHANGED <<options, files, srcs, type, ptasks, pjob, lock, pfailed, pstopped, started>>
  BY DEF P!BeginSweep
<1>2. Held = {}
  BY <1>1 DEF SweepInv, SweepsEnd
<1>3. Solving = {} /\ F!Range(ptasks) = {}
  BY <1>2 DEF Held, Queued
<1>4. Solving' = {}
  BY <1>1, <1>3 DEF Solving
<1>5. prest' \in Seq(DOMAIN Problems) /\ Distinct(prest') /\ F!Range(prest') = DOMAIN Problems
  <2>1. DOMAIN Problems = 1 .. Len(Problems) /\ Len(Problems) \in Nat
    BY ProblemTypes
  <2>2. prest' \in Seq(DOMAIN Problems)
    BY <1>1, <2>1, IsASeq
  <2>3. F!Range(prest') = {prest'[i] : i \in DOMAIN Problems}
    BY <1>1, RangeIs
  <2> QED BY <1>1, <2>2, <2>3 DEF Distinct
<1>6. Queued' = DOMAIN Problems /\ Held' = DOMAIN Problems
  BY <1>1, <1>3, <1>4, <1>5 DEF Queued, Held
<1>7. P!TypeOK'
  BY <1>1, <1>5 DEF SweepInv, P!TypeOK
<1>8. OnceHeld'
  BY <1>1, <1>3, <1>4, <1>5 DEF SweepInv, OnceHeld, Distinct
<1>9. ViewsRight'
  BY <1>1 DEF SweepInv, ViewsRight, File, LastPart
<1>10. FirstSweep'
  BY <1>1, <1>6 DEF SweepInv, FirstSweep, P!AllSources
<1>11. SecondSweep'
  <2>1. \A p : Has("photometric", p)' = Has("photometric", p)
    BY <1>1 DEF Has, File, LastPart, RefOf
  <2> QED BY <1>1, <1>4, <1>6, <2>1 DEF SweepInv, SecondSweep
<1>12. SweepsEnd'
  BY <1>1 DEF SweepsEnd
<1> QED BY <1>4, <1>7, <1>8, <1>9, <1>10, <1>11, <1>12 DEF SweepInv

LEMMA AddProblemKeeps ==
    ASSUME P!ProblemsAssumption, SweepInv, P!AddTask PROVE SweepInv'
<1>1. /\ pat = "add" /\ prest # <<>> /\ ptasks' = Append(ptasks, Head(prest)) /\ prest' = Tail(prest)
      /\ UNCHANGED <<options, files, srcs, type, pjob, lock, pfailed, pstopped, pat, started>>
  BY DEF P!AddTask
<1>2. prest \in Seq(DOMAIN Problems) /\ ptasks \in Seq(DOMAIN Problems)
  BY SweepTypes DEF SweepInv
<1>3. /\ prest' \in Seq(DOMAIN Problems) /\ Head(prest) \in DOMAIN Problems
      /\ F!Range(prest) = F!Range(prest') \cup {Head(prest)}
  BY <1>1, <1>2, RangeHeadTail
<1>4. Distinct(prest) /\ Distinct(ptasks) /\ F!Range(prest) \cap F!Range(ptasks) = {}
  BY DEF SweepInv, OnceHeld
<1>5. Distinct(prest') /\ Head(prest) \notin F!Range(prest')
  BY <1>1, <1>2, <1>4, DistinctTail
<1>6. /\ ptasks' \in Seq(DOMAIN Problems) /\ F!Range(ptasks') = F!Range(ptasks) \cup {Head(prest)}
  BY <1>1, <1>2, <1>3, RangeAppend
<1>7. Distinct(ptasks')
  <2>1. Head(prest) \notin F!Range(ptasks)
    BY <1>3, <1>4
  <2> QED BY <1>1, <1>2, <1>3, <1>4, <2>1, DistinctAppend
<1>8. Solving' = Solving /\ Queued' = Queued
  BY <1>1, <1>3, <1>6 DEF Solving, Queued
<1>9. Held' = Held
  BY <1>1, <1>8 DEF Held
<1>10. OnceHeld'
  <2>1. F!Range(prest') \cap F!Range(ptasks') = {}
    BY <1>3, <1>4, <1>5, <1>6
  <2>2. \A w \in Solving : pjob'[w] = pjob[w]
    BY <1>1
  <2> QED BY <1>5, <1>7, <1>8, <2>1, <2>2 DEF SweepInv, OnceHeld
<1> QED BY <1>1, <1>3, <1>6, <1>8, <1>9, <1>10, SweepRests DEF SweepInv, P!TypeOK

LEMMA EndSweepKeeps ==
    ASSUME P!ProblemsAssumption, SweepInv, P!EndSweep PROVE SweepInv'
<1>1. /\ pat = "add" /\ prest = <<>> /\ ptasks = <<>> /\ \A w \in Workers : pjob[w].step = "idle"
      /\ UNCHANGED <<options, files, srcs, prest, ptasks, pjob, lock, pfailed, pstopped, started>>
  BY DEF P!EndSweep, P!PoolDone
<1>2. \/ pfailed /\ pat' = "threw" /\ type' = type
      \/ ~pfailed /\ options.geometric /\ type = "photometric" /\ type' = "geometric" /\ pat' = "next"
      \/ ~pfailed /\ (options.geometric => type = "geometric") /\ pat' = "done" /\ type' = type
  <2>1. type \in {"photometric", "geometric"} /\ options.geometric \in BOOLEAN /\ pfailed \in BOOLEAN
    BY SweepTypes DEF SweepInv, P!TypeOK, P!Types
  <2> QED BY <2>1 DEF P!EndSweep
<1>3. Solving = {} /\ Queued = {} /\ Held = {}
  BY <1>1, RangeEmpty DEF Solving, Queued, Held
<1>4. Solving' = {} /\ Queued' = {} /\ Held' = {}
  BY <1>1, RangeEmpty DEF Solving, Queued, Held
<1>5. P!TypeOK'
  BY <1>1, <1>2 DEF SweepInv, P!TypeOK, P!Types
<1>6. OnceHeld'
  BY <1>1, <1>4, RangeEmpty, EmptyDistinct DEF OnceHeld
<1>7. ViewsRight'
  BY <1>1 DEF SweepInv, ViewsRight, File, LastPart
<1>8. /\ \A t, p : Has(t, p)' = Has(t, p)
      /\ \A p : P!Solvable(p)' = P!Solvable(p)
  BY <1>1 DEF Has, File, LastPart, RefOf, P!Solvable
<1>9. \A p : FirstDone(p)' = FirstDone(p) /\ SecondDone(p)' = SecondDone(p)
  BY <1>1, <1>8 DEF FirstDone, SecondDone
<1>10. FirstSweep'
  BY <1>1, <1>2, <1>3, <1>4, <1>9 DEF SweepInv, FirstSweep
<1>11. SecondSweep'
  <2>1. CASE type = "geometric"
    BY <1>1, <1>2, <1>3, <1>4, <1>8, <1>9, <2>1 DEF SweepInv, SecondSweep
  <2>2. CASE type = "photometric"
    <3>1. ~pfailed => \A p \in DOMAIN Problems : Has("photometric", p) \/ pstopped
      BY <1>1, <1>3, <2>2 DEF SweepInv, FirstSweep, FirstDone
    <3> QED BY <1>1, <1>2, <1>4, <1>8, <2>2, <3>1 DEF SecondSweep
  <2> QED BY <2>1, <2>2 DEF SweepInv, P!TypeOK, P!Types
<1>12. SweepsEnd'
  BY <1>1, <1>2, <1>4 DEF SweepsEnd
<1> QED BY <1>4, <1>5, <1>6, <1>7, <1>10, <1>11, <1>12 DEF SweepInv

LEMMA StopSweepKeeps == ASSUME SweepInv, P!Stop PROVE SweepInv'
<1>1. pstopped' = TRUE
      /\ UNCHANGED <<options, files, srcs, type, prest, ptasks, pjob, lock, pfailed, pat, started>>
  BY DEF P!Stop
<1>2. Solving' = Solving /\ Queued' = Queued /\ LastPart' = LastPart
  BY <1>1 DEF Solving, Queued, LastPart
<1>3. Held' = Held
  BY <1>1, <1>2 DEF Held
<1>4. P!TypeOK' /\ OnceHeld'
  BY <1>1, <1>2 DEF SweepInv, P!TypeOK, OnceHeld, Distinct
<1>5. ViewsRight'
  BY <1>1 DEF SweepInv, ViewsRight, File, LastPart
<1>6. \A t, p : Has(t, p)' = Has(t, p)
  BY <1>1 DEF Has, File, LastPart, RefOf
<1>7. \A p : FirstDone(p)' /\ SecondDone(p)'
  BY <1>1 DEF FirstDone, SecondDone
<1>8. FirstSweep' /\ SecondSweep' /\ SweepsEnd'
  BY <1>1, <1>2, <1>3, <1>6, <1>7 DEF SweepInv, FirstSweep, SecondSweep, SweepsEnd, P!AllSources
<1>9. ASSUME NEW w \in Solving PROVE SolvesRight(w)'
  <2>1. SolvesRight(w)
    BY DEF SweepInv
  <2>2. \A n : File(type, RefOf(pjob[w].problem), n)' = File(type, RefOf(pjob[w].problem), n)
    BY <1>1 DEF File, RefOf
  <2>3. FirstInputs(pjob[w].problem)' = FirstInputs(pjob[w].problem)
    BY <1>1 DEF FirstInputs, RefOf
  <2> QED BY <1>1, <1>2, <2>1, <2>2, <2>3 DEF SolvesRight
<1> QED BY <1>2, <1>4, <1>5, <1>8, <1>9 DEF SweepInv

LEMMA RestartKeeps == ASSUME P!ProblemsAssumption, SweepInv, P!Restart PROVE SweepInv'
<1>1. /\ started < MaxRuns /\ started' = started + 1
      /\ srcs' = P!AllSources /\ type' = "photometric" /\ prest' = <<>> /\ ptasks' = <<>>
      /\ pjob' = [w \in Workers |-> P!Idle] /\ lock' = {}
      /\ pfailed' = FALSE /\ pstopped' = FALSE /\ pat' = "next"
      /\ UNCHANGED <<options, files>>
  BY DEF P!Restart
<1>2. Solving' = {} /\ Queued' = {} /\ Held' = {}
  BY <1>1, RangeEmpty, SweepIdle DEF Solving, Queued, Held
<1>3. P!TypeOK'
  <2>1. srcs' \in [DOMAIN Problems -> SUBSET Photos]
    BY <1>1, ProblemTypes DEF P!AllSources
  <2>2. pjob' \in [Workers -> SweepJobs]
    BY <1>1, SweepIdle
  <2>3. <<>> \in Seq(DOMAIN Problems)
    BY EmptySeq
  <2>4. P!Cardinality(lock') <= 1
    BY <1>1, LockCardinality, FS_EmptySet
  <2>5. started' \in 1 .. MaxRuns
    BY <1>1 DEF SweepInv, P!TypeOK, P!ProblemsAssumption
  <2>6. /\ options' \in Options
        /\ files' \in [P!Types -> [Photos -> [PartNames -> States]]]
    BY <1>1, SweepTypes DEF SweepInv
  <2> QED BY <1>1, <2>1, <2>2, <2>3, <2>4, <2>5, <2>6, PartsAre
          DEF P!TypeOK, SweepJobs, Steps, States, P!Types
<1>4. OnceHeld'
  BY <1>1, <1>2, RangeEmpty, EmptyDistinct DEF OnceHeld
<1>5. ViewsRight'
  BY <1>1 DEF SweepInv, ViewsRight, File, LastPart
<1>6. FirstSweep' /\ SecondSweep' /\ SweepsEnd'
  BY <1>1, <1>2 DEF FirstSweep, SecondSweep, SweepsEnd, P!AllSources
<1> QED BY <1>2, <1>3, <1>4, <1>5, <1>6 DEF SweepInv

-----------------------------------------------------------------------------
(* A view exists when its last file does. *)
LEMMA ExistIs ==
    ASSUME P!ProblemsAssumption, P!TypeOK, ViewsRight, NEW t \in P!Types, NEW i \in Photos
    PROVE  P!Exist(t, i) <=> File(t, i, LastPart) # "none"
<1>1. LastPart \in {2, 3} /\ P!Wanted = 1 .. LastPart
  BY SweepTypes
<1>2. LastPart \in 1 .. LastPart /\ \A n \in 1 .. LastPart : n = LastPart \/ n \in 1 .. LastPart - 1
  BY <1>1
<1>3. P!Exist(t, i) <=> \A n \in 1 .. LastPart : File(t, i, n) # "none"
  BY <1>1 DEF P!Exist, File
<1>4. File(t, i, LastPart) # "none" => \A n \in 1 .. LastPart - 1 : File(t, i, n) # "none"
  BY DEF ViewsRight
<1> QED BY <1>2, <1>3, <1>4

LEMMA BeginKeeps ==
    ASSUME P!ProblemsAssumption, SweepInv, NEW w \in Workers, P!Begin(w) PROVE SweepInv'
<1> DEFINE h == Head(ptasks)
           j == [P!Idle EXCEPT !.step = "lock", !.problem = h, !.type = type]
<1>1. /\ pjob[w].step = "idle" /\ ptasks # <<>> /\ ptasks' = Tail(ptasks)
      /\ pjob' = [pjob EXCEPT ![w] = IF pstopped \/ P!Exist(type, Problems[h].ref) THEN P!Idle ELSE j]
      /\ UNCHANGED <<options, files, srcs, type, prest, lock, pfailed, pstopped, pat, started>>
  BY DEF P!Begin, P!Become
<1>2. /\ prest \in Seq(DOMAIN Problems) /\ ptasks \in Seq(DOMAIN Problems)
      /\ pjob \in [Workers -> SweepJobs] /\ type \in P!Types
  BY SweepTypes DEF SweepInv
<1>3. /\ ptasks' \in Seq(DOMAIN Problems) /\ h \in DOMAIN Problems
      /\ F!Range(ptasks) = F!Range(ptasks') \cup {h}
  BY <1>1, <1>2, RangeHeadTail
<1>4. Distinct(prest) /\ Distinct(ptasks) /\ F!Range(prest) \cap F!Range(ptasks) = {}
  BY DEF SweepInv, OnceHeld
<1>5. Distinct(ptasks') /\ h \notin F!Range(ptasks')
  BY <1>1, <1>2, <1>4, DistinctTail
<1>6. pat = "add" /\ h \in Queued
  BY <1>3 DEF SweepInv, SweepsEnd, Held, Queued
<1>7. Queued = Queued' \cup {h} /\ h \notin Queued'
  BY <1>1, <1>3, <1>4, <1>5 DEF Queued
<1>8. w \notin Solving /\ \A v \in Solving : pjob[v].problem \notin Queued
  BY <1>1 DEF Solving, SweepInv, OnceHeld
<1>9. j \in SweepJobs /\ j.step = "lock" /\ j.problem = h /\ j.type = type /\ j.part = 1
  <2>1. h \in 0 .. Len(Problems)
    BY <1>3, ProblemTypes
  <2> QED BY <1>2, <2>1, SweepIdle DEF SweepJobs, Steps
<1> HIDE DEF h, j
<1>10. pjob' \in [Workers -> SweepJobs] /\ \A v \in Workers \ {w} : pjob'[v] = pjob[v]
  BY <1>1, <1>2, <1>9, SweepIdle
<1>11. P!TypeOK'
  <2>1. /\ options' \in Options /\ type' \in P!Types /\ prest' \in Seq(DOMAIN Problems)
        /\ pfailed' \in BOOLEAN /\ pstopped' \in BOOLEAN
        /\ pat' \in {"next", "add", "done", "threw"} /\ started' \in 1 .. MaxRuns
        /\ lock' \in SUBSET Workers /\ P!Cardinality(lock') <= 1
        /\ srcs' \in [DOMAIN Problems -> SUBSET Photos]
        /\ files' \in [P!Types -> [Photos -> [PartNames -> States]]]
    BY <1>1, PartsAre DEF SweepInv, P!TypeOK, States
  <2> QED BY <1>3, <1>10, <2>1, PartsAre DEF P!TypeOK, SweepJobs, Steps, States
<1>12. ViewsRight' /\ SweepsEnd'
  BY <1>1, <1>6 DEF SweepInv, ViewsRight, File, LastPart, SweepsEnd
<1>13. /\ \A t, p : Has(t, p)' = Has(t, p)
       /\ \A p : P!Solvable(p)' = P!Solvable(p)
  BY <1>1 DEF Has, File, LastPart, RefOf, P!Solvable
<1>14. \A p : FirstDone(p)' = FirstDone(p) /\ SecondDone(p)' = SecondDone(p)
  BY <1>1, <1>13 DEF FirstDone, SecondDone
<1>15. ASSUME NEW v \in Solving PROVE SolvesRight(v)'
  <2>1. SolvesRight(v) /\ v \in Workers \ {w}
    BY <1>8 DEF SweepInv, Solving
  <2>2. pjob'[v] = pjob[v]
    BY <1>10, <2>1
  <2>3. \A n : File(type, RefOf(pjob[v].problem), n)' = File(type, RefOf(pjob[v].problem), n)
    BY <1>1, <2>2 DEF File, RefOf
  <2>4. FirstInputs(pjob[v].problem)' = FirstInputs(pjob[v].problem) /\ LastPart' = LastPart
    BY <1>1, <2>2 DEF FirstInputs, RefOf, LastPart
  <2> QED BY <1>1, <2>1, <2>2, <2>3, <2>4 DEF SolvesRight
<1>16. CASE pstopped \/ P!Exist(type, Problems[h].ref)
  <2>1. pjob'[w] = P!Idle
    BY <1>1, <1>2, <1>16
  <2>2. Solving' = Solving
    BY <1>1, <1>8, <1>10, <2>1, SweepIdle DEF Solving
  <2>3. \A v \in Solving : pjob'[v].problem = pjob[v].problem
    BY <1>8, <1>10 DEF Solving
  <2>4. Held \subseteq Held' \cup {h}
    BY <1>7, <2>2, <2>3 DEF Held
  <2>5. OnceHeld'
    BY <1>1, <1>3, <1>4, <1>5, <1>7, <1>8, <2>2, <2>3 DEF SweepInv, OnceHeld
  <2>6. Has(type, h) \/ pstopped
    <3>1. RefOf(h) \in Photos
      BY <1>3, ProblemTypes
    <3> QED BY <1>2, <1>16, <3>1, ExistIs DEF SweepInv, Has, RefOf
  <2>7. FirstSweep'
    BY <1>1, <1>6, <1>7, <1>14, <2>4, <2>6 DEF SweepInv, FirstSweep, FirstDone
  <2>8. SecondSweep'
    BY <1>1, <1>6, <1>13, <1>14, <2>2, <2>4, <2>6 DEF SweepInv, SecondSweep, SecondDone
  <2> QED BY <1>11, <1>12, <1>15, <2>2, <2>5, <2>7, <2>8 DEF SweepInv
<1>17. CASE ~(pstopped \/ P!Exist(type, Problems[h].ref))
  <2>1. pjob'[w] = j
    BY <1>1, <1>2, <1>17
  <2>2. Solving' = Solving \cup {w}
    BY <1>1, <1>8, <1>9, <1>10, <2>1 DEF Solving
  <2>3. (\A v \in Solving : pjob'[v].problem = pjob[v].problem) /\ pjob'[w].problem = h
    BY <1>8, <1>9, <1>10, <2>1 DEF Solving
  <2>4. Held' = Held
    BY <1>7, <2>2, <2>3 DEF Held
  <2>5. OnceHeld'
    BY <1>1, <1>3, <1>4, <1>5, <1>6, <1>7, <1>8, <2>2, <2>3 DEF SweepInv, OnceHeld
  <2>6. FirstSweep'
    BY <1>1, <1>6, <1>7, <1>14, <2>4 DEF SweepInv, FirstSweep
  <2>7. SecondSweep'
    BY <1>1, <1>6, <1>13, <1>14, <1>17, <2>4, SMTT(30) DEF SweepInv, SecondSweep
  <2>8. SolvesRight(w)'
    <3>1. File(type, RefOf(h), LastPart) = "none"
      <4>1. RefOf(h) \in Photos
        BY <1>3, ProblemTypes
      <4> QED BY <1>2, <1>17, <4>1, ExistIs DEF SweepInv, RefOf
    <3>2. type = "photometric" => srcs[h] = Problems[h].srcs
      BY <1>6 DEF SweepInv, FirstSweep
    <3>3. 1 \in 1 .. LastPart
      BY SweepTypes DEF SweepInv
    <3> QED BY <1>1, <1>3, <1>9, <2>1, <3>1, <3>2, <3>3 DEF SolvesRight, File, RefOf, LastPart
  <2> QED BY <1>11, <1>12, <1>15, <2>2, <2>5, <2>6, <2>7, <2>8 DEF SweepInv
<1> QED BY <1>16, <1>17

LEMMA ListKeeps ==
    ASSUME P!ProblemsAssumption, SweepInv, NEW w \in Workers, P!ListInputs(w) PROVE SweepInv'
<1> DEFINE K == {i \in P!Used(pjob[w].problem) :
                    options.allowMissing => ~P!Missing(i, pjob[w].type)}
           j == [pjob[w] EXCEPT !.step = "read", !.kept = K]
<1>1. /\ pjob[w].step = "lock" /\ lock' = {w} /\ pjob' = [pjob EXCEPT ![w] = j]
      /\ UNCHANGED <<options, files, srcs, type, prest, ptasks, pfailed, pstopped, pat, started>>
  BY DEF P!ListInputs, P!Become
<1>2. w \in Solving
  BY <1>1 DEF Solving
<1>3. SolvesRight(w) /\ pjob[w].problem \in DOMAIN Problems /\ pjob[w].type = type
  BY <1>2, SolvingMeans
<1>4. pjob \in [Workers -> SweepJobs] /\ srcs \in [DOMAIN Problems -> SUBSET Photos]
  BY SweepTypes DEF SweepInv
<1>5. K \subseteq Photos
  BY <1>3, <1>4, ProblemTypes DEF P!Used, RefOf
<1>6. /\ j \in SweepJobs /\ j.step = "read" /\ j.problem = pjob[w].problem /\ j.type = type
      /\ j.kept = K /\ j.part = pjob[w].part
  BY <1>3, <1>4, <1>5 DEF SweepJobs, Steps
<1>7. type = "photometric" => K = FirstInputs(pjob[w].problem)
  BY <1>1, <1>3 DEF SolvesRight, FirstInputs, P!Used, P!Missing, RefOf
<1> HIDE DEF j, K
<1>8. pjob'[w] = j
  BY <1>1, <1>4
<1>9. ViewsRight' /\ Grows /\ OthersRest(w)
  BY <1>1 DEF SweepInv, ViewsRight, Grows, OthersRest, Has, File, LastPart, RefOf
<1>10. SolvesRight(w)'
  <2>1. \A n : File(type, RefOf(pjob[w].problem), n)' = File(type, RefOf(pjob[w].problem), n)
    BY <1>1, <1>6, <1>8 DEF File, RefOf
  <2>2. FirstInputs(pjob[w].problem)' = FirstInputs(pjob[w].problem) /\ LastPart' = LastPart
    BY <1>1, <1>6, <1>8 DEF FirstInputs, RefOf, LastPart
  <2> QED BY <1>1, <1>3, <1>6, <1>7, <1>8, <2>1, <2>2 DEF SolvesRight
<1>11. lock' \in SUBSET Workers /\ Cardinality(lock') <= 1
  BY <1>1, FS_Singleton
<1>12. files' \in [P!Types -> [Photos -> [PartNames -> States]]]
  BY <1>1, SweepTypes DEF SweepInv
<1> QED BY <1>1, <1>2, <1>4, <1>6, <1>9, <1>10, <1>11, <1>12, WorkGoesOn DEF P!Become

(* In the first sweep, what is kept can be read, and is enough, unless the   *)
(* problem cannot be solved.                                                 *)
LEMMA FirstReads ==
    ASSUME P!ProblemsAssumption, P!TypeOK, NEW p \in DOMAIN Problems, P!Solvable(p)
    PROVE  /\ \A i \in FirstInputs(p) : i \notin NoBitmap
           /\ RefOf(p) \in FirstInputs(p) /\ FirstInputs(p) \ {RefOf(p)} # {}
<1>1. options.allowMissing \in BOOLEAN
  BY SweepTypes
<1>2. RefOf(p) \notin Problems[p].srcs /\ Problems[p].srcs # {}
  BY ProblemTypes
<1>3. RefOf(p) \notin NoBitmap
  BY DEF P!Solvable, RefOf
<1>4. CASE options.allowMissing
  <2>1. Problems[p].srcs \ NoBitmap # {}
    BY <1>4 DEF P!Solvable
  <2> QED BY <1>2, <1>3, <1>4, <2>1 DEF FirstInputs
<1>5. CASE ~options.allowMissing
  <2>1. Problems[p].srcs \cap NoBitmap = {}
    BY <1>5 DEF P!Solvable
  <2> QED BY <1>2, <1>3, <1>5, <2>1 DEF FirstInputs
<1> QED BY <1>1, <1>4, <1>5

LEMMA ReadKeeps ==
    ASSUME P!ProblemsAssumption, SweepInv, NEW w \in Workers, P!ReadInputs(w) PROVE SweepInv'
<1> DEFINE p == pjob[w].problem
           left == pjob[w].kept \ {Problems[p].ref}
           j == [pjob[w] EXCEPT !.step = "open"]
<1>1. /\ pjob[w].step = "read" /\ P!CanRead(w) /\ lock' = {} /\ srcs' = [srcs EXCEPT ![p] = left]
      /\ \/ pjob' = [pjob EXCEPT ![w] = j] /\ pfailed' = pfailed
         \/ /\ ~(left # {} /\ Problems[p].ref \in pjob[w].kept)
            /\ pjob' = [pjob EXCEPT ![w] = P!Idle] /\ pfailed' = TRUE
      /\ UNCHANGED <<options, files, type, prest, ptasks, pstopped, pat, started>>
  BY DEF P!ReadInputs, P!Become, P!Unlocked
<1>2. w \in Solving
  BY <1>1 DEF Solving
<1>3. SolvesRight(w) /\ p \in DOMAIN Problems /\ pjob[w].type = type
  BY <1>2, SolvingMeans
<1>4. pjob \in [Workers -> SweepJobs] /\ srcs \in [DOMAIN Problems -> SUBSET Photos]
  BY SweepTypes DEF SweepInv
<1>5. left \subseteq Photos
  BY <1>4 DEF SweepJobs
<1>6. /\ j \in SweepJobs /\ j.step = "open" /\ j.problem = p /\ j.type = type
      /\ j.part = pjob[w].part
  BY <1>3, <1>4 DEF SweepJobs, Steps
<1>7. srcs' \in [DOMAIN Problems -> SUBSET Photos]
  <2> HIDE DEF left
  <2> QED BY <1>1, <1>4, <1>5
<1>8. ViewsRight' /\ Grows /\ OthersRest(w)
  <2>1. \A q \in DOMAIN Problems \ {pjob[w].problem} : srcs'[q] = srcs[q]
    BY <1>1, <1>4
  <2>2. files' = files /\ options' = options
    BY <1>1
  <2>3. ViewsRight'
    BY <2>2 DEF SweepInv, ViewsRight, File, LastPart
  <2>4. Grows
    BY <2>2 DEF Grows, Has, File, LastPart, RefOf
  <2>5. OthersRest(w)
    BY <2>1, <2>2 DEF OthersRest
  <2> QED BY <2>3, <2>4, <2>5
<1>9. lock' \in SUBSET Workers /\ Cardinality(lock') <= 1
  BY <1>1, FS_EmptySet
<1>10. files' \in [P!Types -> [Photos -> [PartNames -> States]]]
  BY <1>1, SweepTypes DEF SweepInv
<1>11. CASE pjob' = [pjob EXCEPT ![w] = j] /\ pfailed' = pfailed
  <2> HIDE DEF j, left
  <2>1. pjob'[w] = j
    BY <1>4, <1>11
  <2>2. SolvesRight(w)'
    <3>1. \A n : File(type, RefOf(pjob[w].problem), n)' = File(type, RefOf(pjob[w].problem), n)
      BY <1>1, <1>6, <2>1 DEF File, RefOf
    <3>2. LastPart' = LastPart /\ LastPart \in {2, 3} /\ pjob[w].part = 1
      BY <1>1, <1>3, SweepTypes DEF LastPart, SweepInv, SolvesRight
    <3>3. \A m \in 1 .. 1 - 1 : FALSE
      OBVIOUS
    <3> QED BY <1>1, <1>3, <1>6, <2>1, <3>1, <3>2, <3>3 DEF SolvesRight
  <2> QED BY <1>1, <1>2, <1>6, <1>7, <1>8, <1>9, <1>10, <1>11, <2>2, WorkGoesOn DEF P!Become
<1>12. CASE /\ ~(left # {} /\ Problems[p].ref \in pjob[w].kept)
            /\ pjob' = [pjob EXCEPT ![w] = P!Idle] /\ pfailed' = TRUE
  <2>1. type = "photometric" => ~P!Solvable(p)
    <3> SUFFICES ASSUME type = "photometric", P!Solvable(p) PROVE FALSE
      OBVIOUS
    <3>1. pjob[w].kept = FirstInputs(p)
      BY <1>1, <1>3 DEF SolvesRight
    <3> QED BY <1>3, <1>12, <3>1, FirstReads DEF SweepInv, RefOf
  <2> HIDE DEF j, left, p
  <2>2. P!Become(w, P!Idle) /\ pfailed' \in BOOLEAN
    BY <1>12 DEF P!Become
  <2> QED BY <1>1, <1>2, <1>7, <1>8, <1>9, <1>10, <1>12, <2>1, <2>2, WorkEnds DEF p
<1> QED BY <1>1, <1>11, <1>12

LEMMA ThrowKeeps ==
    ASSUME P!ProblemsAssumption, SweepInv, NEW w \in Workers, P!ReadThrows(w) PROVE SweepInv'
<1>1. /\ pjob[w].step = "read" /\ ~P!MustRead(w) /\ lock' = {} /\ P!Become(w, P!Idle)
      /\ pfailed' = TRUE
      /\ UNCHANGED <<options, files, srcs, type, prest, ptasks, pstopped, pat, started>>
  BY DEF P!ReadThrows, P!Unlocked
<1>2. w \in Solving
  BY <1>1 DEF Solving
<1> DEFINE p == pjob[w].problem
<1>3. SolvesRight(w) /\ p \in DOMAIN Problems /\ pjob[w].type = type
  BY <1>2, SolvingMeans
<1>4. type = "photometric" => ~P!Solvable(p)
  <2> SUFFICES ASSUME type = "photometric", P!Solvable(p) PROVE FALSE
    OBVIOUS
  <2>1. pjob[w].kept = FirstInputs(p) /\ pjob[w].type = "photometric"
    BY <1>1, <1>3 DEF SolvesRight
  <2>2. \A i \in pjob[w].kept : i \notin NoBitmap
    BY <1>3, <2>1, FirstReads DEF SweepInv
  <2> QED BY <1>1, <2>1, <2>2 DEF P!MustRead, P!CanRead, P!Missing, P!Torn
<1>5. ViewsRight' /\ Grows /\ OthersRest(w)
  BY <1>1 DEF SweepInv, ViewsRight, Grows, OthersRest, Has, File, LastPart, RefOf
<1>6. lock' \in SUBSET Workers /\ Cardinality(lock') <= 1
  BY <1>1, FS_EmptySet
<1>7. /\ files' \in [P!Types -> [Photos -> [PartNames -> States]]]
      /\ srcs' \in [DOMAIN Problems -> SUBSET Photos]
  BY <1>1, SweepTypes DEF SweepInv
<1> HIDE DEF p
<1> QED BY <1>1, <1>2, <1>4, <1>5, <1>6, <1>7, WorkEnds DEF p

-----------------------------------------------------------------------------
(* The files after a step. *)
Written(t, i, n) == files'[t][i][P!Parts[n]]

(* Writing to a file of the view that a worker solves. *)
LEMMA WriteEffect ==
    ASSUME P!ProblemsAssumption, SweepInv, NEW w \in Solving, NEW s \in States \ {"none"},
           P!Write(w, s), options' = options
    PROVE  /\ files' \in [P!Types -> [Photos -> [PartNames -> States]]]
           /\ \A t \in P!Types, i \in Photos, n \in 1 .. 3 :
                 Written(t, i, n) =
                    IF t = type /\ i = RefOf(pjob[w].problem) /\ n = pjob[w].part
                    THEN s ELSE File(t, i, n)
           /\ \A q \in DOMAIN Problems \ {pjob[w].problem} :
                 \A t \in P!Types : files'[t][RefOf(q)] = files[t][RefOf(q)]
           /\ Grows
<1> DEFINE i0 == RefOf(pjob[w].problem)
           n0 == pjob[w].part
<1>1. SolvesRight(w) /\ pjob[w].problem \in DOMAIN Problems /\ pjob[w].type = type
  BY SolvingMeans
<1>2. /\ type \in P!Types /\ files \in [P!Types -> [Photos -> [PartNames -> States]]]
      /\ LastPart \in {2, 3}
  BY SweepTypes DEF SweepInv
<1>3. i0 \in Photos /\ n0 \in 1 .. 3
  <2>1. i0 \in Photos
    BY <1>1, ProblemTypes
  <2>2. n0 \in 1 .. LastPart
    BY <1>1 DEF SolvesRight
  <2> HIDE DEF i0, n0
  <2> QED BY <1>2, <2>1, <2>2
<1>4. files' = [files EXCEPT ![type][i0][P!Parts[n0]] = s]
  BY <1>1 DEF P!Write, P!Problem, RefOf
<1> HIDE DEF i0, n0
<1>5. files' \in [P!Types -> [Photos -> [PartNames -> States]]]
  BY <1>2, <1>3, <1>4, PartsAre
<1>6. ASSUME NEW t \in P!Types, NEW i \in Photos, NEW x \in PartNames
      PROVE  files'[t][i][x] = IF t = type /\ i = i0 /\ x = P!Parts[n0] THEN s ELSE files[t][i][x]
  BY <1>2, <1>3, <1>4, PartsAre
<1>7. ASSUME NEW t \in P!Types, NEW i \in Photos, NEW n \in 1 .. 3
      PROVE  Written(t, i, n) = IF t = type /\ i = i0 /\ n = n0 THEN s ELSE File(t, i, n)
  BY <1>3, <1>6, PartsAre DEF File, Written
<1>8. ASSUME NEW q \in DOMAIN Problems \ {pjob[w].problem}, NEW t \in P!Types
      PROVE  files'[t][RefOf(q)] = files[t][RefOf(q)]
  <2>1. RefOf(q) \in Photos /\ RefOf(q) # i0
    BY <1>1, ProblemTypes DEF i0
  <2> QED BY <1>2, <1>3, <1>4, <2>1, PartsAre
<1>9. Grows
  <2>1. \A q \in DOMAIN Problems : RefOf(q) \in Photos
    BY ProblemTypes
  <2>2. LastPart \in 1 .. 3 /\ LastPart' = LastPart
    BY <1>2 DEF LastPart
  <2>3. \A q : RefOf(q)' = RefOf(q)
    BY DEF RefOf
  <2>4. s # "none"
    OBVIOUS
  <2> QED BY <1>7, <2>1, <2>2, <2>3, <2>4 DEF Grows, Has, File, Written
<1> QED BY <1>5, <1>7, <1>8, <1>9 DEF i0, n0

LEMMA OpenKeeps ==
    ASSUME P!ProblemsAssumption, SweepInv, NEW w \in Workers, P!OpenFile(w) PROVE SweepInv'
<1> DEFINE j == [pjob[w] EXCEPT !.step = "write"]
           i0 == RefOf(pjob[w].problem)
           n0 == pjob[w].part
<1>1. /\ pjob[w].step = "open" /\ P!Write(w, "torn") /\ pjob' = [pjob EXCEPT ![w] = j]
      /\ UNCHANGED <<options, srcs, type, prest, ptasks, lock, pfailed, pstopped, pat, started>>
  BY DEF P!OpenFile, P!Become
<1>2. w \in Solving
  BY <1>1 DEF Solving
<1>3. SolvesRight(w) /\ pjob[w].problem \in DOMAIN Problems /\ pjob[w].type = type
  BY <1>2, SolvingMeans
<1>4. /\ pjob \in [Workers -> SweepJobs] /\ srcs \in [DOMAIN Problems -> SUBSET Photos]
      /\ LastPart \in {2, 3} /\ type \in P!Types /\ i0 \in Photos
  BY <1>3, SweepTypes DEF SweepInv
<1>5. /\ j \in SweepJobs /\ j.step = "write" /\ j.problem = pjob[w].problem /\ j.type = type
      /\ j.part = n0
  BY <1>3, <1>4 DEF SweepJobs, Steps
<1>6. "torn" \in States \ {"none"}
  BY DEF States
<1>7. /\ files' \in [P!Types -> [Photos -> [PartNames -> States]]] /\ Grows
      /\ \A t \in P!Types, i \in Photos, n \in 1 .. 3 :
            Written(t, i, n) = IF t = type /\ i = i0 /\ n = n0 THEN "torn" ELSE File(t, i, n)
      /\ \A q \in DOMAIN Problems \ {pjob[w].problem} :
            \A t \in P!Types : files'[t][RefOf(q)] = files[t][RefOf(q)]
  BY <1>1, <1>2, <1>6, WriteEffect
<1>8. pjob'[w] = j /\ LastPart' = LastPart
  BY <1>1, <1>4 DEF LastPart
<1>9. n0 \in 1 .. LastPart /\ File(type, i0, LastPart) = "none"
      /\ \A m \in 1 .. n0 - 1 : File(type, i0, m) = "whole"
  BY <1>1, <1>3 DEF SolvesRight
<1>10. RefOf(pjob[w].problem)' = i0 /\ pjob'[w].part = n0 /\ pjob'[w].problem = pjob[w].problem
       /\ pjob'[w].step = "write" /\ pjob'[w].type = type
  BY <1>5, <1>8 DEF RefOf
<1> HIDE DEF j, n0, i0
<1>11. LastPart \in 1 .. 3 /\ \A n \in 1 .. LastPart : n \in 1 .. 3
  BY <1>4
<1>12. \A m \in 1 .. n0 - 1 : m \in 1 .. 3 /\ m # n0
  BY <1>9, <1>11
<1>13. \A m \in 1 .. LastPart - 1 : m \in 1 .. 3 /\ m # LastPart /\ m \in 1 .. LastPart
  BY <1>4
<1>14. ViewsRight'
  <2> SUFFICES ASSUME NEW t \in P!Types, NEW i \in Photos, Written(t, i, LastPart) # "none",
                      NEW m \in 1 .. LastPart - 1
               PROVE  Written(t, i, m) = "whole"
    BY <1>8 DEF ViewsRight, File, Written
  <2>1. CASE t = type /\ i = i0
    <3>1. n0 = LastPart
      BY <1>7, <1>9, <1>11, <2>1
    <3>2. m \in 1 .. n0 - 1
      BY <3>1
    <3> QED BY <1>7, <1>9, <1>12, <2>1, <3>2
  <2>2. CASE ~(t = type /\ i = i0)
    <3>1. File(t, i, LastPart) # "none"
      BY <1>7, <1>11, <2>2
    <3>2. File(t, i, m) = "whole"
      BY <3>1 DEF SweepInv, ViewsRight
    <3> QED BY <1>7, <1>13, <2>2, <3>2
  <2> QED BY <2>1, <2>2
<1>15. SolvesRight(w)'
  <2>1. n0 # LastPart => Written(type, i0, LastPart) = "none"
    BY <1>4, <1>7, <1>9, <1>11
  <2>2. \A m \in 1 .. n0 - 1 : Written(type, i0, m) = "whole"
    BY <1>4, <1>7, <1>9, <1>12
  <2>3. Written(type, i0, n0) = "torn"
    BY <1>4, <1>7, <1>9, <1>11
  <2> QED BY <1>1, <1>3, <1>8, <1>9, <1>10, <2>1, <2>2, <2>3 DEF SolvesRight, File, Written
<1>16. OthersRest(w)
  BY <1>1, <1>7 DEF OthersRest
<1>17. lock' \in SUBSET Workers /\ Cardinality(lock') <= 1
  BY <1>1, LockCardinality DEF SweepInv, P!TypeOK
<1> QED BY <1>1, <1>2, <1>4, <1>5, <1>7, <1>14, <1>15, <1>16, <1>17, WorkGoesOn DEF P!Become

LEMMA CloseOf ==
    ASSUME P!ProblemsAssumption, SweepInv, NEW w \in Workers, P!CloseFile(w),
           NEW p0, p0 = pjob[w].problem, NEW i0, i0 = Problems[p0].ref, NEW n0, n0 = pjob[w].part
    PROVE  SweepInv'
<1> DEFINE j == [pjob[w] EXCEPT !.step = "open", !.part = @ + 1]
<1>1. /\ pjob[w].step = "write" /\ P!Write(w, "whole")
      /\ pjob' = [pjob EXCEPT ![w] = IF n0 + 1 \in P!Wanted THEN j ELSE P!Idle]
      /\ UNCHANGED <<options, srcs, type, prest, ptasks, lock, pfailed, pstopped, pat, started>>
  BY DEF P!CloseFile, P!Become
<1>2. w \in Solving
  BY <1>1 DEF Solving
<1>3. SolvesRight(w) /\ p0 \in DOMAIN Problems /\ pjob[w].type = type
  BY <1>2, SolvingMeans
<1>4. /\ i0 = RefOf(p0) /\ pjob \in [Workers -> SweepJobs] /\ srcs \in [DOMAIN Problems -> SUBSET Photos]
      /\ LastPart \in {2, 3} /\ type \in P!Types /\ i0 \in Photos /\ P!Wanted = 1 .. LastPart
  BY <1>3, SweepTypes DEF SweepInv, RefOf
<1>5. "whole" \in States \ {"none"}
  BY DEF States
<1>6. /\ files' \in [P!Types -> [Photos -> [PartNames -> States]]] /\ Grows
      /\ \A t \in P!Types, i \in Photos, n \in 1 .. 3 :
            Written(t, i, n) = IF t = type /\ i = i0 /\ n = n0 THEN "whole" ELSE File(t, i, n)
      /\ \A q \in DOMAIN Problems \ {p0} :
            \A t \in P!Types : files'[t][RefOf(q)] = files[t][RefOf(q)]
  BY <1>1, <1>2, <1>5, WriteEffect DEF RefOf
<1>7. LastPart' = LastPart
  BY <1>1 DEF LastPart
<1>8. /\ n0 \in 1 .. LastPart /\ (n0 # LastPart => File(type, i0, LastPart) = "none")
      /\ \A m \in 1 .. n0 - 1 : File(type, i0, m) = "whole"
  BY <1>1, <1>3 DEF SolvesRight, RefOf
<1>9. n0 + 1 \in 1 .. LastPart <=> n0 # LastPart
  BY <1>4, <1>8
<1>10. n0 + 1 \in 1 .. LastPart =>
         /\ j \in SweepJobs /\ j.step = "open" /\ j.problem = p0 /\ j.type = type
         /\ j.part = n0 + 1
  <2>1. n0 \in Int /\ (n0 + 1 \in 1 .. LastPart => n0 + 1 \in 1 .. 3)
    BY <1>4, <1>8
  <2> QED BY <1>3, <1>4, <2>1 DEF SweepJobs, Steps
<1> HIDE DEF j
<1>11. LastPart \in 1 .. 3 /\ \A n \in 1 .. LastPart : n \in 1 .. 3
  BY <1>4
<1>12. \A m \in 1 .. n0 - 1 : m \in 1 .. 3 /\ m # n0
  BY <1>8, <1>11
<1>13. \A m \in 1 .. LastPart - 1 : m \in 1 .. 3 /\ m # LastPart /\ m \in 1 .. LastPart
  BY <1>4
<1>14. \A m \in 1 .. n0 : Written(type, i0, m) = "whole"
  <2>1. \A m \in 1 .. n0 : m = n0 \/ m \in 1 .. n0 - 1
    BY <1>8
  <2>2. n0 \in 1 .. 3
    BY <1>8, <1>11
  <2> QED BY <1>4, <1>6, <1>8, <1>12, <2>1, <2>2
<1>15. ViewsRight'
  <2> SUFFICES ASSUME NEW t \in P!Types, NEW i \in Photos, Written(t, i, LastPart) # "none",
                      NEW m \in 1 .. LastPart - 1
               PROVE  Written(t, i, m) = "whole"
    BY <1>7 DEF ViewsRight, File, Written
  <2>1. CASE t = type /\ i = i0
    <3>1. n0 = LastPart
      <4>1. ~(n0 # LastPart)
        <5> SUFFICES ASSUME n0 # LastPart PROVE FALSE
          OBVIOUS
        <5>1. Written(type, i0, LastPart) = File(type, i0, LastPart)
          BY <1>4, <1>6, <1>11
        <5> QED BY <1>8, <2>1, <5>1
      <4> QED BY <4>1
    <3>2. m \in 1 .. n0
      BY <1>13, <3>1
    <3> QED BY <1>14, <2>1, <3>2
  <2>2. CASE ~(t = type /\ i = i0)
    <3>1. File(t, i, LastPart) # "none"
      BY <1>6, <1>11, <2>2
    <3>2. File(t, i, m) = "whole"
      BY <3>1 DEF SweepInv, ViewsRight
    <3> QED BY <1>6, <1>13, <2>2, <3>2
  <2> QED BY <2>1, <2>2
<1>16. OthersRest(w)
  BY <1>1, <1>6 DEF OthersRest
<1>17. lock' \in SUBSET Workers /\ Cardinality(lock') <= 1
  BY <1>1, LockCardinality DEF SweepInv, P!TypeOK
<1>18. srcs' \in [DOMAIN Problems -> SUBSET Photos]
  BY <1>1, <1>4
<1>19. CASE n0 + 1 \in P!Wanted
  <2>1. pjob' = [pjob EXCEPT ![w] = j] /\ n0 + 1 \in 1 .. LastPart /\ n0 # LastPart
    BY <1>1, <1>4, <1>9, <1>19
  <2>2. pjob'[w] = j
    BY <1>2, <1>4, <2>1 DEF Solving
  <2>3. RefOf(pjob[w].problem)' = i0
    BY <1>10, <2>1, <2>2 DEF RefOf
  <2>4. Written(type, i0, LastPart) = "none"
    BY <1>4, <1>6, <1>8, <1>11, <2>1
  <2>5. \A m \in 1 .. n0 + 1 - 1 : Written(type, i0, m) = "whole"
    <3>1. n0 + 1 - 1 = n0
      BY <1>8
    <3> QED BY <1>14, <3>1
  <2>6. SolvesRight(w)'
    BY <1>1, <1>3, <1>7, <1>10, <2>1, <2>2, <2>3, <2>4, <2>5, SMTT(30)
    DEF SolvesRight, File, Written
  <2>7. P!Become(w, j) /\ j \in SweepJobs /\ j.step # "idle" /\ j.problem = pjob[w].problem
    BY <1>10, <2>1 DEF P!Become
  <2> QED BY <1>1, <1>2, <1>6, <1>15, <1>16, <1>17, <1>18, <2>6, <2>7, WorkGoesOn
<1>20. CASE n0 + 1 \notin P!Wanted
  <2>1. P!Become(w, P!Idle) /\ n0 = LastPart
    BY <1>1, <1>4, <1>9, <1>20 DEF P!Become
  <2>2. Written(type, i0, LastPart) # "none"
    BY <1>8, <1>14, <2>1
  <2>3. Has(type, p0)'
    BY <1>1, <1>7, <2>2 DEF Has, File, Written, RefOf
  <2>4. pfailed' = pfailed /\ pfailed' \in BOOLEAN
    BY <1>1 DEF SweepInv, P!TypeOK
  <2>5. /\ type = "photometric" => Has("photometric", p0)'
        /\ type = "geometric" => Has("geometric", p0)'
    BY <1>1, <1>7, <2>2 DEF Has, File, Written, RefOf
  <2>6. p0 = pjob[w].problem
    OBVIOUS
  <2> QED BY <1>1, <1>2, <1>6, <1>15, <1>16, <1>17, <1>18, <2>1, <2>4, <2>5, <2>6, WorkEnds
<1> QED BY <1>19, <1>20

LEMMA CloseKeeps ==
    ASSUME P!ProblemsAssumption, SweepInv, NEW w \in Workers, P!CloseFile(w) PROVE SweepInv'
<1>1. \A p0, i0, n0 :
        p0 = pjob[w].problem /\ i0 = Problems[p0].ref /\ n0 = pjob[w].part => SweepInv'
  BY CloseOf
<1> QED BY <1>1

LEMMA SweepStutters == ASSUME SweepInv, UNCHANGED P!vars PROVE SweepInv'
<1>1. UNCHANGED <<options, files, srcs, type, prest, ptasks, pjob, lock, pfailed, pstopped, pat, started>>
  BY DEF P!vars, P!running
<1>2. Queued' = Queued /\ Solving' = Solving
  BY <1>1 DEF Queued, Solving
<1>3. P!TypeOK' /\ OnceHeld'
  BY <1>1, <1>2 DEF SweepInv, P!TypeOK, OnceHeld, Distinct
<1> QED BY <1>1, <1>2, <1>3, SweepRests DEF SweepInv

LEMMA SweepInvariance == P!ProblemsAssumption /\ P!Spec => []SweepInv
<1> SUFFICES ASSUME P!ProblemsAssumption PROVE P!Spec => []SweepInv
  OBVIOUS
<1>1. P!Init => SweepInv
  BY SweepStarts
<1>2. ASSUME SweepInv, [P!Next]_(P!vars) PROVE SweepInv'
  <2>1. CASE P!BeginSweep
    BY <1>2, <2>1, BeginSweepKeeps
  <2>2. CASE P!AddTask
    BY <1>2, <2>2, AddProblemKeeps
  <2>3. CASE P!EndSweep
    BY <1>2, <2>3, EndSweepKeeps
  <2>4. CASE P!Stop \/ P!Restart
    BY <1>2, <2>4, StopSweepKeeps, RestartKeeps
  <2>5. ASSUME NEW w \in Workers, P!Work(w) PROVE SweepInv'
    BY <1>2, <2>5, BeginKeeps, ListKeeps, ReadKeeps, ThrowKeeps, OpenKeeps, CloseKeeps DEF P!Work
  <2>6. CASE P!Ended \/ UNCHANGED P!vars
    BY <1>2, <2>6, SweepStutters DEF P!Ended
  <2> QED BY <1>2, <2>1, <2>2, <2>3, <2>4, <2>5, <2>6 DEF P!Next, P!Controller
<1> QED BY <1>1, <1>2, PTL DEF P!Spec

-----------------------------------------------------------------------------
(* A view whose last file is there is complete but for, perhaps, that file.   *)
LEMMA HasMends ==
    ASSUME P!ProblemsAssumption, SweepInv, NEW t \in P!Types, NEW p \in DOMAIN Problems, Has(t, p)
    PROVE  P!Mended(t, p)
<1>1. /\ RefOf(p) \in Photos /\ LastPart \in {2, 3} /\ P!Wanted = 1 .. LastPart
  BY SweepTypes DEF SweepInv
<1>2. P!Exist(t, RefOf(p))
  BY <1>1, ExistIs DEF SweepInv, Has
<1>3. \A n \in 1 .. LastPart : n + 1 \in 1 .. LastPart => n \in 1 .. LastPart - 1
  BY <1>1
<1>4. \A n \in 1 .. LastPart - 1 : File(t, RefOf(p), n) = "whole"
  BY <1>1 DEF SweepInv, ViewsRight, Has
<1>5. P!Mended(t, p) <=>
        /\ P!Exist(t, RefOf(p))
        /\ \A n \in P!Wanted : n + 1 \in P!Wanted => File(t, RefOf(p), n) = "whole"
  BY DEF P!Mended, RefOf, File
<1> QED BY <1>1, <1>2, <1>3, <1>4, <1>5

(* No input of the second sweep is missing because the first one has not      *)
(* computed it yet; and however often the program was killed, a run to the    *)
(* end computes every view, and mends its torn files but the one written      *)
(* last, for any problems, options and number of workers                      *)
(* (mvs/patch_match.cc:170-207, 410-414, 530-534).                            *)
THEOREM ViewsAlwaysComplete == P!ProblemsAssumption /\ P!Spec => []ViewsComplete
<1> SUFFICES ASSUME P!ProblemsAssumption PROVE P!Spec => []ViewsComplete
  OBVIOUS
<1>1. SweepInv => P!MapsReady
  <2> SUFFICES ASSUME SweepInv, NEW w \in Workers, pjob[w].step \in {"lock", "read"},
                      pjob[w].type = "geometric",
                      NEW p \in DOMAIN Problems, P!Solvable(p)
               PROVE  ~P!Missing(Problems[p].ref, "geometric")
    BY DEF P!MapsReady
  <2>1. w \in Solving
    BY DEF Solving
  <2>2. Has("photometric", p)
    BY <2>1, SolvingMeans
  <2>3. LastPart \in {2, 3} /\ RefOf(p) \in Photos
    BY SweepTypes DEF SweepInv
  <2>4. \A n \in 1 .. LastPart - 1 : File("photometric", RefOf(p), n) = "whole"
    BY <2>2, <2>3 DEF SweepInv, ViewsRight, Has, P!Types
  <2>5. 1 \in 1 .. LastPart - 1 /\ (LastPart = 2 \/ 2 \in 1 .. LastPart - 1)
    BY <2>3
  <2>6. /\ File("photometric", RefOf(p), 1) # "none"
        /\ File("photometric", RefOf(p), 2) # "none"
    BY <2>2, <2>4, <2>5 DEF Has
  <2>7. /\ files["photometric"][RefOf(p)]["depth"] # "none"
        /\ files["photometric"][RefOf(p)]["normal"] # "none"
    BY <2>6, PartsAre DEF File
  <2>8. Problems[p].ref \notin NoBitmap
    BY DEF P!Solvable
  <2> QED BY <2>7, <2>8 DEF P!Missing, RefOf
<1>2. SweepInv => P!RerunMends
  <2> SUFFICES ASSUME SweepInv, pat \in {"done", "threw"}, ~pstopped, NEW p \in DOMAIN Problems
               PROVE  /\ P!Solvable(p) => P!Mended("photometric", p)
                      /\ pat = "done" => /\ P!Mended("photometric", p)
                                         /\ options.geometric => P!Mended("geometric", p)
    BY DEF P!RerunMends
  <2>1. Held = {} /\ (pat = "done" => ~pfailed /\ (options.geometric => type = "geometric"))
    BY DEF SweepInv, SweepsEnd
  <2>2. type = "photometric" \/ type = "geometric"
    BY DEF SweepInv, P!TypeOK, P!Types
  <2>3. P!Solvable(p) \/ pat = "done" => Has("photometric", p)
    BY <2>1, <2>2 DEF SweepInv, FirstSweep, SecondSweep, FirstDone
  <2>4. pat = "done" /\ options.geometric => Has("geometric", p)
    BY <2>1 DEF SweepInv, SecondSweep, SecondDone
  <2> QED BY <2>3, <2>4, HasMends DEF P!Types
<1> QED BY <1>1, <1>2, SweepInvariance, PTL DEF ViewsComplete

(* A complete view is not computed again: what opens or closes a file is a    *)
(* worker whose view lacks its last file (mvs/patch_match.cc:410-414).        *)
LEMMA CompleteRests ==
    ASSUME P!ProblemsAssumption, SweepInv, [P!Next]_(P!vars),
           NEW t \in P!Types, NEW i \in Photos, \A n \in P!Wanted : File(t, i, n) = "whole"
    PROVE  files'[t][i] = files[t][i]
<1>1. LastPart \in {2, 3} /\ P!Wanted = 1 .. LastPart
  BY SweepTypes DEF SweepInv
<1>2. ASSUME NEW w \in Solving, pjob[w].step \in {"open", "write"}
      PROVE  <<type, RefOf(pjob[w].problem)>> # <<t, i>>
  <2> SUFFICES ASSUME type = t, RefOf(pjob[w].problem) = i PROVE FALSE
    OBVIOUS
  <2>1. SolvesRight(w)
    BY DEF SweepInv
  <2>2. LastPart \in P!Wanted /\ File(t, i, LastPart) = "whole"
    BY <1>1
  <2>3. pjob[w].step = "write" /\ pjob[w].part = LastPart
    BY <1>2, <2>1, <2>2 DEF SolvesRight
  <2>4. File(t, i, LastPart) = "torn"
    BY <2>1, <2>3 DEF SolvesRight
  <2> QED BY <2>2, <2>4
<1>3. ASSUME NEW w \in Workers, P!OpenFile(w) \/ P!CloseFile(w) PROVE files'[t][i] = files[t][i]
  <2>1. pjob[w].step \in {"open", "write"} /\ w \in Solving
    BY <1>3, SMTT(30) DEF P!OpenFile, P!CloseFile, Solving
  <2>2. \E s : files' = [files EXCEPT ![pjob[w].type][P!Problem(w).ref][P!Parts[pjob[w].part]] = s]
    BY <1>3 DEF P!OpenFile, P!CloseFile, P!Write
  <2>3. pjob[w].type = type /\ P!Problem(w).ref = RefOf(pjob[w].problem)
    BY <2>1, SolvingMeans DEF P!Problem, RefOf
  <2>4. ~(t = type /\ i = RefOf(pjob[w].problem))
    BY <1>2, <2>1
  <2>5. files \in [P!Types -> [Photos -> [PartNames -> States]]]
    BY SweepTypes, SMTT(30) DEF SweepInv
  <2> QED BY <2>2, <2>3, <2>4, <2>5
<1>4. (\E w \in Workers : P!OpenFile(w) \/ P!CloseFile(w)) \/ files' = files
  BY DEF P!Next, P!Controller, P!Work, P!BeginSweep, P!AddTask, P!EndSweep, P!Stop, P!Restart,
         P!Ended, P!vars, P!Begin, P!ListInputs, P!ReadInputs, P!ReadThrows
<1> QED BY <1>3, <1>4

(* A complete view is never computed again, and nothing writes to the mask   *)
(* of an image that is fused (mvs/patch_match.cc:410-414,                    *)
(* mvs/fusion.cc:301-304).                                                   *)
THEOREM DoneStays ==
    /\ P!ProblemsAssumption /\ P!Spec
    /\ F!FusionAssumption /\ F!Spec
    => DoneIsLeftAlone
<1> SUFFICES ASSUME P!ProblemsAssumption, F!FusionAssumption
             PROVE  P!Spec /\ F!Spec => DoneIsLeftAlone
  OBVIOUS
<1> DEFINE Rests ==
        \A t \in P!Types, i \in Photos :
            (\A n \in P!Wanted : files[t][i][P!Parts[n]] = "whole")
                => files'[t][i] = files[t][i]
<1>1. ASSUME SweepInv, [P!Next]_(P!vars) PROVE [Rests]_(P!vars)
  BY <1>1, CompleteRests DEF File
<1>2. P!Spec => P!CompleteViewsRest
  BY <1>1, SweepInvariance, PTL DEF P!Spec, P!CompleteViewsRest
<1>3. F!Spec => F!FusedImagesRest
  BY FusedStaysFused
<1> QED BY <1>2, <1>3 DEF DoneIsLeftAlone


-----------------------------------------------------------------------------
(* The hierarchical pipeline.  A path is a sequence of branches.              *)
LEMMA BranchIs == H!Branch = {0, 1} /\ 0 \in H!Branch /\ 1 \in H!Branch
BY DEF H!Branch

LEMMA PathsAre ==
    ASSUME H!ClusteringAssumption
    PROVE  \A p : p \in H!Paths <=> p \in Seq(H!Branch) /\ Len(p) <= MaxDepth
<1>1. MaxDepth \in Nat
  BY DEF H!ClusteringAssumption
<1>2. ASSUME NEW p \in H!Paths PROVE p \in Seq(H!Branch) /\ Len(p) <= MaxDepth
  <2>1. PICK n \in 0 .. MaxDepth : p \in [1 .. n -> H!Branch]
    BY DEF H!Paths
  <2>2. n \in Nat /\ n <= MaxDepth
    BY <1>1, <2>1
  <2>3. p \in Seq(H!Branch) /\ Len(p) = n
    <3>1. p \in Seq(H!Branch)
      BY <2>1, <2>2, IsASeq
    <3>2. DOMAIN p = 1 .. n /\ DOMAIN p = 1 .. Len(p) /\ Len(p) \in Nat
      BY <2>1, <3>1, LenProperties
    <3> QED BY <2>2, <3>1, <3>2
  <2> QED BY <2>2, <2>3
<1>3. ASSUME NEW p \in Seq(H!Branch), Len(p) <= MaxDepth PROVE p \in H!Paths
  <2>1. Len(p) \in 0 .. MaxDepth /\ p \in [1 .. Len(p) -> H!Branch]
    BY <1>1, <1>3, LenProperties
  <2> QED BY <2>1 DEF H!Paths
<1> QED BY <1>2, <1>3

(* The first n elements of a sequence. *)
LEMMA FirstOnes ==
    ASSUME NEW X, NEW s \in Seq(X), NEW n \in 0 .. Len(s)
    PROVE  /\ SubSeq(s, 1, n) \in Seq(X) /\ Len(SubSeq(s, 1, n)) = n
           /\ \A i \in 1 .. n : SubSeq(s, 1, n)[i] = s[i]
<1>1. Len(s) \in Nat /\ n \in Int /\ 1 \in Int /\ n \in Nat
  BY LenProperties
<1>2. \A i \in 1 .. n : i \in 1 .. Len(s)
  BY <1>1
<1>3. \A i \in 1 .. n : s[i] \in X
  BY <1>2, ElementOfSeq
<1>4. /\ SubSeq(s, 1, n) \in Seq(X)
      /\ Len(SubSeq(s, 1, n)) = IF 1 <= n THEN n - 1 + 1 ELSE 0
      /\ \A i \in 1 .. n - 1 + 1 : SubSeq(s, 1, n)[i] = s[1 + i - 1]
  BY <1>1, <1>3, SubSeqProperties
<1>5. Len(SubSeq(s, 1, n)) = n
  BY <1>1, <1>4
<1>6. \A i \in 1 .. n : i \in 1 .. n - 1 + 1 /\ 1 + i - 1 = i
  BY <1>1
<1> QED BY <1>4, <1>5, <1>6

(* The path of a child, and that of the parent. *)
LEMMA PathSteps ==
    ASSUME H!ClusteringAssumption, NEW p \in H!Paths
    PROVE  /\ Len(p) \in Nat /\ Len(p) <= MaxDepth /\ p \in Seq(H!Branch)
           /\ \A i \in 1 .. Len(p) : p[i] \in H!Branch
           /\ p # <<>> => /\ H!Front(p) \in H!Paths /\ Len(H!Front(p)) = Len(p) - 1
                          /\ H!Last(p) \in H!Branch /\ H!Last(p) = p[Len(p)] /\ Len(p) > 0
                          /\ \A i \in 1 .. Len(p) - 1 : H!Front(p)[i] = p[i]
                          /\ p = Append(H!Front(p), H!Last(p))
           /\ \A b \in H!Branch :
                 /\ Append(p, b) \in Seq(H!Branch) /\ Len(Append(p, b)) = Len(p) + 1
                 /\ Append(p, b) # <<>> /\ Append(p, b)[Len(p) + 1] = b
                 /\ \A i \in 1 .. Len(p) : Append(p, b)[i] = p[i]
                 /\ H!Front(Append(p, b)) = p /\ H!Last(Append(p, b)) = b
                 /\ Append(p, b) \in H!Paths <=> Len(p) < MaxDepth
<1>1. p \in Seq(H!Branch) /\ Len(p) \in Nat /\ Len(p) <= MaxDepth /\ MaxDepth \in Nat
  BY PathsAre, LenProperties DEF H!ClusteringAssumption
<1>2. \A i \in 1 .. Len(p) : p[i] \in H!Branch
  BY <1>1, ElementOfSeq
<1>3. ASSUME p # <<>>
      PROVE  /\ H!Front(p) \in H!Paths /\ Len(H!Front(p)) = Len(p) - 1
             /\ H!Last(p) \in H!Branch /\ H!Last(p) = p[Len(p)] /\ Len(p) > 0
             /\ \A i \in 1 .. Len(p) - 1 : H!Front(p)[i] = p[i]
             /\ p = Append(H!Front(p), H!Last(p))
  <2>1. Len(p) > 0
    BY <1>1, <1>3, EmptySeq
  <2>2. /\ H!Front(p) \in Seq(H!Branch) /\ Len(H!Front(p)) = Len(p) - 1
        /\ \A i \in 1 .. Len(p) - 1 : H!Front(p)[i] = p[i]
    <3>1. H!Front(p) = SubSeq(p, 1, Len(p) - 1)
      BY DEF H!Front
    <3>2. Len(p) - 1 \in 0 .. Len(p)
      BY <1>1, <2>1
    <3>3. /\ SubSeq(p, 1, Len(p) - 1) \in Seq(H!Branch)
          /\ Len(SubSeq(p, 1, Len(p) - 1)) = Len(p) - 1
          /\ \A i \in 1 .. Len(p) - 1 : SubSeq(p, 1, Len(p) - 1)[i] = p[i]
      BY <1>1, <3>2, FirstOnes
    <3> QED BY <3>1, <3>3
  <2>3. H!Last(p) = p[Len(p)] /\ p[Len(p)] \in H!Branch
    BY <1>1, <1>2, <2>1 DEF H!Last
  <2>4. H!Front(p) \in H!Paths
    BY <1>1, <2>2, PathsAre
  <2>5. p = Append(H!Front(p), H!Last(p))
    <3>1. /\ Append(H!Front(p), H!Last(p)) \in Seq(H!Branch)
          /\ Len(Append(H!Front(p), H!Last(p))) = Len(p)
          /\ \A i \in 1 .. Len(p) - 1 : Append(H!Front(p), H!Last(p))[i] = H!Front(p)[i]
          /\ Append(H!Front(p), H!Last(p))[Len(p)] = H!Last(p)
      BY <1>1, <2>1, <2>2, <2>3, AppendProperties
    <3>2. \A i \in 1 .. Len(p) : i = Len(p) \/ i \in 1 .. Len(p) - 1
      BY <1>1
    <3>3. \A i \in 1 .. Len(p) : Append(H!Front(p), H!Last(p))[i] = p[i]
      BY <2>2, <2>3, <3>1, <3>2
    <3> QED BY <1>1, <3>1, <3>3, SeqEqual
  <2> QED BY <2>1, <2>2, <2>3, <2>4, <2>5
<1>4. ASSUME NEW b \in H!Branch
      PROVE  /\ Append(p, b) \in Seq(H!Branch) /\ Len(Append(p, b)) = Len(p) + 1
             /\ Append(p, b) # <<>> /\ Append(p, b)[Len(p) + 1] = b
             /\ \A i \in 1 .. Len(p) : Append(p, b)[i] = p[i]
             /\ H!Front(Append(p, b)) = p /\ H!Last(Append(p, b)) = b
             /\ Append(p, b) \in H!Paths <=> Len(p) < MaxDepth
  <2> DEFINE q == Append(p, b)
  <2>1. /\ q \in Seq(H!Branch) /\ Len(q) = Len(p) + 1 /\ q[Len(p) + 1] = b
        /\ \A i \in 1 .. Len(p) : q[i] = p[i]
    BY <1>1, AppendProperties
  <2>2. q # <<>>
    BY <1>1, <2>1, EmptySeq
  <2> HIDE DEF q
  <2>3. H!Last(q) = b
    BY <2>1 DEF H!Last
  <2>4. H!Front(q) = p
    <3>1. H!Front(q) = SubSeq(q, 1, Len(p))
      BY <1>1, <2>1 DEF H!Front
    <3>2. Len(p) \in 0 .. Len(q)
      BY <1>1, <2>1
    <3>3. /\ SubSeq(q, 1, Len(p)) \in Seq(H!Branch)
          /\ Len(SubSeq(q, 1, Len(p))) = Len(p)
          /\ \A i \in 1 .. Len(p) : SubSeq(q, 1, Len(p))[i] = q[i]
      BY <2>1, <3>2, FirstOnes
    <3> QED BY <1>1, <2>1, <3>1, <3>3, SeqEqual
  <2>5. q \in H!Paths <=> Len(p) < MaxDepth
    BY <1>1, <2>1, PathsAre
  <2> QED BY <2>1, <2>2, <2>3, <2>4, <2>5 DEF q
<1> QED BY <1>1, <1>2, <1>3, <1>4

-----------------------------------------------------------------------------
(* What a function over the paths gives to the root and, from the value of    *)
(* its parent, to every other path.                                           *)
LEMMA TreeRecursion ==
    ASSUME H!ClusteringAssumption, NEW V, NEW a \in V, NEW G \in [H!Paths \X V -> V]
    PROVE  \E f \in [H!Paths -> V] :
              \A p \in H!Paths : f[p] = IF p = <<>> THEN a ELSE G[<<p, f[H!Front(p)]>>]
<1> DEFINE Value(f, p) == IF p = <<>> THEN a ELSE G[<<p, f[H!Front(p)]>>]
           S == {n \in Nat : \E f \in [H!Paths -> V] :
                                \A p \in H!Paths : Len(p) <= n => f[p] = Value(f, p)}
<1>1. 0 \in S
  <2> DEFINE f == [p \in H!Paths |-> a]
  <2>1. \A p \in H!Paths : Len(p) <= 0 => p = <<>>
    BY PathSteps
  <2>2. f \in [H!Paths -> V] /\ \A p \in H!Paths : Len(p) <= 0 => f[p] = Value(f, p)
    BY <2>1
  <2> QED BY <2>2
<1>2. ASSUME NEW n \in Nat, n \in S PROVE n + 1 \in S
  <2>1. PICK f \in [H!Paths -> V] : \A p \in H!Paths : Len(p) <= n => f[p] = Value(f, p)
    BY <1>2
  <2> DEFINE g == [p \in H!Paths |-> IF Len(p) <= n THEN f[p] ELSE Value(f, p)]
  <2>2. \A p \in H!Paths : Value(f, p) \in V
    BY PathSteps
  <2>3. g \in [H!Paths -> V]
    <3> HIDE DEF Value
    <3> QED BY <2>2
  <2>4. ASSUME NEW p \in H!Paths, Len(p) <= n + 1 PROVE g[p] = Value(g, p)
    <3>1. CASE p = <<>>
      BY <2>1, <3>1
    <3>2. CASE p # <<>>
      <4>1. H!Front(p) \in H!Paths /\ Len(H!Front(p)) <= n
        BY <2>4, <3>2, PathSteps
      <4>2. g[H!Front(p)] = f[H!Front(p)]
        BY <4>1
      <4>3. Value(g, p) = Value(f, p)
        BY <3>2, <4>2
      <4>4. g[p] = Value(f, p)
        BY <2>1
      <4> QED BY <4>3, <4>4
    <3> QED BY <3>1, <3>2
  <2> HIDE DEF g, Value
  <2>5. n + 1 \in Nat
    OBVIOUS
  <2> QED BY <2>3, <2>4, <2>5
<1>3. MaxDepth \in S
  <2> HIDE DEF S
  <2>1. Nat \subseteq S
    BY <1>1, <1>2, Induction
  <2> QED BY <2>1 DEF H!ClusteringAssumption
<1>4. PICK f \in [H!Paths -> V] : \A p \in H!Paths : Len(p) <= MaxDepth => f[p] = Value(f, p)
  BY <1>3
<1> QED BY <1>4, PathSteps

(* The images of a cluster, from those of its parent. *)
Own(c, S, p) == {i \in S : H!Label(c, i, S, Len(p)) = H!Last(p)}
Cut(c, S, p) == IF H!Partitioned(S) /\ Own(c, S, p) # S THEN Own(c, S, p) ELSE {}

LEMMA PartOfIs ==
    ASSUME H!ClusteringAssumption, NEW c \in Cuts
    PROVE  /\ H!PartOf(c) \in [H!Paths -> SUBSET SceneImages]
           /\ \A p \in H!Paths :
                 H!PartOf(c)[p] = IF p = <<>> THEN UNION H!Edges
                                  ELSE Cut(c, H!PartOf(c)[H!Front(p)], p)
<1> DEFINE V == SUBSET SceneImages
           G == [x \in H!Paths \X V |-> Cut(c, x[2], x[1])]
           Rec(f) == f = [p \in H!Paths |->
                            IF p = <<>> THEN UNION H!Edges
                            ELSE LET S == f[H!Front(p)]
                                     own == {i \in S : H!Label(c, i, S, Len(p)) = H!Last(p)}
                                 IN  IF H!Partitioned(S) /\ own # S THEN own ELSE {}]
<1>1. UNION H!Edges \in V
  BY DEF H!ClusteringAssumption
<1>2. \A p \in H!Paths, S \in V : Cut(c, S, p) \in V
  BY DEF Cut, Own
<1>3. G \in [H!Paths \X V -> V]
  <2> HIDE DEF V
  <2> QED BY <1>2
<1>4. PICK f \in [H!Paths -> V] :
          \A p \in H!Paths : f[p] = IF p = <<>> THEN UNION H!Edges ELSE G[<<p, f[H!Front(p)]>>]
  <2> HIDE DEF V, G
  <2> QED BY <1>1, <1>3, TreeRecursion
<1>5. \A p \in H!Paths : f[p] = IF p = <<>> THEN UNION H!Edges ELSE Cut(c, f[H!Front(p)], p)
  <2> SUFFICES ASSUME NEW p \in H!Paths, p # <<>> PROVE f[p] = Cut(c, f[H!Front(p)], p)
    BY <1>4
  <2>1. H!Front(p) \in H!Paths
    BY PathSteps
  <2>2. G[<<p, f[H!Front(p)]>>] = Cut(c, f[H!Front(p)], p)
    BY <1>4, <2>1
  <2> QED BY <1>4, <2>2
<1>6. Rec(f)
  <2>1. f = [p \in H!Paths |-> f[p]]
    BY <1>4
  <2> HIDE DEF G, V
  <2> QED BY <1>5, <2>1 DEF Cut, Own
<1>7. H!PartOf(c) = CHOOSE g : Rec(g)
  BY DEF H!PartOf
<1>8. Rec(H!PartOf(c))
  <2> HIDE DEF Rec
  <2> QED BY <1>6, <1>7
<1> DEFINE g == H!PartOf(c)
<1>9. \A p \in H!Paths : g[p] = IF p = <<>> THEN UNION H!Edges ELSE Cut(c, g[H!Front(p)], p)
  <2> HIDE DEF g
  <2>1. Rec(g)
    BY <1>8 DEF g
  <2> QED BY ONLY <2>1 DEF Cut, Own
<1>10. g = [p \in H!Paths |-> g[p]]
  <2> HIDE DEF g
  <2>1. Rec(g)
    BY <1>8 DEF g
  <2> QED BY ONLY <2>1
<1>11. \A p \in H!Paths : g[p] \in V
  <2> DEFINE N == {n \in Nat : \A p \in H!Paths : Len(p) <= n => g[p] \in V}
  <2> HIDE DEF g, V
  <2>1. 0 \in N
    <3>1. \A p \in H!Paths : Len(p) <= 0 => p = <<>>
      BY PathSteps
    <3> QED BY <1>1, <1>9, <3>1
  <2>2. ASSUME NEW n \in Nat, n \in N PROVE n + 1 \in N
    <3>1. ASSUME NEW p \in H!Paths, Len(p) <= n + 1 PROVE g[p] \in V
      <4>1. CASE p = <<>>
        BY <1>1, <1>9, <4>1
      <4>2. CASE p # <<>>
        <5>1. H!Front(p) \in H!Paths /\ Len(H!Front(p)) <= n
          BY <3>1, <4>2, PathSteps
        <5>2. g[H!Front(p)] \in V
          BY <2>2, <5>1
        <5> QED BY <1>2, <1>9, <4>2, <5>2
      <4> QED BY <4>1, <4>2
    <3> QED BY <3>1
  <2>3. MaxDepth \in N
    <3> HIDE DEF N
    <3>1. Nat \subseteq N
      BY <2>1, <2>2, Induction
    <3> QED BY <3>1 DEF H!ClusteringAssumption
  <2> QED BY <2>3, PathSteps
<1>12. g \in [H!Paths -> V]
  <2> HIDE DEF g, V
  <2> QED BY <1>10, <1>11
<1> QED BY <1>9, <1>12

(* The clusters: a cluster that is not the root lies in one, and a cluster is *)
(* divided between two children or has none.                                  *)
Divided == \E c \in Cuts : part = H!PartOf(c)

LEMMA ClustersAre ==
    ASSUME H!ClusteringAssumption, Divided
    PROVE  /\ part \in [H!Paths -> SUBSET SceneImages] /\ part[<<>>] = UNION H!Edges
           /\ <<>> \in H!Paths /\ <<>> \in H!Clusters /\ H!Clusters \subseteq H!Paths
           /\ \A p \in H!Clusters : p # <<>> => H!Front(p) \in H!Clusters
           /\ \A p \in H!Clusters : H!Children(p) # {} =>
                 /\ H!Children(p) = {Append(p, 0), Append(p, 1)}
                 /\ part[p] = part[Append(p, 0)] \cup part[Append(p, 1)]
                 /\ part[Append(p, 0)] \cap part[Append(p, 1)] = {}
                 /\ part[Append(p, 0)] # {} /\ part[Append(p, 1)] # {}
<1>1. PICK c \in Cuts : part = H!PartOf(c)
  BY DEF Divided
<1>2. /\ part \in [H!Paths -> SUBSET SceneImages]
      /\ \A p \in H!Paths : part[p] = IF p = <<>> THEN UNION H!Edges
                                      ELSE Cut(c, part[H!Front(p)], p)
  BY <1>1, PartOfIs
<1>3. <<>> \in H!Paths /\ <<>> \in H!Clusters /\ H!Clusters \subseteq H!Paths
  <2>1. <<>> \in H!Paths
    <3>1. <<>> \in Seq(H!Branch) /\ Len(<<>>) = 0
      BY EmptySeq
    <3>2. 0 <= MaxDepth
      BY DEF H!ClusteringAssumption
    <3> QED BY <3>1, <3>2, PathsAre
  <2> QED BY <2>1 DEF H!Clusters
<1>4. ASSUME NEW p \in H!Clusters, p # <<>> PROVE H!Front(p) \in H!Clusters
  <2>1. p \in H!Paths /\ part[p] # {} /\ H!Front(p) \in H!Paths
    BY <1>3, <1>4, PathSteps DEF H!Clusters
  <2>2. part[p] = Cut(c, part[H!Front(p)], p)
    BY <1>2, <1>4, <2>1
  <2>3. part[H!Front(p)] # {}
    BY <2>1, <2>2 DEF Cut, Own
  <2> QED BY <2>1, <2>3 DEF H!Clusters
<1>5. ASSUME NEW p \in H!Clusters, H!Children(p) # {}
      PROVE  /\ H!Children(p) = {Append(p, 0), Append(p, 1)}
             /\ part[p] = part[Append(p, 0)] \cup part[Append(p, 1)]
             /\ part[Append(p, 0)] \cap part[Append(p, 1)] = {}
             /\ part[Append(p, 0)] # {} /\ part[Append(p, 1)] # {}
  <2> DEFINE q == Append(p, 0)
             r == Append(p, 1)
             S == part[p]
  <2>1. p \in H!Paths /\ Len(p) \in Nat
    BY <1>3, PathSteps
  <2>2. H!Children(p) = {q, r} \cap H!Clusters
    BY BranchIs DEF H!Children
  <2>3. /\ q \in H!Paths <=> Len(p) < MaxDepth
        /\ r \in H!Paths <=> Len(p) < MaxDepth
        /\ q # <<>> /\ r # <<>> /\ H!Front(q) = p /\ H!Front(r) = p
        /\ H!Last(q) = 0 /\ H!Last(r) = 1 /\ Len(q) = Len(p) + 1 /\ Len(r) = Len(p) + 1
    BY <2>1, BranchIs, PathSteps
  <2> HIDE DEF q, r
  <2>4. Len(p) < MaxDepth /\ q \in H!Paths /\ r \in H!Paths
    BY <1>3, <1>5, <2>2, <2>3
  <2>5. part[q] = Cut(c, S, q) /\ part[r] = Cut(c, S, r)
    BY <1>2, <2>3, <2>4
  <2>6. part[q] # {} \/ part[r] # {}
    BY <1>5, <2>2, <2>3 DEF H!Clusters
  <2>7. \A i \in S : H!Label(c, i, S, Len(p) + 1) \in {0, 1}
    <3>1. Len(p) + 1 \in 1 .. MaxDepth
      BY <2>1, <2>4 DEF H!ClusteringAssumption
    <3>2. S \subseteq SceneImages /\ c \in [SceneImages -> [1 .. MaxDepth -> H!Branch]]
      BY <1>1, <1>2, <2>1 DEF H!ClusteringAssumption
    <3> QED BY <3>1, <3>2, BranchIs DEF H!Label
  <2>8. /\ Own(c, S, q) = {i \in S : H!Label(c, i, S, Len(p) + 1) = 0}
        /\ Own(c, S, r) = {i \in S : H!Label(c, i, S, Len(p) + 1) = 1}
    BY <2>3 DEF Own
  <2>9. /\ Own(c, S, q) \cup Own(c, S, r) = S /\ Own(c, S, q) \cap Own(c, S, r) = {}
    BY <2>7, <2>8
  <2>10. /\ part[q] = Own(c, S, q) /\ part[r] = Own(c, S, r)
         /\ part[q] # {} /\ part[r] # {}
    BY <2>5, <2>6, <2>9 DEF Cut
  <2>11. q \in H!Clusters /\ r \in H!Clusters
    BY <2>4, <2>10 DEF H!Clusters
  <2> QED BY <2>2, <2>9, <2>10, <2>11 DEF q, r
<1> QED BY <1>2, <1>3, <1>4, <1>5

LEMMA ChildrenBelow ==
    ASSUME H!ClusteringAssumption, Divided, NEW p \in H!Clusters, NEW q \in H!Children(p)
    PROVE  q \in H!Clusters /\ H!Front(q) = p /\ q # <<>> /\ Len(q) = Len(p) + 1
<1>1. PICK b \in H!Branch : q = Append(p, b) /\ q \in H!Clusters
  BY DEF H!Children
<1>2. p \in H!Paths
  BY ClustersAre
<1> QED BY <1>1, <1>2, PathSteps

-----------------------------------------------------------------------------
(* q lies below p in the tree of the clusters. *)
Below(q, p) == Len(p) < Len(q) /\ \A i \in 1 .. Len(p) : q[i] = p[i]
Antichain(D) == \A p, q \in D : ~Below(q, p)

LEMMA PrefixesAreClusters ==
    ASSUME H!ClusteringAssumption, Divided, NEW q \in H!Clusters, NEW n \in 0 .. Len(q)
    PROVE  SubSeq(q, 1, n) \in H!Clusters
<1> DEFINE Good(k) == k <= Len(q) => SubSeq(q, 1, Len(q) - k) \in H!Clusters
           S == {k \in Nat : Good(k)}
<1>1. q \in H!Paths /\ Len(q) \in Nat /\ q \in Seq(H!Branch) /\ n \in Nat
  BY ClustersAre, PathSteps
<1>2. 0 \in S
  <2>1. SubSeq(q, 1, Len(q)) = q /\ Len(q) - 0 = Len(q)
    BY <1>1, SubSeqFull
  <2> QED BY <2>1
<1>3. ASSUME NEW k \in Nat, k \in S PROVE k + 1 \in S
  <2> SUFFICES ASSUME k + 1 <= Len(q) PROVE SubSeq(q, 1, Len(q) - (k + 1)) \in H!Clusters
    OBVIOUS
  <2> DEFINE m == Len(q) - k
             s == SubSeq(q, 1, m)
             t == SubSeq(q, 1, m - 1)
  <2>1. s \in H!Clusters /\ m \in 0 .. Len(q) /\ m - 1 \in 0 .. Len(q) /\ m # 0 /\ m \in Nat
    BY <1>1, <1>3
  <2>2. Len(s) = m /\ \A i \in 1 .. m : s[i] = q[i]
    BY <1>1, <2>1, FirstOnes
  <2>3. t \in Seq(H!Branch) /\ Len(t) = m - 1 /\ \A i \in 1 .. m - 1 : t[i] = q[i]
    BY <1>1, <2>1, FirstOnes
  <2> HIDE DEF s, t, m
  <2>4. s \in H!Paths /\ s # <<>>
    <3>1. s \in H!Paths
      BY <2>1, ClustersAre
    <3> QED BY <2>1, <2>2, <3>1, EmptySeq
  <2>5. /\ H!Front(s) \in Seq(H!Branch) /\ Len(H!Front(s)) = m - 1
        /\ \A i \in 1 .. m - 1 : H!Front(s)[i] = s[i]
    BY <2>2, <2>4, PathSteps
  <2>6. H!Front(s) = t
    <3>1. \A i \in 1 .. m - 1 : i \in 1 .. m
      BY <2>1
    <3>2. \A i \in 1 .. m - 1 : H!Front(s)[i] = t[i]
      BY <2>2, <2>3, <2>5, <3>1
    <3> QED BY <2>3, <2>5, <3>2, SeqEqual
  <2>7. t \in H!Clusters
    BY <2>1, <2>4, <2>6, ClustersAre
  <2>8. m - 1 = Len(q) - (k + 1)
    BY <1>1 DEF m
  <2> QED BY <2>7, <2>8 DEF t
<1>4. Len(q) - n \in S
  <2> HIDE DEF S
  <2>1. Nat \subseteq S
    BY <1>2, <1>3, Induction
  <2> QED BY <1>1, <2>1
<1>5. Len(q) - n <= Len(q) /\ Len(q) - (Len(q) - n) = n
  BY <1>1
<1> QED BY <1>4, <1>5

LEMMA BelowAChild ==
    ASSUME H!ClusteringAssumption, Divided, NEW p \in H!Clusters, NEW q \in H!Clusters, Below(q, p)
    PROVE  \E c \in H!Children(p) : c = q \/ Below(q, c)
<1> DEFINE n == Len(p) + 1
           b == q[n]
           c == Append(p, b)
<1>1. /\ p \in H!Paths /\ q \in H!Paths /\ Len(p) \in Nat /\ Len(q) \in Nat
      /\ p \in Seq(H!Branch) /\ q \in Seq(H!Branch)
  BY ClustersAre, PathSteps
<1>2. n \in 0 .. Len(q) /\ n \in 1 .. Len(q) /\ n <= Len(q) /\ n \in Nat
  BY <1>1 DEF Below
<1>3. b \in H!Branch
  BY <1>1, <1>2, PathSteps
<1>4. /\ c \in Seq(H!Branch) /\ Len(c) = n /\ c[n] = b
      /\ \A i \in 1 .. Len(p) : c[i] = p[i]
  BY <1>1, <1>3, PathSteps
<1>5. SubSeq(q, 1, n) \in H!Clusters
  BY <1>2, PrefixesAreClusters
<1>6. /\ SubSeq(q, 1, n) \in Seq(H!Branch) /\ Len(SubSeq(q, 1, n)) = n
      /\ \A i \in 1 .. n : SubSeq(q, 1, n)[i] = q[i]
  BY <1>1, <1>2, FirstOnes
<1> HIDE DEF c
<1>7. \A i \in 1 .. n : c[i] = q[i]
  <2>1. \A i \in 1 .. n : i = n \/ i \in 1 .. Len(p)
    BY <1>1
  <2> HIDE DEF n
  <2> QED BY <1>4, <2>1 DEF Below
<1>8. c = SubSeq(q, 1, n)
  <2> HIDE DEF n
  <2>1. \A i \in 1 .. Len(c) : c[i] = SubSeq(q, 1, n)[i]
    BY <1>4, <1>6, <1>7
  <2> QED BY <1>4, <1>6, <2>1, SeqEqual
<1>9. c \in H!Children(p)
  <2> HIDE DEF n, b
  <2> QED BY <1>3, <1>5, <1>8 DEF H!Children, c
<1>10. CASE n = Len(q)
  <2>1. c = q
    <3> HIDE DEF n, b
    <3> QED BY <1>1, <1>4, <1>7, <1>10, SeqEqual
  <2> QED BY <1>9, <2>1
<1>11. CASE n # Len(q)
  <2>1. Below(q, c)
    <3>1. n < Len(q)
      BY <1>1, <1>2, <1>11
    <3> HIDE DEF n, b
    <3> QED BY <1>4, <1>7, <3>1 DEF Below
  <2> QED BY <1>9, <2>1
<1> QED BY <1>10, <1>11

(* A child lies below all that its parent lies below, and below that. *)
LEMMA ChildrenAreBelow ==
    ASSUME H!ClusteringAssumption, Divided, NEW m \in H!Clusters, NEW c \in H!Children(m)
    PROVE  /\ Below(c, m)
           /\ \A p \in H!Clusters : Below(m, p) => Below(c, p)
<1>1. PICK b \in H!Branch : c = Append(m, b)
  BY DEF H!Children
<1>2. m \in H!Paths /\ \A p \in H!Clusters : p \in H!Paths /\ Len(p) \in Nat
  BY ClustersAre, PathSteps
<1>3. Len(m) \in Nat /\ Len(c) = Len(m) + 1 /\ \A i \in 1 .. Len(m) : c[i] = m[i]
  BY <1>1, <1>2, PathSteps
<1>4. Below(c, m)
  BY <1>3 DEF Below
<1>5. ASSUME NEW p \in H!Clusters, Below(m, p) PROVE Below(c, p)
  <2>1. Len(p) \in Nat /\ \A i \in 1 .. Len(p) : i \in 1 .. Len(m)
    BY <1>2, <1>3, <1>5 DEF Below
  <2>2. Len(p) < Len(c)
    BY <1>3, <1>5, <2>1 DEF Below
  <2> QED BY <1>3, <1>5, <2>1, <2>2 DEF Below
<1> QED BY <1>4, <1>5

LEMMA LeavesAntichain ==
    ASSUME H!ClusteringAssumption, Divided
    PROVE  Antichain(H!Leaves)
BY BelowAChild DEF Antichain, H!Leaves

(* When a cluster takes the place of its children, no two of those that have  *)
(* models lie below one another, if none did before.                          *)
LEMMA AntichainMerged ==
    ASSUME H!ClusteringAssumption, Divided, NEW D \in SUBSET H!Clusters, Antichain(D),
           NEW m \in H!Clusters, H!Children(m) \subseteq D, H!Children(m) # {}
    PROVE  /\ m \notin D
           /\ Antichain((D \cup {m}) \ H!Children(m))
<1>1. \A c \in H!Children(m) : c \in D /\ c \in H!Clusters /\ Below(c, m)
  BY ChildrenAreBelow
<1>2. m \notin D
  BY <1>1 DEF Antichain
<1>3. ASSUME NEW p \in (D \cup {m}) \ H!Children(m), NEW q \in (D \cup {m}) \ H!Children(m),
             Below(q, p)
      PROVE  FALSE
  <2>0. p \in H!Clusters /\ q \in H!Clusters
    OBVIOUS
  <2>1. CASE p \in D /\ q \in D
    BY <1>3, <2>1 DEF Antichain
  <2>2. CASE p = m
    <3>1. PICK c \in H!Children(m) : c = q \/ Below(q, c)
      BY <1>3, <2>0, <2>2, BelowAChild
    <3>2. q # m
      BY <1>3, <2>0, <2>2, ClustersAre, PathSteps DEF Below
    <3> QED BY <1>1, <3>1, <3>2 DEF Antichain
  <2>3. CASE q = m /\ p \in D
    <3>1. PICK c \in H!Children(m) : TRUE
      OBVIOUS
    <3>2. Below(c, p)
      BY <1>3, <2>0, <2>3, ChildrenAreBelow
    <3> QED BY <1>1, <2>3, <3>2 DEF Antichain
  <2> QED BY <2>1, <2>2, <2>3
<1> QED BY <1>2, <1>3 DEF Antichain

LEMMA AntichainRoot ==
    ASSUME H!ClusteringAssumption, Divided, NEW D \in SUBSET H!Clusters, Antichain(D), <<>> \in D
    PROVE  D = {<<>>}
<1>1. ASSUME NEW q \in D, q # <<>> PROVE FALSE
  <2>1. q \in H!Paths
    BY ClustersAre
  <2>2. Len(q) > 0 /\ Len(<<>>) = 0
    BY <1>1, <2>1, PathSteps, EmptySeq
  <2>3. Below(q, <<>>)
    BY <2>2 DEF Below
  <2> QED BY <2>3 DEF Antichain
<1> QED BY <1>1

-----------------------------------------------------------------------------
(* The images in some models, and those in the models of all the managers.    *)
Shown(ms) == UNION H!Range(ms)
HeldIn(f) == UNION {Shown(f[p]) : p \in DOMAIN f}

Models == Seq(SUBSET SceneImages)
LeavesMapped == {mapping[w] : w \in {v \in Workers : mapping[v] # H!NoLeaf}}
OnTheWay == F!Range(ctasks) \cup LeavesMapped

(* The managers whose models are there keep them.                             *)
SettledStay ==
    \A q \in DOMAIN managers' \ OnTheWay' :
        q \in DOMAIN managers \ OnTheWay /\ managers'[q] = managers[q]

(* A leaf is on its way to a mapper once, and its manager is still empty.     *)
LeavesOnce ==
    /\ Distinct(ctasks)
    /\ \A v, w \in Workers : mapping[v] = mapping[w] /\ mapping[v] # H!NoLeaf => v = w
    /\ LeavesMapped \cap F!Range(ctasks) = {}
    /\ \A p \in OnTheWay : p \in H!Leaves /\ p \in DOMAIN managers /\ managers[p] = <<>>

(* What is merged at a time has children, which have models, and these have   *)
(* the images of the models that are left of them.                            *)
MergingRight ==
    merging.busy =>
        /\ cat = "merge" /\ merging.cluster \in H!Clusters
        /\ H!Children(merging.cluster) # {} /\ H!Children(merging.cluster) \subseteq DOMAIN managers
        /\ Shown(merging.models) = UNION {Shown(managers[c]) : c \in H!Children(merging.cluster)}

ClusterInv ==
    /\ H!TypeOK /\ Divided /\ LeavesOnce /\ MergingRight
    /\ cat = "map" => DOMAIN managers \subseteq H!Leaves
    /\ cat # "map" => OnTheWay = {}
    /\ Antichain(DOMAIN managers)
    /\ found = HeldIn(managers)
    /\ cat = "done" => DOMAIN managers = {<<>>} /\ managers[<<>>] # <<>>
    /\ cat = "threw" => cfailed \/ (DOMAIN managers = {<<>>} /\ managers[<<>>] = <<>>)

-----------------------------------------------------------------------------
LEMMA ShownIs == \A s : Shown(s) = UNION F!Range(s)
BY DEF Shown, H!Range, F!Range

LEMMA ShownNone == Shown(<<>>) = {}
BY RangeEmpty, ShownIs

LEMMA SameTree ==
    ASSUME part' = part
    PROVE  /\ H!Clusters' = H!Clusters /\ H!Leaves' = H!Leaves
           /\ \A p : H!Children(p)' = H!Children(p)
           /\ \A p : H!ImagesOf(p)' = H!ImagesOf(p)
           /\ Divided' = Divided
<1>1. H!Clusters' = H!Clusters
  BY DEF H!Clusters
<1>2. \A p : H!Children(p)' = H!Children(p)
  BY <1>1 DEF H!Children
<1>3. H!Leaves' = H!Leaves
  BY <1>1, <1>2 DEF H!Leaves
<1>4. \A p : H!ImagesOf(p)' = H!ImagesOf(p)
  BY DEF H!ImagesOf, H!Overlapping, H!Neighbours, H!Best, H!Across
<1>5. Divided' = Divided
  BY DEF Divided
<1> QED BY <1>1, <1>2, <1>3, <1>4, <1>5

LEMMA ImagesOfType ==
    ASSUME H!ClusteringAssumption, Divided, NEW p \in H!Clusters
    PROVE  H!ImagesOf(p) \subseteq SceneImages
<1>1. part[p] \subseteq SceneImages
  BY ClustersAre
<1>2. \A q : H!Overlapping(q) \subseteq SceneImages
  <2>1. \A e \in H!Edges : e \subseteq SceneImages
    BY DEF H!ClusteringAssumption
  <2>2. \A q : H!Across(q) \subseteq H!Edges
    BY DEF H!Across, H!Within
  <2> QED BY <2>1, <2>2 DEF H!Overlapping, H!Neighbours
<1> QED BY <1>1, <1>2 DEF H!ImagesOf

(* What is left of a sequence without one of its elements. *)
LEMMA RemovedAt ==
    ASSUME NEW X, NEW s \in Seq(X), NEW j \in 1 .. Len(s)
    PROVE  /\ H!RemoveAt(s, j) \in Seq(X) /\ Len(H!RemoveAt(s, j)) = Len(s) - 1
           /\ \A k \in 1 .. Len(s) - 1 : H!RemoveAt(s, j)[k] = IF k < j THEN s[k] ELSE s[k + 1]
           /\ F!Range(H!RemoveAt(s, j)) = {s[k] : k \in (1 .. Len(s)) \ {j}}
<1> DEFINE n == Len(s)
           t == SubSeq(s, 1, j - 1)
           u == SubSeq(s, j + 1, n)
           r == H!RemoveAt(s, j)
<1>1. n \in Nat /\ j \in Nat /\ 1 <= j /\ j <= n /\ \A i \in 1 .. n : s[i] \in X
  BY LenProperties, ElementOfSeq
<1>2. /\ t \in Seq(X) /\ Len(t) = j - 1 /\ \A i \in 1 .. j - 1 : t[i] = s[i]
  <2>1. j - 1 \in 0 .. Len(s)
    BY <1>1
  <2> QED BY <2>1, FirstOnes
<1>3. /\ u \in Seq(X) /\ Len(u) = n - j /\ \A i \in 1 .. n - j : u[i] = s[i + j]
  <2>1. j + 1 \in Int /\ n \in Int /\ \A i \in j + 1 .. n : i \in 1 .. n
    BY <1>1
  <2> DEFINE a == j + 1
  <2>2. \A i \in a .. n : s[i] \in X
    BY <1>1, <2>1
  <2> HIDE DEF a
  <2>3. /\ SubSeq(s, a, n) \in Seq(X)
        /\ Len(SubSeq(s, a, n)) = IF a <= n THEN n - a + 1 ELSE 0
        /\ \A i \in 1 .. n - a + 1 : SubSeq(s, a, n)[i] = s[a + i - 1]
    <3>1. a \in Int
      BY <2>1 DEF a
    <3> HIDE DEF n
    <3> QED BY <2>1, <2>2, <3>1, SubSeqProperties
  <2>4. Len(SubSeq(s, a, n)) = n - j
    BY <1>1, <2>3 DEF a
  <2>5. \A i \in 1 .. n - j : i \in 1 .. n - a + 1 /\ a + i - 1 = i + j
    BY <1>1 DEF a
  <2> QED BY <2>3, <2>4, <2>5 DEF a
<1>4. r = t \o u
  BY DEF H!RemoveAt
<1> HIDE DEF t, u, r
<1>5. /\ t \o u \in Seq(X) /\ Len(t \o u) = Len(t) + Len(u)
      /\ \A i \in 1 .. Len(t) + Len(u) : (t \o u)[i] = IF i <= Len(t) THEN t[i] ELSE u[i - Len(t)]
  BY <1>2, <1>3, ConcatProperties
<1>6. r \in Seq(X) /\ Len(r) = n - 1
  BY <1>1, <1>2, <1>3, <1>4, <1>5
<1>7. ASSUME NEW k \in 1 .. n - 1 PROVE r[k] = IF k < j THEN s[k] ELSE s[k + 1]
  <2>1. k \in 1 .. Len(t) + Len(u) /\ k \in Nat
    BY <1>1, <1>2, <1>3
  <2>2. r[k] = IF k <= j - 1 THEN t[k] ELSE u[k - (j - 1)]
    BY <1>2, <1>4, <1>5, <2>1
  <2>3. CASE k < j
    <3>1. k <= j - 1 /\ k \in 1 .. j - 1
      BY <1>1, <2>1, <2>3
    <3> QED BY <1>2, <2>2, <2>3, <3>1
  <2>4. CASE ~(k < j)
    <3>1. ~(k <= j - 1) /\ k - (j - 1) \in 1 .. n - j /\ k - (j - 1) + j = k + 1
      BY <1>1, <2>1, <2>4
    <3>2. u[k - (j - 1)] = s[k - (j - 1) + j]
      BY <1>3, <3>1
    <3> QED BY <2>2, <2>4, <3>1, <3>2
  <2> QED BY <2>3, <2>4
<1>8. F!Range(r) = {s[k] : k \in (1 .. n) \ {j}}
  <2>1. F!Range(r) = {r[k] : k \in 1 .. n - 1}
    BY <1>6, RangeIs, LenProperties
  <2>2. ASSUME NEW k \in 1 .. n - 1 PROVE r[k] \in {s[i] : i \in (1 .. n) \ {j}}
    <3>1. k \in Nat /\ (k < j => k \in (1 .. n) \ {j}) /\ (~(k < j) => k + 1 \in (1 .. n) \ {j})
      BY <1>1
    <3> HIDE DEF n
    <3> QED BY <1>7, <3>1
  <2>3. ASSUME NEW k \in (1 .. n) \ {j} PROVE s[k] \in {r[i] : i \in 1 .. n - 1}
    <3>1. CASE k < j
      <4>1. k \in 1 .. n - 1
        BY <1>1, <3>1
      <4> QED BY <1>7, <3>1, <4>1
    <3>2. CASE ~(k < j)
      <4>1. k - 1 \in 1 .. n - 1 /\ ~(k - 1 < j) /\ k - 1 + 1 = k
        BY <1>1, <3>2
      <4> HIDE DEF n
      <4> QED BY <1>7, <4>1
    <3> QED BY <3>1, <3>2
  <2> HIDE DEF n
  <2> QED BY <2>1, <2>2, <2>3
<1> QED BY <1>6, <1>7, <1>8 DEF r

LEMMA FirstPair ==
    ASSUME NEW S \in SUBSET (Nat \X Nat), S # {}
    PROVE  H!First(S) \in S
<1>1. PICK a \in {x[1] : x \in S} : \A y \in {x[1] : x \in S} : a <= y
  <2>1. {x[1] : x \in S} \in SUBSET Nat /\ {x[1] : x \in S} # {}
    OBVIOUS
  <2> QED BY <2>1, Least
<1>2. PICK b \in {x[2] : x \in {y \in S : y[1] = a}} :
          \A z \in {x[2] : x \in {y \in S : y[1] = a}} : b <= z
  <2>1. /\ {x[2] : x \in {y \in S : y[1] = a}} \in SUBSET Nat
        /\ {x[2] : x \in {y \in S : y[1] = a}} # {}
    BY <1>1
  <2> QED BY <2>1, Least
<1>3. PICK x \in S : x[1] = a /\ x[2] = b
  BY <1>2
<1>4. \A y \in S : x[1] < y[1] \/ (x[1] = y[1] /\ x[2] <= y[2])
  <2> SUFFICES ASSUME NEW y \in S PROVE x[1] < y[1] \/ (x[1] = y[1] /\ x[2] <= y[2])
    OBVIOUS
  <2>1. a <= y[1] /\ a \in Nat /\ y[1] \in Nat
    BY <1>1
  <2>2. CASE y[1] = a
    <3>1. b <= y[2]
      BY <1>2, <2>2
    <3> QED BY <1>3, <2>2, <3>1
  <2>3. CASE y[1] # a
    BY <1>3, <2>1, <2>3
  <2> QED BY <2>2, <2>3
<1> QED BY <1>3, <1>4 DEF H!First

(* Merging two models keeps the images of both. *)
LEMMA MergedShows ==
    ASSUME merging.models \in Models,
           NEW i \in DOMAIN merging.models, NEW j \in DOMAIN merging.models, i # j
    PROVE  /\ H!Merged(i, j) \in Models
           /\ Shown(H!Merged(i, j)) = Shown(merging.models)
<1> DEFINE s == merging.models
           t == [s EXCEPT ![i] = @ \cup s[j]]
<1>1. /\ s \in Models /\ DOMAIN s = 1 .. Len(s) /\ Len(s) \in Nat
      /\ \A k \in 1 .. Len(s) : s[k] \in SUBSET SceneImages
  BY LenProperties, ElementOfSeq DEF Models
<1>2. H!Merged(i, j) = H!RemoveAt(t, j)
  BY DEF H!Merged
<1>3. /\ t \in Models /\ Len(t) = Len(s)
      /\ \A k \in 1 .. Len(s) : t[k] = IF k = i THEN s[i] \cup s[j] ELSE s[k]
  <2> HIDE DEF s
  <2>1. s[i] \cup s[j] \in SUBSET SceneImages
    BY <1>1 DEF s
  <2>2. i \in 1 .. Len(s)
    BY <1>1 DEF s
  <2> QED BY <1>1, <2>1, <2>2, ExceptSeq DEF Models
<1> HIDE DEF s, t
<1>4. i \in 1 .. Len(s) /\ j \in 1 .. Len(s)
  BY <1>1 DEF s
<1>5. H!RemoveAt(t, j) \in Models /\ F!Range(H!RemoveAt(t, j)) = {t[k] : k \in (1 .. Len(s)) \ {j}}
  <2>1. t \in Seq(SUBSET SceneImages) /\ j \in 1 .. Len(t)
    BY <1>3, <1>4 DEF Models
  <2> QED BY <1>3, <2>1, RemovedAt DEF Models
<1>6. Shown(s) = UNION {s[k] : k \in 1 .. Len(s)}
  BY <1>1, ShownIs, RangeIs
<1>7. Shown(H!RemoveAt(t, j)) = UNION {t[k] : k \in (1 .. Len(s)) \ {j}}
  BY <1>5, ShownIs
<1>8. UNION {t[k] : k \in (1 .. Len(s)) \ {j}} = UNION {s[k] : k \in 1 .. Len(s)}
  <2>1. \A k \in (1 .. Len(s)) \ {j} : t[k] \subseteq UNION {s[l] : l \in 1 .. Len(s)}
    BY <1>3, <1>4
  <2>2. \A k \in 1 .. Len(s) : s[k] \subseteq UNION {t[l] : l \in (1 .. Len(s)) \ {j}}
    <3>1. t[i] = s[i] \cup s[j] /\ i \in (1 .. Len(s)) \ {j}
      BY <1>3, <1>4
    <3>2. \A k \in (1 .. Len(s)) \ {j} : s[k] \subseteq t[k]
      BY <1>3
    <3> QED BY <1>4, <3>1, <3>2
  <2> QED BY <2>1, <2>2
<1> QED BY <1>2, <1>5, <1>6, <1>7, <1>8 DEF s

LEMMA PutIs ==
    ASSUME NEW p, NEW ms
    PROVE  /\ DOMAIN H!Put(p, ms) = DOMAIN managers \cup {p}
           /\ H!Put(p, ms)[p] = ms
           /\ \A q \in DOMAIN managers : q # p => H!Put(p, ms)[q] = managers[q]
BY DEF H!Put

LEMMA OneMoreHolds ==
    ASSUME NEW f, NEW g, NEW p, DOMAIN g = DOMAIN f \cup {p},
           \A q \in DOMAIN f : q # p => g[q] = f[q],
           p \in DOMAIN f => Shown(f[p]) = {}
    PROVE  HeldIn(g) = HeldIn(f) \cup Shown(g[p])
<1>1. ASSUME NEW q \in DOMAIN g PROVE Shown(g[q]) \subseteq HeldIn(f) \cup Shown(g[p])
  <2>1. CASE q = p
    BY <2>1
  <2>2. CASE q # p
    BY <2>2 DEF HeldIn
  <2> QED BY <2>1, <2>2
<1>2. ASSUME NEW q \in DOMAIN f PROVE Shown(f[q]) \subseteq HeldIn(g)
  <2>1. CASE q = p
    BY <2>1
  <2>2. CASE q # p
    BY <2>2 DEF HeldIn
  <2> QED BY <2>1, <2>2
<1>3. Shown(g[p]) \subseteq HeldIn(g)
  BY DEF HeldIn
<1>4. HeldIn(g) \subseteq HeldIn(f) \cup Shown(g[p])
  BY <1>1 DEF HeldIn
<1>5. HeldIn(f) \subseteq HeldIn(g)
  BY <1>2 DEF HeldIn
<1> QED BY <1>3, <1>4, <1>5

LEMMA PutHolds ==
    ASSUME NEW p, NEW ms, p \in DOMAIN managers => Shown(managers[p]) = {}
    PROVE  HeldIn(H!Put(p, ms)) = HeldIn(managers) \cup Shown(ms)
<1>1. /\ DOMAIN H!Put(p, ms) = DOMAIN managers \cup {p}
      /\ H!Put(p, ms)[p] = ms
      /\ \A q \in DOMAIN managers : q # p => H!Put(p, ms)[q] = managers[q]
  BY DEF H!Put
<1> QED BY <1>1, OneMoreHolds

-----------------------------------------------------------------------------
LEMMA HierarchyStarts == H!ClusteringAssumption /\ H!Init => ClusterInv
<1> SUFFICES ASSUME H!ClusteringAssumption, H!Init PROVE ClusterInv
  OBVIOUS
<1>1. Divided
  BY DEF H!Init, Divided
<1>2. /\ ctasks = <<>> /\ mapping = [w \in Workers |-> H!NoLeaf] /\ managers = <<>>
      /\ merging = H!Nothing /\ cfailed = FALSE /\ cat = "map" /\ found = {} /\ whole = TRUE
      /\ alignable \in Alignments
  BY DEF H!Init
<1>3. DOMAIN managers = {} /\ LeavesMapped = {} /\ F!Range(ctasks) = {}
  BY <1>2, RangeEmpty DEF LeavesMapped
<1>4. H!TypeOK
  <2>1. part \in [H!Paths -> SUBSET SceneImages] /\ <<>> \in H!Paths
    BY <1>1, ClustersAre
  <2>2. alignable \subseteq SceneImages
    BY <1>2 DEF H!ClusteringAssumption
  <2>3. ctasks \in Seq(H!Paths)
    BY <1>2, EmptySeq
  <2>4. merging \in [cluster : H!Paths, models : Seq(SUBSET SceneImages), busy : BOOLEAN]
    <3>1. <<>> \in Seq(SUBSET SceneImages)
      BY EmptySeq
    <3> QED BY <1>2, <2>1, <3>1 DEF H!Nothing
  <2> QED BY <1>2, <1>3, <2>1, <2>2, <2>3, <2>4 DEF H!TypeOK
<1>5. LeavesOnce
  BY <1>2, <1>3, EmptyDistinct DEF LeavesOnce, OnTheWay
<1>6. MergingRight
  BY <1>2 DEF MergingRight, H!Nothing
<1>7. Antichain(DOMAIN managers)
  BY <1>3 DEF Antichain
<1>8. found = HeldIn(managers)
  BY <1>2, <1>3 DEF HeldIn
<1> QED BY <1>1, <1>2, <1>3, <1>4, <1>5, <1>6, <1>7, <1>8 DEF ClusterInv

(* What most steps leave as it is. *)
LEMMA HierarchyTypes ==
    ASSUME ClusterInv
    PROVE  /\ part \in [H!Paths -> SUBSET SceneImages] /\ alignable \subseteq SceneImages
           /\ ctasks \in Seq(H!Paths) /\ mapping \in [Workers -> H!Paths \cup {H!NoLeaf}]
           /\ DOMAIN managers \subseteq H!Clusters
           /\ \A p \in DOMAIN managers : managers[p] \in Models
           /\ merging \in [cluster : H!Paths, models : Models, busy : BOOLEAN]
           /\ cat \in {"map", "merge", "done", "threw"}
           /\ cfailed \in BOOLEAN /\ found \subseteq SceneImages /\ whole \in BOOLEAN
BY DEF ClusterInv, H!TypeOK, Models

LEMMA NoLeafIs == ASSUME H!ClusteringAssumption PROVE H!NoLeaf \notin H!Paths
<1>1. SUFFICES ASSUME H!NoLeaf \in H!Paths PROVE FALSE
  OBVIOUS
<1>2. H!NoLeaf \in Seq(H!Branch) /\ Len(H!NoLeaf) = 1 /\ H!NoLeaf[1] = 2
  BY <1>1, PathsAre DEF H!NoLeaf
<1>3. H!NoLeaf[1] \in H!Branch
  BY <1>2, ElementOfSeq
<1> QED BY <1>2, <1>3, BranchIs

LEMMA LargestLeaf == \A S : H!Largest(S) \subseteq S
BY DEF H!Largest

LEMMA LeafAddedKeeps ==
    ASSUME H!ClusteringAssumption, ClusterInv, H!AddTask
    PROVE  ClusterInv' /\ SettledStay
<1>1. PICK p \in H!Largest(H!Leaves \ DOMAIN managers) :
          ctasks' = Append(ctasks, p) /\ managers' = H!Put(p, <<>>)
  BY DEF H!AddTask
<1>2. /\ cat = "map" /\ part' = part /\ alignable' = alignable /\ mapping' = mapping
      /\ merging' = merging /\ cfailed' = cfailed /\ cat' = cat /\ found' = found /\ whole' = whole
  BY DEF H!AddTask
<1>3. p \in H!Leaves /\ p \notin DOMAIN managers /\ p \in H!Clusters /\ p \in H!Paths
  <2>1. p \in H!Leaves /\ p \notin DOMAIN managers
    BY <1>1, LargestLeaf
  <2> QED BY <2>1, ClustersAre DEF H!Leaves, ClusterInv
<1>4. /\ DOMAIN managers' = DOMAIN managers \cup {p} /\ managers'[p] = <<>>
      /\ \A q \in DOMAIN managers : managers'[q] = managers[q]
  <2>1. \A q \in DOMAIN managers : q # p
    BY <1>3
  <2> QED BY <1>1, <2>1 DEF H!Put
<1>5. /\ ctasks \in Seq(H!Paths) /\ ctasks' \in Seq(H!Paths)
      /\ F!Range(ctasks') = F!Range(ctasks) \cup {p}
  BY <1>1, <1>3, HierarchyTypes, RangeAppend
<1>6. LeavesMapped' = LeavesMapped
  BY <1>2 DEF LeavesMapped
<1>7. H!TypeOK'
  <2>1. \A q \in DOMAIN managers' : managers'[q] \in Models
    BY <1>4, HierarchyTypes, EmptySeq DEF Models
  <2>2. DOMAIN managers' \subseteq H!Clusters'
    BY <1>2, <1>3, <1>4, HierarchyTypes, SameTree
  <2> QED BY <1>2, <1>5, <2>1, <2>2, HierarchyTypes DEF H!TypeOK, Models
<1>8. Divided' /\ H!Leaves' = H!Leaves
  BY <1>2, SameTree DEF ClusterInv
<1>9. LeavesOnce'
  <2>1. p \notin OnTheWay
    BY <1>3 DEF ClusterInv, LeavesOnce
  <2>2. Distinct(ctasks')
    BY <1>1, <1>3, <1>5, <2>1, DistinctAppend DEF ClusterInv, LeavesOnce, OnTheWay
  <2>3. OnTheWay' = OnTheWay \cup {p}
    BY <1>5, <1>6 DEF OnTheWay
  <2>4. \A q \in OnTheWay' : q \in H!Leaves' /\ q \in DOMAIN managers' /\ managers'[q] = <<>>
    BY <1>3, <1>4, <1>8, <2>3 DEF ClusterInv, LeavesOnce
  <2>5. LeavesMapped' \cap F!Range(ctasks') = {}
    BY <1>5, <1>6, <2>1 DEF ClusterInv, LeavesOnce, OnTheWay
  <2> QED BY <1>2, <2>2, <2>4, <2>5 DEF ClusterInv, LeavesOnce
<1>10. MergingRight'
  BY <1>2 DEF ClusterInv, MergingRight
<1>11. DOMAIN managers' \subseteq H!Leaves'
  BY <1>2, <1>3, <1>4, <1>8 DEF ClusterInv
<1>12. Antichain(DOMAIN managers)'
  BY <1>8, <1>11, LeavesAntichain DEF ClusterInv, Antichain
<1>13. found' = HeldIn(managers)'
  <2>1. HeldIn(managers') = HeldIn(managers) \cup Shown(<<>>)
    BY <1>3, <1>4, OneMoreHolds
  <2>2. HeldIn(managers)' = HeldIn(managers')
    BY DEF HeldIn
  <2> QED BY <1>2, <2>1, <2>2, ShownNone DEF ClusterInv
<1>14. SettledStay
  BY <1>4, <1>5, <1>6 DEF SettledStay, OnTheWay
<1> QED BY <1>2, <1>7, <1>8, <1>9, <1>10, <1>11, <1>12, <1>13, <1>14 DEF ClusterInv

LEMMA TakeLeafKeeps ==
    ASSUME H!ClusteringAssumption, ClusterInv, NEW w \in Workers, H!Take(w)
    PROVE  ClusterInv' /\ SettledStay
<1> DEFINE p == Head(ctasks)
<1>1. /\ mapping[w] = H!NoLeaf /\ ctasks # <<>> /\ ctasks' = Tail(ctasks)
      /\ mapping' = [mapping EXCEPT ![w] = p]
      /\ part' = part /\ alignable' = alignable /\ managers' = managers
      /\ merging' = merging /\ cfailed' = cfailed /\ cat' = cat /\ found' = found /\ whole' = whole
  BY DEF H!Take
<1>2. /\ p \in H!Paths /\ ctasks' \in Seq(H!Paths)
      /\ F!Range(ctasks) = F!Range(ctasks') \cup {p}
      /\ Distinct(ctasks') /\ p \notin F!Range(ctasks')
  <2>1. ctasks \in Seq(H!Paths) /\ Distinct(ctasks)
    BY HierarchyTypes DEF ClusterInv, LeavesOnce
  <2> QED BY <1>1, <2>1, RangeHeadTail, DistinctTail
<1> HIDE DEF p
<1>3. p # H!NoLeaf
  BY <1>2, NoLeafIs
<1>4. /\ mapping' \in [Workers -> H!Paths \cup {H!NoLeaf}] /\ mapping'[w] = p
      /\ \A v \in Workers : v # w => mapping'[v] = mapping[v]
  BY <1>1, <1>2, HierarchyTypes
<1>5. LeavesMapped' = LeavesMapped \cup {p}
  <2>1. \A q : q \in LeavesMapped' <=> \E v \in Workers : mapping'[v] # H!NoLeaf /\ q = mapping'[v]
    BY DEF LeavesMapped, H!NoLeaf
  <2>2. \A q : q \in LeavesMapped <=> \E v \in Workers : mapping[v] # H!NoLeaf /\ q = mapping[v]
    BY DEF LeavesMapped
  <2> QED BY <1>1, <1>3, <1>4, <2>1, <2>2
<1>6. OnTheWay' = OnTheWay
  BY <1>2, <1>5 DEF OnTheWay
<1>7. H!TypeOK'
  <2>1. H!Clusters' = H!Clusters
    BY <1>1, SameTree
  <2> QED BY <1>1, <1>2, <1>4, <2>1, HierarchyTypes DEF H!TypeOK, Models
<1>8. Divided' /\ H!Leaves' = H!Leaves /\ H!Clusters' = H!Clusters
      /\ \A q : H!Children(q)' = H!Children(q)
  BY <1>1, SameTree DEF ClusterInv
<1>9. LeavesOnce'
  <2>1. p \notin LeavesMapped /\ LeavesMapped \cap F!Range(ctasks) = {}
    BY <1>2 DEF ClusterInv, LeavesOnce
  <2>2. LeavesMapped' \cap F!Range(ctasks') = {}
    BY <1>2, <1>5, <2>1
  <2>3. ASSUME NEW v \in Workers, NEW x \in Workers, mapping'[v] = mapping'[x],
               mapping'[v] # H!NoLeaf
        PROVE  v = x
    <3>1. \A y \in Workers : y # w => mapping'[y] # p
      BY <1>3, <1>4, <2>1 DEF LeavesMapped
    <3>2. CASE v = w \/ x = w
      BY <1>4, <2>3, <3>1, <3>2
    <3>3. CASE v # w /\ x # w
      BY <1>4, <2>3, <3>3 DEF ClusterInv, LeavesOnce
    <3> QED BY <3>2, <3>3
  <2>4. \A q \in OnTheWay' : q \in H!Leaves' /\ q \in DOMAIN managers' /\ managers'[q] = <<>>
    BY <1>1, <1>6, <1>8 DEF ClusterInv, LeavesOnce
  <2>5. \A v, x \in Workers : mapping'[v] = mapping'[x] /\ mapping'[v] # H!NoLeaf' => v = x
    BY <2>3 DEF H!NoLeaf
  <2> QED BY <1>2, <2>2, <2>4, <2>5 DEF LeavesOnce
<1>10. MergingRight'
  BY <1>1, <1>8 DEF ClusterInv, MergingRight
<1>11. SettledStay
  BY <1>1, <1>6 DEF SettledStay
<1> QED BY <1>1, <1>6, <1>7, <1>8, <1>9, <1>10, <1>11 DEF ClusterInv, Antichain, HeldIn

(* The leaf of a worker that is done with it. *)
LEMMA WorkerLeaves ==
    ASSUME H!ClusteringAssumption, ClusterInv, NEW w \in Workers, mapping[w] # H!NoLeaf,
           mapping' = [mapping EXCEPT ![w] = H!NoLeaf], ctasks' = ctasks, part' = part
    PROVE  /\ mapping[w] \in OnTheWay /\ mapping[w] \in H!Leaves
           /\ mapping[w] \in DOMAIN managers /\ managers[mapping[w]] = <<>>
           /\ mapping' \in [Workers -> H!Paths \cup {H!NoLeaf}]
           /\ OnTheWay' = OnTheWay \ {mapping[w]}
           /\ Distinct(ctasks') /\ LeavesMapped' \cap F!Range(ctasks') = {}
           /\ \A v, x \in Workers : mapping'[v] = mapping'[x] /\ mapping'[v] # H!NoLeaf' => v = x
<1> DEFINE p == mapping[w]
<1>1. p \in LeavesMapped /\ p \in OnTheWay
  BY DEF LeavesMapped, OnTheWay
<1>2. p \in H!Leaves /\ p \in DOMAIN managers /\ managers[p] = <<>>
  BY <1>1 DEF ClusterInv, LeavesOnce
<1>3. /\ mapping' \in [Workers -> H!Paths \cup {H!NoLeaf}] /\ mapping'[w] = H!NoLeaf
      /\ \A v \in Workers : v # w => mapping'[v] = mapping[v]
  BY HierarchyTypes
<1>4. LeavesMapped' = LeavesMapped \ {p}
  <2>1. \A q : q \in LeavesMapped' <=> \E v \in Workers : mapping'[v] # H!NoLeaf /\ q = mapping'[v]
    BY DEF LeavesMapped, H!NoLeaf
  <2>2. \A q : q \in LeavesMapped <=> \E v \in Workers : mapping[v] # H!NoLeaf /\ q = mapping[v]
    BY DEF LeavesMapped
  <2>3. \A v \in Workers : v # w /\ mapping[v] # H!NoLeaf => mapping[v] # p
    BY DEF ClusterInv, LeavesOnce
  <2>4. \A q : q \in LeavesMapped' => q \in LeavesMapped \ {p}
    BY <1>3, <2>1, <2>2, <2>3
  <2>5. \A q : q \in LeavesMapped \ {p} => q \in LeavesMapped'
    BY <1>3, <2>1, <2>2
  <2> QED BY <2>4, <2>5
<1>5. p \notin F!Range(ctasks)
  BY <1>1 DEF ClusterInv, LeavesOnce
<1>6. OnTheWay' = OnTheWay \ {p}
  BY <1>4, <1>5 DEF OnTheWay
<1>7. Distinct(ctasks') /\ LeavesMapped' \cap F!Range(ctasks') = {}
  BY <1>4 DEF ClusterInv, LeavesOnce
<1>8. \A v, x \in Workers : mapping'[v] = mapping'[x] /\ mapping'[v] # H!NoLeaf => v = x
  BY <1>3 DEF ClusterInv, LeavesOnce
<1> QED BY <1>1, <1>2, <1>3, <1>6, <1>7, <1>8 DEF H!NoLeaf

LEMMA MapKeeps ==
    ASSUME H!ClusteringAssumption, ClusterInv, NEW w \in Workers, H!Map(w) PROVE ClusterInv'
<1> DEFINE p == mapping[w]
<1>1. /\ mapping[w] # H!NoLeaf /\ mapping' = [mapping EXCEPT ![w] = H!NoLeaf]
      /\ part' = part /\ alignable' = alignable /\ ctasks' = ctasks /\ merging' = merging
      /\ cfailed' = cfailed /\ cat' = cat
  BY DEF H!Map
<1>2. PICK models \in Results(H!ImagesOf(p)) :
          /\ managers' = H!Put(p, models)
          /\ found' = found \cup UNION H!Range(models)
          /\ whole' = (whole /\ models = <<H!ImagesOf(p)>>)
  BY DEF H!Map
<1>3. /\ p \in OnTheWay /\ p \in H!Leaves /\ p \in DOMAIN managers /\ managers[p] = <<>>
      /\ mapping' \in [Workers -> H!Paths \cup {H!NoLeaf}]
      /\ OnTheWay' = OnTheWay \ {p}
      /\ Distinct(ctasks') /\ LeavesMapped' \cap F!Range(ctasks') = {}
      /\ \A v, x \in Workers : mapping'[v] = mapping'[x] /\ mapping'[v] # H!NoLeaf' => v = x
  BY <1>1, WorkerLeaves
<1> HIDE DEF p
<1>4. models \in Models /\ Shown(models) \subseteq SceneImages
  <2>1. p \in H!Clusters
    BY <1>3 DEF H!Leaves
  <2>2. H!ImagesOf(p) \in SUBSET SceneImages
    BY <2>1, ImagesOfType DEF ClusterInv
  <2>3. models \in Seq(SUBSET H!ImagesOf(p))
    BY <2>2, <1>2 DEF H!ClusteringAssumption
  <2>4. models \in Models
    <3>1. SUBSET H!ImagesOf(p) \subseteq SUBSET SceneImages
      BY <2>2
    <3> QED BY <2>3, <3>1, SeqMonotonic DEF Models
  <2>5. F!Range(models) \subseteq SUBSET SceneImages
    BY <2>4, RangeType DEF Models
  <2> QED BY <2>4, <2>5, ShownIs
<1>5. /\ DOMAIN managers' = DOMAIN managers /\ managers'[p] = models
      /\ \A q \in DOMAIN managers : q # p => managers'[q] = managers[q]
  BY <1>2, <1>3 DEF H!Put
<1>6. cat = "map"
  BY <1>3 DEF ClusterInv
<1>7. Divided' /\ H!Leaves' = H!Leaves /\ H!Clusters' = H!Clusters
  BY <1>1, SameTree DEF ClusterInv
<1>8. H!TypeOK'
  <2>1. \A q \in DOMAIN managers' : managers'[q] \in Models
    BY <1>4, <1>5, HierarchyTypes
  <2>2. found' \subseteq SceneImages /\ whole' \in BOOLEAN
    BY <1>2, <1>4, HierarchyTypes DEF Shown
  <2> QED BY <1>1, <1>3, <1>5, <1>7, <2>1, <2>2, HierarchyTypes DEF H!TypeOK, Models, H!NoLeaf
<1>9. LeavesOnce'
  <2>1. \A q \in OnTheWay' : q \in H!Leaves' /\ q \in DOMAIN managers' /\ managers'[q] = <<>>
    BY <1>3, <1>5, <1>7 DEF ClusterInv, LeavesOnce
  <2> QED BY <1>3, <2>1 DEF LeavesOnce
<1>10. MergingRight'
  BY <1>1, <1>6 DEF ClusterInv, MergingRight
<1>11. Antichain(DOMAIN managers)'
  BY <1>5 DEF ClusterInv, Antichain
<1>12. found' = HeldIn(managers)'
  <2>1. HeldIn(managers') = HeldIn(managers) \cup Shown(models)
    BY <1>2, <1>3, PutHolds, ShownNone
  <2>2. HeldIn(managers)' = HeldIn(managers')
    BY DEF HeldIn
  <2> QED BY <1>2, <2>1, <2>2 DEF ClusterInv, Shown
<1> QED BY <1>1, <1>5, <1>6, <1>7, <1>8, <1>9, <1>10, <1>11, <1>12 DEF ClusterInv

LEMMA MapThrowsKeeps ==
    ASSUME H!ClusteringAssumption, ClusterInv, NEW w \in Workers, H!MapThrows(w)
    PROVE  ClusterInv'
<1>1. /\ mapping[w] # H!NoLeaf /\ mapping' = [mapping EXCEPT ![w] = H!NoLeaf]
      /\ part' = part /\ alignable' = alignable /\ ctasks' = ctasks /\ merging' = merging
      /\ cfailed' = TRUE /\ cat' = cat /\ managers' = managers /\ found' = found /\ whole' = whole
  BY DEF H!MapThrows
<1>2. /\ mapping' \in [Workers -> H!Paths \cup {H!NoLeaf}]
      /\ OnTheWay' = OnTheWay \ {mapping[w]}
      /\ Distinct(ctasks') /\ LeavesMapped' \cap F!Range(ctasks') = {}
      /\ \A v, x \in Workers : mapping'[v] = mapping'[x] /\ mapping'[v] # H!NoLeaf' => v = x
  BY <1>1, WorkerLeaves
<1>3. /\ Divided' /\ H!Leaves' = H!Leaves /\ H!Clusters' = H!Clusters
      /\ \A q : H!Children(q)' = H!Children(q)
  BY <1>1, SameTree DEF ClusterInv
<1>4. H!TypeOK'
  BY <1>1, <1>2, <1>3, HierarchyTypes DEF H!TypeOK, Models, H!NoLeaf
<1>5. LeavesOnce'
  <2>1. \A q \in OnTheWay' : q \in H!Leaves' /\ q \in DOMAIN managers' /\ managers'[q] = <<>>
    BY <1>1, <1>2, <1>3 DEF ClusterInv, LeavesOnce
  <2> QED BY <1>2, <2>1 DEF LeavesOnce
<1>6. MergingRight'
  BY <1>1, <1>3 DEF ClusterInv, MergingRight
<1> QED BY <1>1, <1>2, <1>3, <1>4, <1>5, <1>6 DEF ClusterInv, Antichain, HeldIn

LEMMA EndMappingKeeps ==
    ASSUME H!ClusteringAssumption, ClusterInv, H!EndMapping PROVE ClusterInv'
<1>1. /\ cat = "map" /\ H!PoolDone /\ cat' = IF cfailed THEN "threw" ELSE "merge"
      /\ part' = part /\ alignable' = alignable /\ ctasks' = ctasks /\ mapping' = mapping
      /\ managers' = managers /\ merging' = merging /\ cfailed' = cfailed
      /\ found' = found /\ whole' = whole
  BY DEF H!EndMapping
<1>2. OnTheWay = {}
  <2>1. ctasks = <<>> /\ LeavesMapped = {}
    BY <1>1 DEF H!PoolDone, LeavesMapped
  <2> QED BY <2>1, RangeEmpty DEF OnTheWay
<1>3. /\ Divided' /\ H!Leaves' = H!Leaves /\ H!Clusters' = H!Clusters
      /\ LeavesMapped' = LeavesMapped /\ OnTheWay' = OnTheWay
  <2>1. Divided' /\ H!Leaves' = H!Leaves /\ H!Clusters' = H!Clusters
    BY <1>1, SameTree DEF ClusterInv
  <2>2. LeavesMapped' = LeavesMapped
    BY <1>1 DEF LeavesMapped, H!NoLeaf
  <2> QED BY <1>1, <2>1, <2>2 DEF OnTheWay
<1>4. H!TypeOK'
  BY <1>1, <1>3, HierarchyTypes DEF H!TypeOK, Models, H!NoLeaf
<1>5. LeavesOnce'
  BY <1>1, <1>2, <1>3 DEF ClusterInv, LeavesOnce, H!NoLeaf
<1>6. ~merging.busy /\ MergingRight'
  BY <1>1 DEF ClusterInv, MergingRight
<1>7. found' = HeldIn(managers)' /\ Antichain(DOMAIN managers)'
  BY <1>1 DEF ClusterInv, Antichain, HeldIn
<1> QED BY <1>1, <1>2, <1>3, <1>4, <1>5, <1>6, <1>7 DEF ClusterInv

(* What a step of the merge leaves as it is. *)
LEMMA MergeLeaves ==
    ASSUME ClusterInv, UNCHANGED <<part, ctasks, mapping>>, cat # "map", cat' # "map"
    PROVE  /\ OnTheWay = {} /\ OnTheWay' = {} /\ LeavesOnce' /\ Divided'
           /\ H!Leaves' = H!Leaves /\ H!Clusters' = H!Clusters
           /\ \A q : H!Children(q)' = H!Children(q)
<1>1. /\ Divided' /\ H!Leaves' = H!Leaves /\ H!Clusters' = H!Clusters
      /\ \A q : H!Children(q)' = H!Children(q)
  BY SameTree DEF ClusterInv
<1>2. LeavesMapped' = LeavesMapped
  BY DEF LeavesMapped, H!NoLeaf
<1>3. OnTheWay = {} /\ OnTheWay' = {}
  BY <1>2 DEF OnTheWay, ClusterInv
<1>4. LeavesOnce'
  BY <1>2, <1>3 DEF ClusterInv, LeavesOnce, H!NoLeaf
<1> QED BY <1>1, <1>3, <1>4

LEMMA RangeBoth ==
    ASSUME NEW X, NEW s \in Seq(X), NEW t \in Seq(X)
    PROVE  s \o t \in Seq(X) /\ F!Range(s \o t) = F!Range(s) \cup F!Range(t)
<1>1. /\ s \o t \in Seq(X) /\ Len(s \o t) = Len(s) + Len(t) /\ Len(s) \in Nat /\ Len(t) \in Nat
      /\ \A i \in 1 .. Len(s) + Len(t) : (s \o t)[i] = IF i <= Len(s) THEN s[i] ELSE t[i - Len(s)]
      /\ DOMAIN s = 1 .. Len(s) /\ DOMAIN t = 1 .. Len(t)
      /\ DOMAIN (s \o t) = 1 .. Len(s \o t)
  BY ConcatProperties, LenProperties
<1>2. ASSUME NEW i \in 1 .. Len(s) PROVE s[i] \in F!Range(s \o t)
  <2>1. i \in 1 .. Len(s) + Len(t) /\ i <= Len(s)
    BY <1>1
  <2> QED BY <1>1, <2>1, RangeIs
<1>3. ASSUME NEW i \in 1 .. Len(t) PROVE t[i] \in F!Range(s \o t)
  <2>1. i + Len(s) \in 1 .. Len(s) + Len(t) /\ ~(i + Len(s) <= Len(s)) /\ i + Len(s) - Len(s) = i
    BY <1>1
  <2>2. (s \o t)[i + Len(s)] = t[i]
    BY <1>1, <2>1
  <2> QED BY <1>1, <2>1, <2>2, RangeIs
<1> QED BY <1>1, <1>2, <1>3, RangeConcat, RangeIs

LEMMA BeginMergeKeeps ==
    ASSUME H!ClusteringAssumption, ClusterInv, H!BeginMerge PROVE ClusterInv'
<1>1. PICK p \in H!Clusters \ H!Leaves :
          /\ H!Children(p) \subseteq DOMAIN managers
          /\ merging' = [cluster |-> p, busy |-> TRUE,
                         models |-> managers[Append(p, 0)] \o managers[Append(p, 1)]]
  BY DEF H!BeginMerge
<1>2. /\ cat = "merge" /\ part' = part /\ alignable' = alignable /\ ctasks' = ctasks
      /\ mapping' = mapping /\ managers' = managers /\ cfailed' = cfailed /\ cat' = cat
      /\ found' = found /\ whole' = whole
  BY DEF H!BeginMerge
<1>3. /\ OnTheWay' = {} /\ LeavesOnce' /\ Divided'
      /\ H!Leaves' = H!Leaves /\ H!Clusters' = H!Clusters
      /\ \A q : H!Children(q)' = H!Children(q)
  BY <1>2, MergeLeaves
<1>4. H!Children(p) # {} /\ H!Children(p) = {Append(p, 0), Append(p, 1)} /\ p \in H!Paths
  BY ClustersAre DEF ClusterInv, H!Leaves
<1> DEFINE a == managers[Append(p, 0)]
           b == managers[Append(p, 1)]
<1>5. a \in Models /\ b \in Models
  BY <1>1, <1>4, HierarchyTypes
<1>6. a \o b \in Models /\ Shown(a \o b) = Shown(a) \cup Shown(b)
  <2> HIDE DEF a, b
  <2>1. a \o b \in Models /\ F!Range(a \o b) = F!Range(a) \cup F!Range(b)
    BY <1>5, RangeBoth DEF Models
  <2> QED BY <2>1, ShownIs
<1>7. Shown(merging'.models) = UNION {Shown(managers[c]) : c \in H!Children(p)}
  BY <1>1, <1>4, <1>6
<1>8. MergingRight'
  <2>1. merging'.cluster = p
    BY <1>1
  <2>2. /\ H!Children(p)' = H!Children(p) /\ Shown(merging.models)' = Shown(merging'.models)
        /\ \A c : Shown(managers[c])' = Shown(managers[c])
    BY <1>2, <1>3 DEF Shown
  <2>3. H!Children(merging.cluster)' = H!Children(p)
    BY <1>2, <1>3, <2>1 DEF H!Children
  <2>4. p \in H!Clusters' /\ H!Children(p) # {} /\ H!Children(p) \subseteq DOMAIN managers'
    BY <1>1, <1>2, <1>3, <1>4
  <2>5. UNION {Shown(managers[c]) : c \in H!Children(p)}
            = UNION {Shown(managers[c])' : c \in H!Children(merging.cluster)'}
    BY <2>2, <2>3
  <2>6. Shown(merging.models)' = UNION {Shown(managers[c])' : c \in H!Children(merging.cluster)'}
    BY <1>7, <2>2, <2>5
  <2>7. H!Children(merging.cluster)' # {} /\ H!Children(merging.cluster)' \subseteq DOMAIN managers'
    BY <2>3, <2>4
  <2> QED BY <1>2, <2>1, <2>4, <2>6, <2>7 DEF MergingRight
<1>9. H!TypeOK'
  <2>1. merging' \in [cluster : H!Paths, models : Models, busy : BOOLEAN]
    BY <1>1, <1>4, <1>6
  <2> QED BY <1>2, <1>3, <2>1, HierarchyTypes DEF H!TypeOK, Models, H!NoLeaf
<1>10. found' = HeldIn(managers)' /\ Antichain(DOMAIN managers)'
  BY <1>2 DEF ClusterInv, Antichain, HeldIn
<1> QED BY <1>2, <1>3, <1>8, <1>9, <1>10 DEF ClusterInv

(* The pair that is merged. *)
LEMMA PairTaken ==
    ASSUME merging.models \in Models, H!Pairs # {}
    PROVE  /\ H!First(H!Pairs) \in H!Pairs
           /\ H!First(H!Pairs)[1] \in DOMAIN merging.models
           /\ H!First(H!Pairs)[2] \in DOMAIN merging.models
           /\ H!First(H!Pairs)[2] < H!First(H!Pairs)[1]
           /\ H!First(H!Pairs)[1] # H!First(H!Pairs)[2]
<1>1. DOMAIN merging.models \subseteq Nat
  BY LenProperties DEF Models
<1>2. H!Pairs \subseteq Nat \X Nat
  BY <1>1 DEF H!Pairs
<1>3. H!First(H!Pairs) \in H!Pairs
  BY <1>2, FirstPair
<1> DEFINE x == H!First(H!Pairs)
<1>4. /\ x \in (DOMAIN merging.models) \X (DOMAIN merging.models) /\ x[2] < x[1]
  <2> HIDE DEF x
  <2>1. x \in H!Pairs
    BY <1>3 DEF x
  <2> QED BY <2>1 DEF H!Pairs
<1>5. x[1] \in Nat /\ x[2] \in Nat /\ x[1] # x[2]
  <2> HIDE DEF x
  <2> QED BY <1>1, <1>4
<1> QED BY <1>3, <1>4, <1>5

LEMMA MergePairKeeps ==
    ASSUME H!ClusteringAssumption, ClusterInv, H!MergePair PROVE ClusterInv'
<1> DEFINE x == H!First(H!Pairs)
<1>1. /\ cat = "merge" /\ merging.busy /\ H!Pairs # {}
      /\ merging' = [merging EXCEPT !.models = H!Merged(x[1], x[2])]
      /\ part' = part /\ alignable' = alignable /\ ctasks' = ctasks
      /\ mapping' = mapping /\ managers' = managers /\ cfailed' = cfailed /\ cat' = cat
      /\ found' = found /\ whole' = whole
  BY DEF H!MergePair
<1>2. merging \in [cluster : H!Paths, models : Models, busy : BOOLEAN] /\ merging.models \in Models
  <2>1. merging \in [cluster : H!Paths, models : Models, busy : BOOLEAN]
    BY HierarchyTypes
  <2> QED BY <2>1
<1>3. /\ H!Merged(x[1], x[2]) \in Models
      /\ Shown(H!Merged(x[1], x[2])) = Shown(merging.models)
  BY <1>1, <1>2, PairTaken, MergedShows
<1> HIDE DEF x
<1>4. /\ merging' \in [cluster : H!Paths, models : Models, busy : BOOLEAN]
      /\ merging'.cluster = merging.cluster /\ merging'.busy = merging.busy
      /\ merging'.models = H!Merged(x[1], x[2])
  BY <1>1, <1>2, <1>3
<1>5. /\ OnTheWay' = {} /\ LeavesOnce' /\ Divided'
      /\ H!Leaves' = H!Leaves /\ H!Clusters' = H!Clusters
      /\ \A q : H!Children(q)' = H!Children(q)
  BY <1>1, MergeLeaves
<1>6. MergingRight'
  <2>1. Shown(merging.models)' = Shown(merging.models)
    BY <1>3, <1>4 DEF Shown
  <2>2. H!Children(merging.cluster)' = H!Children(merging.cluster)
    BY <1>4, <1>5 DEF H!Children
  <2>3. \A c : Shown(managers[c])' = Shown(managers[c])
    BY <1>1 DEF Shown
  <2> QED BY <1>1, <1>4, <1>5, <2>1, <2>2, <2>3 DEF ClusterInv, MergingRight
<1>7. H!TypeOK'
  BY <1>1, <1>4, <1>5, HierarchyTypes DEF H!TypeOK, Models, H!NoLeaf
<1>8. found' = HeldIn(managers)' /\ Antichain(DOMAIN managers)'
  BY <1>1 DEF ClusterInv, Antichain, HeldIn
<1> QED BY <1>1, <1>5, <1>6, <1>7, <1>8 DEF ClusterInv

LEMMA EndMergeKeeps ==
    ASSUME H!ClusteringAssumption, ClusterInv, H!EndMerge PROVE ClusterInv'
<1> DEFINE m == merging.cluster
           D == DOMAIN managers
<1>1. /\ cat = "merge" /\ merging.busy
      /\ managers' = H!Restrict(H!Put(m, merging.models), (D \cup {m}) \ H!Children(m))
      /\ merging' = H!Nothing
      /\ part' = part /\ alignable' = alignable /\ ctasks' = ctasks
      /\ mapping' = mapping /\ cfailed' = cfailed /\ cat' = cat
      /\ found' = found /\ whole' = whole
  BY DEF H!EndMerge, H!Erased
<1>2. /\ m \in H!Clusters /\ H!Children(m) # {} /\ H!Children(m) \subseteq D
      /\ Shown(merging.models) = UNION {Shown(managers[c]) : c \in H!Children(m)}
  BY <1>1 DEF ClusterInv, MergingRight
<1>3. merging.models \in Models
  <2>1. merging \in [cluster : H!Paths, models : Models, busy : BOOLEAN]
    BY HierarchyTypes
  <2> QED BY <2>1
<1> HIDE DEF m
<1>4. /\ DOMAIN managers' = (D \cup {m}) \ H!Children(m)
      /\ \A q \in (D \cup {m}) \ H!Children(m) :
            managers'[q] = IF q = m THEN merging.models ELSE managers[q]
  BY <1>1 DEF H!Put, H!Restrict
<1>5. /\ OnTheWay' = {} /\ LeavesOnce' /\ Divided'
      /\ H!Leaves' = H!Leaves /\ H!Clusters' = H!Clusters
  BY <1>1, MergeLeaves
<1>6. m \notin D /\ Antichain((D \cup {m}) \ H!Children(m)) /\ D \subseteq H!Clusters
  <2>1. D \subseteq H!Clusters
    BY HierarchyTypes
  <2> HIDE DEF D
  <2>2. Antichain(D)
    BY DEF ClusterInv, D
  <2> QED BY <1>2, <2>1, <2>2, AntichainMerged DEF ClusterInv
<1>7. m \notin H!Children(m)
  BY <1>2, <1>6
<1>8. H!TypeOK'
  <2>1. \A q \in DOMAIN managers' : managers'[q] \in Models
    BY <1>3, <1>4, HierarchyTypes
  <2>2. DOMAIN managers' \subseteq H!Clusters'
    BY <1>2, <1>4, <1>5, <1>6
  <2>3. merging' \in [cluster : H!Paths, models : Models, busy : BOOLEAN]
    <3>1. <<>> \in Models /\ <<>> \in H!Paths
      BY EmptySeq, ClustersAre DEF Models, ClusterInv
    <3> QED BY <1>1, <3>1 DEF H!Nothing
  <2> QED BY <1>1, <1>5, <2>1, <2>2, <2>3, HierarchyTypes DEF H!TypeOK, Models, H!NoLeaf
<1>9. MergingRight'
  BY <1>1 DEF MergingRight, H!Nothing
<1>10. Antichain(DOMAIN managers)'
  BY <1>4, <1>6 DEF Antichain
<1>11. HeldIn(managers') = HeldIn(managers)
  <2>1. \A q \in D : Shown(managers[q]) \subseteq HeldIn(managers')
    <3>1. m \in DOMAIN managers' /\ managers'[m] = merging.models
      BY <1>4, <1>7
    <3>2. Shown(merging.models) \subseteq HeldIn(managers')
      BY <3>1 DEF HeldIn
    <3>3. \A q \in D \cap H!Children(m) : Shown(managers[q]) \subseteq Shown(merging.models)
      BY <1>2
    <3>4. \A q \in D \ H!Children(m) : Shown(managers[q]) \subseteq HeldIn(managers')
      BY <1>4, <1>6 DEF HeldIn
    <3> QED BY <3>2, <3>3, <3>4
  <2>2. \A q \in DOMAIN managers' : Shown(managers'[q]) \subseteq HeldIn(managers)
    <3>1. Shown(merging.models) \subseteq HeldIn(managers)
      BY <1>2 DEF HeldIn
    <3>2. \A q \in D : Shown(managers[q]) \subseteq HeldIn(managers)
      BY DEF HeldIn
    <3> QED BY <1>4, <3>1, <3>2
  <2>3. HeldIn(managers) \subseteq HeldIn(managers')
    BY <2>1 DEF HeldIn
  <2>4. HeldIn(managers') \subseteq HeldIn(managers)
    BY <2>2 DEF HeldIn
  <2> QED BY <2>3, <2>4
<1>12. found' = HeldIn(managers)'
  BY <1>1, <1>11 DEF ClusterInv, HeldIn
<1> QED BY <1>1, <1>5, <1>8, <1>9, <1>10, <1>12 DEF ClusterInv

LEMMA EndRunKeeps == ASSUME H!ClusteringAssumption, ClusterInv, H!EndRun PROVE ClusterInv'
<1>1. /\ cat = "merge" /\ ~merging.busy /\ <<>> \in DOMAIN managers
      /\ cat' = IF DOMAIN managers = {<<>>} /\ managers[<<>>] # <<>> THEN "done" ELSE "threw"
      /\ part' = part /\ alignable' = alignable /\ ctasks' = ctasks
      /\ mapping' = mapping /\ managers' = managers /\ merging' = merging /\ cfailed' = cfailed
      /\ found' = found /\ whole' = whole
  BY DEF H!EndRun
<1>2. DOMAIN managers = {<<>>}
  BY <1>1, HierarchyTypes, AntichainRoot DEF ClusterInv
<1>3. /\ OnTheWay' = {} /\ LeavesOnce' /\ Divided'
      /\ H!Leaves' = H!Leaves /\ H!Clusters' = H!Clusters
  BY <1>1, MergeLeaves
<1>4. H!TypeOK'
  BY <1>1, <1>3, HierarchyTypes DEF H!TypeOK, Models, H!NoLeaf
<1>5. MergingRight'
  BY <1>1 DEF MergingRight
<1>6. found' = HeldIn(managers)' /\ Antichain(DOMAIN managers)'
  BY <1>1 DEF ClusterInv, Antichain, HeldIn
<1>7. /\ cat' = "done" => DOMAIN managers' = {<<>>} /\ managers'[<<>>] # <<>>
      /\ cat' = "threw" => DOMAIN managers' = {<<>>} /\ managers'[<<>>] = <<>>
  BY <1>1, <1>2
<1> QED BY <1>1, <1>3, <1>4, <1>5, <1>6, <1>7 DEF ClusterInv

LEMMA HierarchyRests == ASSUME ClusterInv, UNCHANGED H!vars PROVE ClusterInv'
<1>1. /\ part' = part /\ alignable' = alignable /\ ctasks' = ctasks /\ mapping' = mapping
      /\ managers' = managers /\ merging' = merging /\ cfailed' = cfailed /\ cat' = cat
      /\ found' = found /\ whole' = whole
  BY DEF H!vars
<1>2. /\ Divided' /\ H!Leaves' = H!Leaves /\ H!Clusters' = H!Clusters
      /\ \A q : H!Children(q)' = H!Children(q)
  BY <1>1, SameTree DEF ClusterInv
<1>3. LeavesMapped' = LeavesMapped
  BY <1>1 DEF LeavesMapped, H!NoLeaf
<1>4. H!TypeOK'
  BY <1>1, <1>2, HierarchyTypes DEF H!TypeOK, Models, H!NoLeaf
<1>5. LeavesOnce' /\ OnTheWay' = OnTheWay
  BY <1>1, <1>2, <1>3 DEF ClusterInv, LeavesOnce, OnTheWay, H!NoLeaf
<1>6. MergingRight'
  BY <1>1, <1>2 DEF ClusterInv, MergingRight
<1>7. found' = HeldIn(managers)' /\ Antichain(DOMAIN managers)'
  BY <1>1 DEF ClusterInv, Antichain, HeldIn
<1> QED BY <1>1, <1>2, <1>4, <1>5, <1>6, <1>7 DEF ClusterInv

LEMMA ClusterInvariance == H!ClusteringAssumption /\ H!Spec => []ClusterInv
<1>1. H!ClusteringAssumption /\ H!Init => ClusterInv
  BY HierarchyStarts
<1>2. H!ClusteringAssumption /\ ClusterInv /\ [H!Next]_(H!vars) => ClusterInv'
  <2> SUFFICES ASSUME H!ClusteringAssumption, ClusterInv, [H!Next]_(H!vars) PROVE ClusterInv'
    OBVIOUS
  <2>1. CASE H!AddTask
    BY <2>1, LeafAddedKeeps
  <2>2. CASE H!EndMapping
    BY <2>2, EndMappingKeeps
  <2>3. CASE H!BeginMerge
    BY <2>3, BeginMergeKeeps
  <2>4. CASE H!MergePair
    BY <2>4, MergePairKeeps
  <2>5. CASE H!EndMerge
    BY <2>5, EndMergeKeeps
  <2>6. CASE H!EndRun
    BY <2>6, EndRunKeeps
  <2>7. CASE H!Ended
    BY <2>7, HierarchyRests DEF H!Ended
  <2>8. CASE \E w \in Workers : H!Take(w) \/ H!Map(w) \/ H!MapThrows(w)
    BY <2>8, TakeLeafKeeps, MapKeeps, MapThrowsKeeps
  <2>9. CASE UNCHANGED H!vars
    BY <2>9, HierarchyRests
  <2> QED BY <2>1, <2>2, <2>3, <2>4, <2>5, <2>6, <2>7, <2>8, <2>9 DEF H!Next
<1>3. H!ClusteringAssumption => H!ClusteringAssumption'
  BY DEF H!ClusteringAssumption
<1> QED BY <1>1, <1>2, <1>3, PTL DEF H!Spec

(* The pool and the three programs that give it their tasks keep the types of *)
(* their variables: blocks, problems and leaves that are with a worker are    *)
(* ones of the input, a lock is with one worker at most, and no point has     *)
(* more pixels than it may (threading.cc, fusion.cc, patch_match.cc,          *)
(* hierarchical_pipeline.cc).                                                *)
THEOREM AllTypesCorrect ==
    /\ F!FusionAssumption /\ P!ProblemsAssumption /\ H!ClusteringAssumption
    /\ Spec /\ F!Spec /\ P!Spec /\ H!Spec
    => []TypesOK
<1>1. IInv /\ FusionInv /\ SweepInv /\ ClusterInv => TypesOK
  BY DEF TypesOK, IInv, FusionInv, SweepInv, ClusterInv
<1> QED BY <1>1, Invariance, FusionInvariance, SweepInvariance, ClusterInvariance, PTL

(* However the models of the clusters are merged, the ones at the end         *)
(* register every image that the mapper of some leaf registered, and Run()    *)
(* throws only when no leaf has a model or a mapper threw                     *)
(* (hierarchical_pipeline.cc:42-101 and 271-274).                             *)
THEOREM HierarchyKeeps == H!ClusteringAssumption /\ H!Spec => []H!NoImageLost
<1>1. ClusterInv => H!NoImageLost
  <2> SUFFICES ASSUME ClusterInv PROVE H!NoImageLost
    OBVIOUS
  <2>1. CASE DOMAIN managers = {<<>>}
    <3>1. found = Shown(managers[<<>>])
      BY <2>1 DEF ClusterInv, HeldIn
    <3> QED BY <3>1, ShownNone DEF H!NoImageLost, ClusterInv, Shown
  <2>2. CASE DOMAIN managers # {<<>>}
    BY <2>2 DEF H!NoImageLost, ClusterInv
  <2> QED BY <2>1, <2>2
<1> QED BY <1>1, ClusterInvariance, PTL

-----------------------------------------------------------------------------
(* The overlap: what a child of a cluster receives besides its own.           *)
LEMMA ReceivesOfChild ==
    ASSUME H!ClusteringAssumption, NEW p \in H!Paths, NEW b \in H!Branch
    PROVE  H!Receives(Append(p, b)) = H!Receives(p) \cup {Append(p, b)}
<1> DEFINE q == Append(p, b)
<1>1. /\ Len(p) \in Nat /\ p \in Seq(H!Branch) /\ q \in Seq(H!Branch) /\ Len(q) = Len(p) + 1
      /\ q # <<>> /\ \A i \in 1 .. Len(p) : q[i] = p[i]
  BY PathSteps
<1> HIDE DEF q
<1>2. ASSUME NEW n \in 0 .. Len(p) PROVE SubSeq(q, 1, n) = SubSeq(p, 1, n)
  <2>1. n \in 0 .. Len(q) /\ \A i \in 1 .. n : i \in 1 .. Len(p)
    BY <1>1
  <2>2. /\ SubSeq(p, 1, n) \in Seq(H!Branch) /\ Len(SubSeq(p, 1, n)) = n
        /\ \A i \in 1 .. n : SubSeq(p, 1, n)[i] = p[i]
    BY <1>1, FirstOnes
  <2>3. /\ SubSeq(q, 1, n) \in Seq(H!Branch) /\ Len(SubSeq(q, 1, n)) = n
        /\ \A i \in 1 .. n : SubSeq(q, 1, n)[i] = q[i]
    BY <1>1, <2>1, FirstOnes
  <2>4. \A i \in 1 .. n : SubSeq(q, 1, n)[i] = SubSeq(p, 1, n)[i]
    BY <1>1, <2>1, <2>2, <2>3
  <2> QED BY <2>2, <2>3, <2>4, SeqEqual
<1>3. SubSeq(q, 1, Len(q)) = q
  BY <1>1, SubSeqFull
<1>4. \A n : n \in 0 .. Len(q) <=> n \in 0 .. Len(p) \/ n = Len(q)
  BY <1>1
<1>5. H!Prefixes(p) = {SubSeq(p, 1, n) : n \in 0 .. Len(p)}
      /\ H!Prefixes(q) = {SubSeq(q, 1, n) : n \in 0 .. Len(q)}
  BY DEF H!Prefixes
<1>6. H!Prefixes(q) = H!Prefixes(p) \cup {q}
  <2>1. ASSUME NEW x \in H!Prefixes(q) PROVE x \in H!Prefixes(p) \cup {q}
    <3>1. PICK n \in 0 .. Len(q) : x = SubSeq(q, 1, n)
      BY <1>5
    <3> QED BY <1>2, <1>3, <1>4, <1>5, <3>1
  <2>2. ASSUME NEW x \in H!Prefixes(p) PROVE x \in H!Prefixes(q)
    <3>1. PICK n \in 0 .. Len(p) : x = SubSeq(p, 1, n)
      BY <1>5, SMTT(30)
    <3> QED BY <1>2, <1>4, <1>5, <3>1
  <2>3. q \in H!Prefixes(q)
    BY <1>3, <1>4, <1>5
  <2> QED BY <2>1, <2>2, <2>3, SMTT(30)
<1>7. \A x : H!Receives(x) = {y \in H!Prefixes(x) : y # <<>>}
  BY DEF H!Receives
<1> QED BY <1>1, <1>6, <1>7 DEF q

LEMMA RootImages ==
    ASSUME H!ClusteringAssumption, Divided
    PROVE  H!ImagesOf(<<>>) = UNION H!Edges
<1>1. part[<<>>] = UNION H!Edges /\ <<>> \in H!Paths
  BY ClustersAre
<1>2. H!Receives(<<>>) = {}
  <2>1. ASSUME NEW n \in 0 .. Len(<<>>) PROVE SubSeq(<<>>, 1, n) = <<>>
    <3>1. <<>> \in Seq(H!Branch) /\ Len(<<>>) = 0 /\ n = 0
      BY EmptySeq
    <3>2. SubSeq(<<>>, 1, n) \in Seq(H!Branch) /\ Len(SubSeq(<<>>, 1, n)) = 0
      BY <3>1, FirstOnes
    <3> QED BY <3>2, EmptySeq
  <2> QED BY <2>1 DEF H!Receives, H!Prefixes
<1> QED BY <1>1, <1>2 DEF H!ImagesOf

(* What a child of p receives as its neighbours are images of its sibling.    *)
LEMMA OverlapIsSiblings ==
    ASSUME H!ClusteringAssumption, Divided, NEW p \in H!Clusters, NEW c \in H!Children(p)
    PROVE  H!Overlapping(c) \subseteq part[p] \ part[c]
<1>1. H!Front(c) = p
  BY ChildrenBelow
<1>2. H!Across(c) \subseteq H!Within(part[p])
  BY <1>1 DEF H!Across
<1>3. UNION H!Within(part[p]) \subseteq part[p]
  BY DEF H!Within
<1> QED BY <1>2, <1>3 DEF H!Overlapping, H!Neighbours

LEMMA ImagesOfChildren ==
    ASSUME H!ClusteringAssumption, Divided, NEW p \in H!Clusters, H!Children(p) # {}
    PROVE  H!ImagesOf(p) = H!ImagesOf(Append(p, 0)) \cup H!ImagesOf(Append(p, 1))
<1> DEFINE q == Append(p, 0)
           r == Append(p, 1)
<1>1. H!Children(p) = {q, r} /\ part[p] = part[q] \cup part[r] /\ p \in H!Paths
  BY ClustersAre
<1>2. /\ H!Receives(q) = H!Receives(p) \cup {q}
      /\ H!Receives(r) = H!Receives(p) \cup {r}
  BY <1>1, BranchIs, ReceivesOfChild
<1>3. H!Overlapping(q) \subseteq part[p] /\ H!Overlapping(r) \subseteq part[p]
  BY <1>1, OverlapIsSiblings
<1> HIDE DEF q, r
<1> DEFINE U == UNION {H!Overlapping(x) : x \in H!Receives(p)}
<1>4. /\ H!ImagesOf(p) = part[p] \cup U
      /\ H!ImagesOf(q) = part[q] \cup U \cup H!Overlapping(q)
      /\ H!ImagesOf(r) = part[r] \cup U \cup H!Overlapping(r)
  <2>1. UNION {H!Overlapping(x) : x \in H!Receives(q)} = U \cup H!Overlapping(q)
    BY <1>2
  <2>2. UNION {H!Overlapping(x) : x \in H!Receives(r)} = U \cup H!Overlapping(r)
    BY <1>2
  <2> QED BY <2>1, <2>2 DEF H!ImagesOf
<1> QED BY <1>1, <1>3, <1>4 DEF q, r

-----------------------------------------------------------------------------
LEMMA ClusterCardinality == \A S : H!Cardinality(S) = Cardinality(S)
BY DEF H!Cardinality, Cardinality

(* The children of a cluster have as many images in common as an alignment    *)
(* needs.                                                                     *)
SiblingsShare ==
    \A p \in H!Clusters : H!Children(p) # {} =>
        Cardinality(H!ImagesOf(Append(p, 0)) \cap H!ImagesOf(Append(p, 1))) >= H!MinCommon

(* Nothing went wrong so far. *)
Smooth == whole /\ alignable = SceneImages /\ ~cfailed /\ SiblingsShare

(* Then a cluster has one model, with all its images, or is being merged from *)
(* two such.                                                                  *)
OneOrTwo(m) ==
    \/ m.models = <<H!ImagesOf(m.cluster)>>
    \/ m.models = <<H!ImagesOf(Append(m.cluster, 0)), H!ImagesOf(Append(m.cluster, 1))>>
OneModelEach ==
    Smooth =>
        /\ \A p \in DOMAIN managers \ OnTheWay : managers[p] = <<H!ImagesOf(p)>>
        /\ merging.busy => OneOrTwo(merging)

LEMMA OneAndOne == \A a, b : <<a>> \o <<b>> = <<a, b>>
<1> SUFFICES ASSUME NEW a, NEW b PROVE <<a>> \o <<b>> = <<a, b>>
  OBVIOUS
<1> DEFINE X == {a, b}
           s == <<a>>
           t == <<b>>
           u == <<a, b>>
<1>1. /\ s \in Seq(X) /\ Len(s) = 1 /\ s[1] = a
      /\ t \in Seq(X) /\ Len(t) = 1 /\ t[1] = b
      /\ u \in Seq(X) /\ Len(u) = 2 /\ u[1] = a /\ u[2] = b
  OBVIOUS
<1> HIDE DEF X, s, t, u
<1>2. /\ s \o t \in Seq(X) /\ Len(s \o t) = Len(s) + Len(t)
      /\ \A i \in 1 .. Len(s) + Len(t) : (s \o t)[i] = IF i <= Len(s) THEN s[i] ELSE t[i - Len(s)]
  BY <1>1, ConcatProperties
<1>3. Len(s \o t) = 2
  BY <1>1, <1>2
<1>4. \A i \in 1 .. 2 : i = 1 \/ i = 2
  OBVIOUS
<1>5. (s \o t)[1] = a /\ (s \o t)[2] = b
  <2>1. 1 \in 1 .. Len(s) + Len(t) /\ 2 \in 1 .. Len(s) + Len(t) /\ 1 <= Len(s) /\ ~(2 <= Len(s))
        /\ 2 - Len(s) = 1
    BY <1>1
  <2> QED BY <1>1, <1>2, <2>1
<1>6. \A i \in 1 .. Len(s \o t) : (s \o t)[i] = u[i]
  BY <1>1, <1>3, <1>4, <1>5
<1>7. s \o t = u
  BY <1>1, <1>2, <1>3, <1>6, SeqEqual
<1> QED BY <1>7 DEF s, t, u

LEMMA SmoothSame ==
    ASSUME ClusterInv, part' = part, alignable' = alignable, cfailed' = cfailed \/ cfailed' = TRUE,
           whole' => whole, Smooth'
    PROVE  Smooth
<1>1. SiblingsShare' = SiblingsShare
  <2>1. /\ H!Clusters' = H!Clusters
        /\ \A q : H!Children(q)' = H!Children(q) /\ H!ImagesOf(q)' = H!ImagesOf(q)
    BY SameTree
  <2> QED BY <2>1 DEF SiblingsShare
<1> QED BY <1>1 DEF Smooth

(* What the merge of two models makes of them. *)
LEMMA TwoMerged ==
    ASSUME NEW a \in SUBSET SceneImages, NEW b \in SUBSET SceneImages,
           merging.models = <<a, b>>, H!Pairs # {}
    PROVE  H!Merged(H!First(H!Pairs)[1], H!First(H!Pairs)[2]) = <<a \cup b>>
<1> DEFINE s == merging.models
           x == H!First(H!Pairs)
           t == [s EXCEPT ![2] = @ \cup s[1]]
<1>1. s \in Models /\ Len(s) = 2 /\ DOMAIN s = 1 .. 2 /\ s[1] = a /\ s[2] = b
  BY DEF Models
<1>2. x[1] = 2 /\ x[2] = 1
  <2>1. x[1] \in DOMAIN s /\ x[2] \in DOMAIN s /\ x[2] < x[1]
    BY <1>1, PairTaken
  <2> HIDE DEF s, x
  <2>2. \A u, v \in {1, 2} : v < u => u = 2 /\ v = 1
    OBVIOUS
  <2>3. DOMAIN s = {1, 2}
    BY <1>1
  <2>4. x[1] \in {1, 2} /\ x[2] \in {1, 2} /\ x[2] < x[1]
    BY <2>1, <2>3
  <2> QED BY <2>2, <2>4
<1>3. H!Merged(x[1], x[2]) = H!RemoveAt(t, 1)
  <2> HIDE DEF x
  <2> QED BY <1>2 DEF H!Merged
<1>4. t \in Seq(SUBSET SceneImages) /\ Len(t) = 2 /\ t[2] = b \cup a
  <2> HIDE DEF s
  <2>1. s[2] \cup s[1] \in SUBSET SceneImages /\ 2 \in 1 .. Len(s)
    BY <1>1
  <2>2. s \in Seq(SUBSET SceneImages)
    BY <1>1 DEF Models
  <2>3. t \in Seq(SUBSET SceneImages) /\ Len(t) = Len(s)
    BY <2>1, <2>2, ExceptSeq
  <2>4. t[2] = s[2] \cup s[1]
    BY <1>1
  <2> QED BY <1>1, <2>3, <2>4
<1> HIDE DEF t, s, x
<1>5. /\ H!RemoveAt(t, 1) \in Seq(SUBSET SceneImages) /\ Len(H!RemoveAt(t, 1)) = 1
      /\ H!RemoveAt(t, 1)[1] = t[2]
  <2>1. 1 \in 1 .. Len(t)
    BY <1>4
  <2>2. /\ H!RemoveAt(t, 1) \in Seq(SUBSET SceneImages) /\ Len(H!RemoveAt(t, 1)) = Len(t) - 1
        /\ \A k \in 1 .. Len(t) - 1 : H!RemoveAt(t, 1)[k] = IF k < 1 THEN t[k] ELSE t[k + 1]
    BY <1>4, <2>1, RemovedAt
  <2> QED BY <1>4, <2>2
<1>6. H!RemoveAt(t, 1) = <<a \cup b>>
  <2> DEFINE u == H!RemoveAt(t, 1)
  <2>1. u \in Seq(SUBSET SceneImages) /\ Len(u) = 1 /\ u[1] = a \cup b
    BY <1>4, <1>5
  <2> HIDE DEF u
  <2>2. <<a \cup b>> \in Seq(SUBSET SceneImages) /\ Len(<<a \cup b>>) = 1 /\ <<a \cup b>>[1] = a \cup b
    OBVIOUS
  <2>3. \A i \in 1 .. Len(u) : u[i] = <<a \cup b>>[i]
    <3>1. \A i \in 1 .. 1 : i = 1
      OBVIOUS
    <3> DEFINE v == <<a \cup b>>
    <3>2. v[1] = a \cup b
      BY <2>2
    <3> HIDE DEF v
    <3>3. \A i \in 1 .. Len(u) : u[i] = v[i]
      BY <2>1, <3>1, <3>2
    <3> QED BY <3>3 DEF v
  <2> QED BY <2>1, <2>2, <2>3, SeqEqual DEF u
<1> QED BY <1>3, <1>6 DEF x

LEMMA OneNotPaired ==
    ASSUME NEW a, merging.models = <<a>> PROVE H!Pairs = {}
<1>1. DOMAIN merging.models = {1}
  <2>1. DOMAIN <<a>> = {1}
    OBVIOUS
  <2> QED BY <2>1
<1>2. \A x \in {1} \X {1} : ~(x[2] < x[1])
  OBVIOUS
<1> QED BY <1>1, <1>2 DEF H!Pairs

LEMMA TwoPaired ==
    ASSUME NEW a \in SUBSET SceneImages, NEW b \in SUBSET SceneImages,
           merging.models = <<a, b>>, alignable = SceneImages, Cardinality(a \cap b) >= H!MinCommon
    PROVE  H!Pairs # {}
<1>1. DOMAIN merging.models = {1, 2} /\ merging.models[1] = a /\ merging.models[2] = b
  <2>1. DOMAIN <<a, b>> = {1, 2} /\ <<a, b>>[1] = a /\ <<a, b>>[2] = b
    OBVIOUS
  <2> QED BY <2>1
<1>2. H!Align(2, 1)
  <2>1. merging.models[2] \cap merging.models[1] \cap alignable = a \cap b
    BY <1>1
  <2> QED BY <2>1, ClusterCardinality DEF H!Align
<1>3. <<2, 1>> \in {1, 2} \X {1, 2} /\ <<2, 1>>[2] < <<2, 1>>[1] /\ <<2, 1>>[1] = 2 /\ <<2, 1>>[2] = 1
  OBVIOUS
<1> QED BY <1>1, <1>2, <1>3 DEF H!Pairs

LEMMA StepsAreSmooth ==
    ASSUME ClusterInv, [H!Next]_(H!vars)
    PROVE  /\ part' = part /\ alignable' = alignable /\ (cfailed' = cfailed \/ cfailed' = TRUE)
           /\ whole' => whole
<1>1. ASSUME NEW w \in Workers, H!Map(w)
      PROVE  part' = part /\ alignable' = alignable /\ cfailed' = cfailed /\ (whole' => whole)
  BY <1>1 DEF H!Map
<1>2. ASSUME NEW w \in Workers, H!Take(w)
      PROVE  part' = part /\ alignable' = alignable /\ cfailed' = cfailed /\ whole' = whole
  BY <1>2 DEF H!Take
<1>3. ASSUME NEW w \in Workers, H!MapThrows(w)
      PROVE  part' = part /\ alignable' = alignable /\ cfailed' = TRUE /\ whole' = whole
  BY <1>3 DEF H!MapThrows
<1>4. CASE H!AddTask \/ H!EndMapping \/ H!BeginMerge \/ H!MergePair
  <2>1. part' = part /\ alignable' = alignable /\ cfailed' = cfailed /\ whole' = whole
    BY <1>4 DEF H!AddTask, H!EndMapping, H!BeginMerge, H!MergePair
  <2> QED BY <2>1
<1>5. CASE H!EndMerge \/ H!EndRun \/ H!Ended \/ UNCHANGED H!vars
  <2>1. part' = part /\ alignable' = alignable /\ cfailed' = cfailed /\ whole' = whole
    BY <1>5 DEF H!EndMerge, H!EndRun, H!Ended, H!vars
  <2> QED BY <2>1
<1> QED BY <1>1, <1>2, <1>3, <1>4, <1>5 DEF H!Next

LEMMA OneModelStep ==
    ASSUME H!ClusteringAssumption, ClusterInv, OneModelEach, [H!Next]_(H!vars)
    PROVE  OneModelEach'
<1> SUFFICES ASSUME Smooth'
             PROVE  /\ \A q \in DOMAIN managers' \ OnTheWay' : managers'[q] = <<H!ImagesOf(q)>>'
                    /\ merging.busy' => OneOrTwo(merging)'
  BY DEF OneModelEach
<1>1. /\ part' = part /\ alignable' = alignable /\ (cfailed' = cfailed \/ cfailed' = TRUE)
      /\ whole' => whole
  BY StepsAreSmooth
<1>2. Smooth /\ ~cfailed' /\ whole' /\ alignable = SceneImages /\ SiblingsShare
  <2>1. Smooth
    BY <1>1, SmoothSame
  <2> QED BY <2>1 DEF Smooth
<1>3. /\ \A q \in DOMAIN managers \ OnTheWay : managers[q] = <<H!ImagesOf(q)>>
      /\ merging.busy => OneOrTwo(merging)
  BY <1>2 DEF OneModelEach
<1>4. \A q : H!ImagesOf(q)' = H!ImagesOf(q)
  BY <1>1, SameTree
<1>5. \A q : <<H!ImagesOf(q)>>' = <<H!ImagesOf(q)>>
  BY <1>4
(* What is left to show, in terms of the state before the step. *)
<1>6. ASSUME \A q \in DOMAIN managers' \ OnTheWay' : managers'[q] = <<H!ImagesOf(q)>>,
             merging'.busy => OneOrTwo(merging')
      PROVE  /\ \A q \in DOMAIN managers' \ OnTheWay' : managers'[q] = <<H!ImagesOf(q)>>'
             /\ merging.busy' => OneOrTwo(merging)'
  <2>1. OneOrTwo(merging)' = OneOrTwo(merging')
    BY <1>1 DEF OneOrTwo, H!ImagesOf, H!Overlapping, H!Neighbours, H!Best, H!Across
  <2> QED BY <1>5, <1>6, <2>1
<1> DEFINE Goal == /\ \A q \in DOMAIN managers' \ OnTheWay' : managers'[q] = <<H!ImagesOf(q)>>
                   /\ merging'.busy => OneOrTwo(merging')
<1> HIDE DEF Goal
<1>7. ASSUME H!AddTask PROVE Goal
  <2>1. SettledStay /\ merging' = merging
    BY <1>7, LeafAddedKeeps DEF H!AddTask
  <2> QED BY <1>3, <2>1 DEF Goal, SettledStay
<1>8. ASSUME NEW w \in Workers, H!Take(w) PROVE Goal
  <2>1. SettledStay /\ merging' = merging
    BY <1>8, TakeLeafKeeps DEF H!Take
  <2> QED BY <1>3, <2>1 DEF Goal, SettledStay
<1>9. ASSUME NEW w \in Workers, H!Map(w) PROVE Goal
  <2> DEFINE p == mapping[w]
  <2>1. /\ p # H!NoLeaf /\ mapping' = [mapping EXCEPT ![w] = H!NoLeaf]
        /\ ctasks' = ctasks /\ merging' = merging
    BY <1>9 DEF H!Map
  <2>2. PICK models \in Results(H!ImagesOf(p)) :
            managers' = H!Put(p, models) /\ whole' = (whole /\ models = <<H!ImagesOf(p)>>)
    BY <1>9 DEF H!Map
  <2>3. OnTheWay' = OnTheWay \ {p} /\ p \in DOMAIN managers
    BY <1>1, <2>1, WorkerLeaves
  <2> HIDE DEF p
  <2>4. models = <<H!ImagesOf(p)>>
    BY <1>2, <2>2
  <2>5. /\ (DOMAIN managers)' = DOMAIN managers /\ managers'[p] = models
        /\ \A q \in DOMAIN managers : q # p => managers'[q] = managers[q]
    BY <2>2, <2>3 DEF H!Put
  <2>6. \A q \in DOMAIN managers' \ OnTheWay' :
            q = p \/ (q # p /\ q \in DOMAIN managers \ OnTheWay)
    BY <2>3, <2>5
  <2> QED BY <1>3, <2>1, <2>4, <2>5, <2>6 DEF Goal
<1>10. ASSUME NEW w \in Workers, H!MapThrows(w) PROVE Goal
  <2>1. cfailed'
    BY <1>10 DEF H!MapThrows
  <2> QED BY <1>2, <2>1
<1>11. ASSUME H!EndMapping PROVE Goal
  <2>1. /\ managers' = managers /\ merging' = merging /\ mapping' = mapping /\ ctasks' = ctasks
    BY <1>11 DEF H!EndMapping
  <2>2. OnTheWay' = OnTheWay
    BY <2>1 DEF OnTheWay, LeavesMapped, H!NoLeaf
  <2> QED BY <1>3, <2>1, <2>2 DEF Goal
<1>12. ASSUME H!BeginMerge PROVE Goal
  <2>1. PICK p \in H!Clusters \ H!Leaves :
            /\ H!Children(p) \subseteq DOMAIN managers
            /\ merging' = [cluster |-> p, busy |-> TRUE,
                           models |-> managers[Append(p, 0)] \o managers[Append(p, 1)]]
    BY <1>12 DEF H!BeginMerge
  <2>2. /\ cat = "merge" /\ cat' = cat /\ part' = part /\ ctasks' = ctasks
        /\ mapping' = mapping /\ managers' = managers
    BY <1>12 DEF H!BeginMerge
  <2>3. OnTheWay = {} /\ OnTheWay' = {}
    BY <2>2, MergeLeaves
  <2>4. H!Children(p) = {Append(p, 0), Append(p, 1)}
    BY ClustersAre DEF ClusterInv, H!Leaves
  <2>5. /\ managers[Append(p, 0)] = <<H!ImagesOf(Append(p, 0))>>
        /\ managers[Append(p, 1)] = <<H!ImagesOf(Append(p, 1))>>
    BY <1>3, <2>1, <2>3, <2>4
  <2>7. merging'.cluster = p /\ merging'.models = managers[Append(p, 0)] \o managers[Append(p, 1)]
    BY <2>1
  <2>8. merging'.models = <<H!ImagesOf(Append(p, 0)), H!ImagesOf(Append(p, 1))>>
    BY <2>5, <2>7, OneAndOne
  <2>9. OneOrTwo(merging')
    BY <2>7, <2>8 DEF OneOrTwo
  <2> QED BY <1>3, <2>2, <2>3, <2>9 DEF Goal
<1>13. ASSUME merging.busy
       PROVE  /\ merging.cluster \in H!Clusters /\ H!Children(merging.cluster) # {}
              /\ H!ImagesOf(Append(merging.cluster, 0)) \in SUBSET SceneImages
              /\ H!ImagesOf(Append(merging.cluster, 1)) \in SUBSET SceneImages
              /\ H!ImagesOf(merging.cluster)
                    = H!ImagesOf(Append(merging.cluster, 0)) \cup H!ImagesOf(Append(merging.cluster, 1))
              /\ Cardinality(H!ImagesOf(Append(merging.cluster, 0))
                                \cap H!ImagesOf(Append(merging.cluster, 1))) >= H!MinCommon
  <2> DEFINE m == merging.cluster
  <2>1. m \in H!Clusters /\ H!Children(m) # {} /\ Divided
    BY <1>13 DEF ClusterInv, MergingRight
  <2> HIDE DEF m
  <2>2. Append(m, 0) \in H!Clusters /\ Append(m, 1) \in H!Clusters
    <3>1. H!Children(m) = {Append(m, 0), Append(m, 1)}
      BY <2>1, ClustersAre
    <3> QED BY <3>1 DEF H!Children
  <2>3. /\ H!ImagesOf(Append(m, 0)) \in SUBSET SceneImages
        /\ H!ImagesOf(Append(m, 1)) \in SUBSET SceneImages
    BY <2>1, <2>2, ImagesOfType
  <2>4. H!ImagesOf(m) = H!ImagesOf(Append(m, 0)) \cup H!ImagesOf(Append(m, 1))
    BY <2>1, ImagesOfChildren
  <2>5. Cardinality(H!ImagesOf(Append(m, 0)) \cap H!ImagesOf(Append(m, 1))) >= H!MinCommon
    BY <1>2, <2>1 DEF SiblingsShare
  <2> QED BY <2>1, <2>3, <2>4, <2>5 DEF m
<1>14. ASSUME H!MergePair PROVE Goal
  <2> DEFINE x == H!First(H!Pairs)
             a == H!ImagesOf(Append(merging.cluster, 0))
             b == H!ImagesOf(Append(merging.cluster, 1))
  <2>1. /\ cat = "merge" /\ cat' = cat /\ merging.busy /\ H!Pairs # {}
        /\ merging' = [merging EXCEPT !.models = H!Merged(x[1], x[2])]
        /\ managers' = managers /\ mapping' = mapping /\ ctasks' = ctasks
    BY <1>14 DEF H!MergePair
  <2>2. merging.models = <<a, b>>
    <3>1. merging.models # <<H!ImagesOf(merging.cluster)>>
      BY <2>1, OneNotPaired
    <3> QED BY <1>3, <2>1, <3>1 DEF OneOrTwo
  <2>3. H!Merged(x[1], x[2]) = <<a \cup b>>
    <3>1. a \in SUBSET SceneImages /\ b \in SUBSET SceneImages
      BY <1>13, <2>1
    <3> HIDE DEF a, b
    <3> QED BY <2>1, <2>2, <3>1, TwoMerged
  <2>4. H!ImagesOf(merging.cluster) = a \cup b
    BY <1>13, <2>1
  <2>5. OnTheWay' = OnTheWay
    BY <2>1 DEF OnTheWay, LeavesMapped, H!NoLeaf
  <2>6. merging'.cluster = merging.cluster /\ merging'.models = H!Merged(x[1], x[2])
    <3>1. merging \in [cluster : H!Paths, models : Models, busy : BOOLEAN]
      BY HierarchyTypes
    <3> HIDE DEF x
    <3> QED BY <2>1, <3>1
  <2> HIDE DEF x, a, b
  <2>7. merging'.models = <<H!ImagesOf(merging'.cluster)>>
    BY <2>3, <2>4, <2>6
  <2>8. OneOrTwo(merging')
    BY <2>7 DEF OneOrTwo
  <2> QED BY <1>3, <2>1, <2>5, <2>8 DEF Goal
<1>15. ASSUME H!EndMerge PROVE Goal
  <2> DEFINE m == merging.cluster
             a == H!ImagesOf(Append(m, 0))
             b == H!ImagesOf(Append(m, 1))
  <2>1. /\ cat = "merge" /\ cat' = cat /\ merging.busy /\ H!Pairs = {}
        /\ managers' = H!Restrict(H!Put(m, merging.models), (DOMAIN managers \cup {m}) \ H!Children(m))
        /\ merging' = H!Nothing /\ mapping' = mapping /\ ctasks' = ctasks /\ part' = part
    BY <1>15 DEF H!EndMerge, H!Erased
  <2>2. merging.models = <<H!ImagesOf(m)>>
    <3>1. /\ a \in SUBSET SceneImages /\ b \in SUBSET SceneImages
          /\ Cardinality(a \cap b) >= H!MinCommon
      BY <1>13, <2>1
    <3>2. merging.models # <<a, b>>
      <4> HIDE DEF a, b
      <4> QED BY <1>2, <2>1, <3>1, TwoPaired
    <3> QED BY <1>3, <2>1, <3>2 DEF OneOrTwo
  <2>3. OnTheWay = {} /\ OnTheWay' = {}
    BY <2>1, MergeLeaves
  <2> HIDE DEF m, a, b
  <2>4. /\ DOMAIN managers' = (DOMAIN managers \cup {m}) \ H!Children(m)
        /\ \A q \in (DOMAIN managers \cup {m}) \ H!Children(m) :
              managers'[q] = IF q = m THEN merging.models ELSE managers[q]
    BY <2>1 DEF H!Put, H!Restrict
  <2>5. ASSUME NEW q \in DOMAIN managers' PROVE managers'[q] = <<H!ImagesOf(q)>>
    <3>1. CASE q = m
      BY <2>2, <2>4, <3>1
    <3>2. CASE q # m
      BY <1>3, <2>3, <2>4, <3>2
    <3> QED BY <3>1, <3>2
  <2>6. ~merging'.busy
    BY <2>1 DEF H!Nothing
  <2> QED BY <2>5, <2>6 DEF Goal
<1>16. ASSUME H!EndRun \/ H!Ended \/ UNCHANGED H!vars PROVE Goal
  <2>1. /\ managers' = managers /\ merging' = merging /\ mapping' = mapping /\ ctasks' = ctasks
    BY <1>16 DEF H!EndRun, H!Ended, H!vars
  <2>2. OnTheWay' = OnTheWay
    BY <2>1 DEF OnTheWay, LeavesMapped, H!NoLeaf
  <2> QED BY <1>3, <2>1, <2>2 DEF Goal
<1>17. Goal
  BY <1>7, <1>8, <1>9, <1>10, <1>11, <1>12, <1>14, <1>15, <1>16 DEF H!Next
<1> QED BY <1>6, <1>17 DEF Goal

LEMMA OneModelInvariance == H!ClusteringAssumption /\ H!Spec => [](ClusterInv /\ OneModelEach)
<1>1. H!ClusteringAssumption /\ H!Init => OneModelEach
  BY DEF H!Init, H!Nothing, OneModelEach
<1>2. /\ H!ClusteringAssumption /\ ClusterInv /\ ClusterInv' /\ OneModelEach
      /\ [H!Next]_(H!vars)
      => OneModelEach'
  BY OneModelStep
<1>3. H!ClusteringAssumption => H!ClusteringAssumption'
  BY DEF H!ClusteringAssumption
<1> QED BY <1>1, <1>2, <1>3, ClusterInvariance, PTL DEF H!Spec

(* What the scene and the options give: three images on either side of the    *)
(* first cut are matched across it, and as many are inserted.                 *)
Overlapped == H!Crossed /\ ImageOverlap >= H!MinCommon

LEMMA MergedAtTheEnd ==
    ASSUME H!ClusteringAssumption, ClusterInv, OneModelEach, Overlapped => SiblingsShare
    PROVE  H!AllMerged
<1> SUFFICES ASSUME cat \in {"done", "threw"}, ~cfailed, whole, alignable = SceneImages, Overlapped
             PROVE  cat = "done" /\ managers[<<>>] = <<UNION H!Edges>>
  BY DEF H!AllMerged, Overlapped
<1>1. Smooth
  BY DEF Smooth
<1>2. DOMAIN managers = {<<>>} /\ OnTheWay = {}
  BY DEF ClusterInv
<1>3. managers[<<>>] = <<H!ImagesOf(<<>>)>>
  BY <1>1, <1>2 DEF OneModelEach
<1>4. managers[<<>>] # <<>>
  <2>1. \A a : <<a>> # <<>>
    OBVIOUS
  <2> QED BY <1>3, <2>1
<1>5. cat = "done"
  BY <1>4 DEF ClusterInv
<1> QED BY <1>3, <1>5, RootImages DEF ClusterInv

-----------------------------------------------------------------------------
(* An element of a finite set where a function has its greatest value.        *)
LEMMA Topmost ==
    ASSUME NEW S, IsFiniteSet(S), S # {}, NEW f \in [S -> Nat]
    PROVE  \E x \in S : \A y \in S : f[y] <= f[x]
<1> DEFINE above(x) == {y \in S : f[y] > f[x]}
           T == {Cardinality(above(x)) : x \in S}
<1>1. \A x \in S : IsFiniteSet(above(x)) /\ Cardinality(above(x)) \in Nat
  <2> SUFFICES ASSUME NEW x \in S
               PROVE  IsFiniteSet(above(x)) /\ Cardinality(above(x)) \in Nat
    OBVIOUS
  <2>1. above(x) \in SUBSET S
    OBVIOUS
  <2> HIDE DEF above
  <2> QED BY <2>1, FS_Subset, FS_CardinalityType
<1>2. PICK x \in S : \A y \in S : Cardinality(above(x)) <= Cardinality(above(y))
  <2>1. T \in SUBSET Nat /\ T # {}
    <3> HIDE DEF above
    <3> QED BY <1>1
  <2> HIDE DEF T
  <2>2. PICK c \in T : \A d \in T : c <= d
    BY <2>1, Least
  <2> HIDE DEF above
  <2>3. PICK x \in S : c = Cardinality(above(x))
    BY <2>2 DEF T
  <2>4. \A y \in S : Cardinality(above(y)) \in T
    BY DEF T
  <2> QED BY <2>2, <2>3, <2>4
<1>3. ASSUME NEW y \in S, f[y] > f[x] PROVE FALSE
  <2>1. above(y) \subseteq above(x) /\ y \in above(x) /\ y \notin above(y)
    <3>1. \A z \in S : f[z] > f[y] => f[z] > f[x]
      BY <1>3
    <3>2. ~(f[y] > f[y])
      BY <1>3
    <3> QED BY <1>3, <3>1, <3>2
  <2> HIDE DEF above
  <2>2. /\ Cardinality(above(y)) <= Cardinality(above(x))
        /\ Cardinality(above(x)) = Cardinality(above(y)) => above(x) = above(y)
    BY <1>1, <2>1, FS_Subset
  <2>3. Cardinality(above(x)) <= Cardinality(above(y))
    BY <1>2
  <2>4. Cardinality(above(x)) \in Nat /\ Cardinality(above(y)) \in Nat
    BY <1>1
  <2> QED BY <2>1, <2>2, <2>3, <2>4
<1>4. ASSUME NEW y \in S PROVE f[y] <= f[x]
  <2>1. f[y] \in Nat /\ f[x] \in Nat /\ ~(f[y] > f[x])
    BY <1>3
  <2> QED BY <2>1
<1> QED BY <1>4

LEMMA AcrossFinite ==
    ASSUME H!ClusteringAssumption, NEW q
    PROVE  /\ H!Across(q) \subseteq H!Edges /\ IsFiniteSet(H!Across(q))
           /\ H!Neighbours(q) \subseteq SceneImages /\ IsFiniteSet(H!Neighbours(q))
<1>1. IsFiniteSet(SceneImages) /\ H!Edges \subseteq SUBSET SceneImages
  BY DEF H!ClusteringAssumption, H!IsFiniteSet, IsFiniteSet
<1>2. H!Across(q) \subseteq H!Edges
  BY DEF H!Across, H!Within
<1>3. IsFiniteSet(H!Across(q))
  <2>1. IsFiniteSet(SUBSET SceneImages) /\ H!Across(q) \in SUBSET (SUBSET SceneImages)
    BY <1>1, <1>2, FS_SUBSET
  <2> QED BY <2>1, FS_Subset
<1>4. H!Neighbours(q) \subseteq SceneImages
  BY <1>1, <1>2 DEF H!Neighbours
<1> QED BY <1>1, <1>2, <1>3, <1>4, FS_Subset

(* The heaviest edge of a neighbour has a weight. *)
LEMMA BestIs ==
    ASSUME H!ClusteringAssumption, NEW q, NEW i \in H!Neighbours(q)
    PROVE  H!Best(i, q) \in Nat
<1> DEFINE S == {e \in H!Across(q) : i \in e}
           f == [e \in S |-> NumInliers[e]]
           W == {NumInliers[e] : e \in S}
<1>1. S # {} /\ IsFiniteSet(S) /\ S \subseteq H!Edges
  <2>1. S # {}
    BY DEF H!Neighbours
  <2>2. S \in SUBSET H!Across(q)
    OBVIOUS
  <2> HIDE DEF S
  <2> QED BY <2>1, <2>2, AcrossFinite, FS_Subset
<1>2. f \in [S -> Nat]
  <2>1. \A e \in H!Edges : NumInliers[e] \in Nat
    BY DEF H!ClusteringAssumption
  <2> HIDE DEF S
  <2> QED BY <1>1, <2>1
<1>3. PICK e \in S : \A d \in S : f[d] <= f[e]
  <2> HIDE DEF S, f
  <2> QED BY <1>1, <1>2, Topmost
<1>4. NumInliers[e] \in W /\ \A d \in H!Across(q) : i \in d => NumInliers[d] <= NumInliers[e]
  BY <1>3
<1>5. H!Best(i, q) = CHOOSE w \in W : \A d \in H!Across(q) : i \in d => NumInliers[d] <= w
  BY DEF H!Best
<1>6. W \subseteq Nat
  <2> HIDE DEF S
  <2>1. \A d \in S : NumInliers[d] \in Nat
    BY <1>2
  <2> QED BY <2>1
<1> HIDE DEF W, S, f
<1> QED BY <1>4, <1>5, <1>6

(* A side with enough neighbours receives enough of them: all, or the ones    *)
(* with heavier matches than the first that it does not receive.              *)
LEMMA OverlapEnough ==
    ASSUME H!ClusteringAssumption, NEW q, NEW m \in Nat, ImageOverlap >= m,
           Cardinality(H!Neighbours(q)) >= m
    PROVE  Cardinality(H!Overlapping(q)) >= m
<1> DEFINE S == H!Neighbours(q)
           O == H!Overlapping(q)
           R == S \ O
           f == [i \in R |-> H!Best(i, q)]
<1>1. O \subseteq S /\ IsFiniteSet(S) /\ IsFiniteSet(O) /\ IsFiniteSet(R)
  <2>1. IsFiniteSet(S) /\ O \in SUBSET S /\ R \in SUBSET S
    BY AcrossFinite DEF H!Overlapping
  <2> HIDE DEF S, O, R
  <2> QED BY <2>1, FS_Subset
<1>2. \A i \in S : H!Best(i, q) \in Nat
  BY BestIs
<1>3. CASE R = {}
  <2>1. O = S
    BY <1>1, <1>3
  <2> QED BY <2>1
<1>4. CASE R # {}
  <2>1. f \in [R -> Nat]
    <3> HIDE DEF S, O
    <3> QED BY <1>2
  <2>2. PICK i \in R : \A n \in R : f[n] <= f[i]
    <3> HIDE DEF f, R
    <3> QED BY <1>1, <1>4, <2>1, Topmost
  <2> DEFINE heavier == {n \in S : H!Best(n, q) > H!Best(i, q)}
  <2>3. heavier \subseteq O
    <3> SUFFICES ASSUME NEW n \in S, H!Best(n, q) > H!Best(i, q), n \notin O PROVE FALSE
      OBVIOUS
    <3>1. n \in R /\ H!Best(n, q) <= H!Best(i, q)
      BY <2>2
    <3>2. H!Best(n, q) \in Nat /\ H!Best(i, q) \in Nat
      BY <1>2, <2>2
    <3> QED BY <3>1, <3>2
  <2>4. ~(Cardinality(heavier) < ImageOverlap)
    <3>1. i \in S /\ i \notin O
      BY <2>2
    <3> QED BY <3>1, ClusterCardinality DEF H!Overlapping
  <2> HIDE DEF heavier, O
  <2>5. Cardinality(heavier) <= Cardinality(O) /\ Cardinality(heavier) \in Nat /\ Cardinality(O) \in Nat
    <3>1. IsFiniteSet(heavier)
      BY <1>1, <2>3, FS_Subset
    <3> QED BY <1>1, <2>3, <3>1, FS_Subset, FS_CardinalityType
  <2>6. ImageOverlap \in Nat
    BY DEF H!ClusteringAssumption
  <2> QED BY <2>4, <2>5, <2>6 DEF O
<1> QED BY <1>3, <1>4

LEMMA FirstCutOverlaps ==
    ASSUME H!ClusteringAssumption, Overlapped, NEW f \in H!Children(<<>>)
    PROVE  Cardinality(H!Overlapping(f)) >= H!MinCommon
<1>1. Cardinality(H!Neighbours(f)) >= H!MinCommon /\ ImageOverlap >= H!MinCommon
  BY ClusterCardinality DEF Overlapped, H!Crossed
<1>2. H!MinCommon \in Nat
  BY DEF H!MinCommon
<1> QED BY <1>1, <1>2, OverlapEnough

(* The children of a cluster share what the first cut inserted into one of    *)
(* them, or into the cluster.                                                 *)
LEMMA OverlapIsShared ==
    ASSUME H!ClusteringAssumption, Divided, Overlapped
    PROVE  SiblingsShare
<1> SUFFICES ASSUME NEW p \in H!Clusters, H!Children(p) # {}
             PROVE  Cardinality(H!ImagesOf(Append(p, 0)) \cap H!ImagesOf(Append(p, 1))) >= H!MinCommon
  BY DEF SiblingsShare
<1> DEFINE q == Append(p, 0)
           r == Append(p, 1)
           C == H!ImagesOf(q) \cap H!ImagesOf(r)
<1>1. /\ H!Children(p) = {q, r} /\ part[p] = part[q] \cup part[r] /\ p \in H!Paths
      /\ q \in H!Children(p) /\ r \in H!Children(p)
  <2>1. H!Children(p) = {q, r} /\ part[p] = part[q] \cup part[r] /\ p \in H!Paths
    BY ClustersAre
  <2> HIDE DEF q, r
  <2> QED BY <2>1
<1>2. /\ H!Receives(q) = H!Receives(p) \cup {q}
      /\ H!Receives(r) = H!Receives(p) \cup {r}
  BY <1>1, BranchIs, ReceivesOfChild
<1>3. C \subseteq SceneImages
  BY <1>1, ImagesOfType DEF H!Children
<1> HIDE DEF q, r
<1>4. ASSUME p = <<>>
      PROVE  \E g \in H!Children(<<>>) : H!Overlapping(g) \subseteq C
  <2>1. q \in H!Children(<<>>) /\ H!Overlapping(q) \subseteq part[p] \ part[q]
    BY <1>1, <1>4, OverlapIsSiblings
  <2>2. H!Overlapping(q) \subseteq H!ImagesOf(q)
    BY <1>2 DEF H!ImagesOf
  <2>3. part[r] \subseteq H!ImagesOf(r)
    BY DEF H!ImagesOf
  <2>4. H!Overlapping(q) \subseteq C
    BY <1>1, <2>1, <2>2, <2>3
  <2> QED BY <2>1, <2>4
<1>5. ASSUME p # <<>>
      PROVE  \E g \in H!Children(<<>>) : H!Overlapping(g) \subseteq C
  <2> DEFINE f == SubSeq(p, 1, 1)
  <2>1. Len(p) \in Nat /\ Len(p) > 0 /\ p \in Seq(H!Branch)
    BY <1>1, <1>5, PathSteps
  <2>2. 1 \in 0 .. Len(p)
    BY <2>1
  <2>3. f \in H!Clusters /\ f \in Seq(H!Branch) /\ Len(f) = 1
    BY <2>1, <2>2, PrefixesAreClusters, FirstOnes
  <2>4. f \in H!Receives(p)
    <3>1. f \in H!Prefixes(p)
      BY <2>2 DEF H!Prefixes
    <3> HIDE DEF f
    <3>2. Len(f) = 1 /\ Len(<<>>) = 0
      BY <2>3, EmptySeq
    <3>3. f # <<>>
      BY <3>2
    <3> QED BY <3>1, <3>3 DEF H!Receives
  <2> HIDE DEF f
  <2>5. f \in H!Children(<<>>)
    <3>1. f \in H!Paths /\ f # <<>>
      BY <2>3, ClustersAre, EmptySeq
    <3>2. H!Front(f) \in H!Paths /\ Len(H!Front(f)) = 0 /\ H!Last(f) \in H!Branch
          /\ f = Append(H!Front(f), H!Last(f))
      BY <2>3, <3>1, PathSteps
    <3>3. H!Front(f) = <<>>
      BY <3>2, PathSteps, EmptySeq
    <3> QED BY <2>3, <3>2, <3>3 DEF H!Children
  <2>6. H!Overlapping(f) \subseteq H!ImagesOf(q) /\ H!Overlapping(f) \subseteq H!ImagesOf(r)
    BY <1>2, <2>4 DEF H!ImagesOf
  <2> QED BY <2>5, <2>6
<1>6. PICK f \in H!Children(<<>>) : H!Overlapping(f) \subseteq C
  BY <1>4, <1>5
<1>7. IsFiniteSet(C) /\ Cardinality(C) \in Nat
  <2>1. IsFiniteSet(SceneImages)
    BY DEF H!ClusteringAssumption, H!IsFiniteSet, IsFiniteSet
  <2> HIDE DEF C
  <2> QED BY <1>3, <2>1, FS_Subset, FS_CardinalityType
<1>8. Cardinality(H!Overlapping(f)) <= Cardinality(C) /\ Cardinality(H!Overlapping(f)) \in Nat
  <2> HIDE DEF C
  <2>1. IsFiniteSet(H!Overlapping(f))
    BY <1>6, <1>7, FS_Subset
  <2> QED BY <1>6, <1>7, <2>1, FS_Subset, FS_CardinalityType
<1>9. Cardinality(C) >= H!MinCommon
  <2> HIDE DEF C
  <2>1. Cardinality(H!Overlapping(f)) >= H!MinCommon /\ H!MinCommon \in Nat
    BY FirstCutOverlaps DEF H!MinCommon
  <2> QED BY <1>7, <1>8, <2>1
<1> QED BY <1>9 DEF q, r

(* However the models of the clusters are merged, every image registered in a *)
(* leaf is in the end in a model; and when every mapper registers its leaf in *)
(* one model and all poses agree, one model is left, of all images, for any   *)
(* cuts, depth and matches, if three images on either side of the first cut   *)
(* are matched across it and the overlap is three or more                     *)
(* (hierarchical_pipeline.cc:42-101, scene_clustering.cc:152-190).            *)
THEOREM ClustersAlwaysMerge == H!ClusteringAssumption /\ H!Spec => []ClustersMerged
<1>1. H!ClusteringAssumption /\ ClusterInv => (Overlapped => SiblingsShare)
  BY OverlapIsShared DEF ClusterInv
<1>2. H!ClusteringAssumption /\ ClusterInv /\ OneModelEach => H!AllMerged
  BY <1>1, MergedAtTheEnd
<1>3. H!ClusteringAssumption => H!ClusteringAssumption'
  BY DEF H!ClusteringAssumption
<1> QED BY <1>2, <1>3, OneModelInvariance, HierarchyKeeps, PTL DEF ClustersMerged
=============================================================================

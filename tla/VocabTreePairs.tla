---------------------------- MODULE VocabTreePairs ----------------------------
(***************************************************************************)
(* VocabTreePairGenerator (controllers/pairing.cc): Next() keeps a thread   *)
(* pool busy with the queries of the images to come, and takes one result   *)
(* from a bounded JobQueue.  The matching thread destroys the generator     *)
(* when it has finished, or earlier when it is stopped; the members go in   *)
(* the reverse of their order: the index, the queue, the pool               *)
(* (pairing.h:301-306).  A query that meets the destroyed index is          *)
(* undefined; it is taken to come to its end.                               *)
(***************************************************************************)
EXTENDS Naturals, Sequences, FiniteSets, SequencesExt

CONSTANTS
    Retrievers,             \* the threads of thread_pool_
    NumQueries,             \* query_image_ids_ are 1 .. NumQueries
    Broken,                 \* images whose query throws
    MaxResets               \* bound: calls of Reset()

(* What the constants must satisfy. *)
QueriesAssumption ==
    /\ NumQueries \in Nat /\ MaxResets \in Nat
    /\ IsFiniteSet(Retrievers) /\ Retrievers # {}

VARIABLES
    tasks,                  \* queries that wait in thread_pool_
    hand,                   \* the query of each thread, or 0
    queue,                  \* images whose result waits in queue_
    query, result,          \* query_idx_, result_idx_
    answers,                \* images whose result Next() has returned
    stale,                  \* Reset() was called while queries were under way
    open,                   \* queue_ is not stopped
    failed,                 \* a task has thrown
    resets,
    at                      \* where the matching thread is

vars == <<tasks, hand, queue, query, result, answers, stale, open, failed, resets, at>>

NumThreads == Cardinality(Retrievers)
Queries == 1 .. NumQueries

TypeOK ==
    /\ tasks \in Seq(Queries) /\ Len(tasks) <= (1 + MaxResets) * (2 * NumThreads + 1)
    /\ hand \in [Retrievers -> Queries \cup {0}]
    /\ queue \in Seq(Queries) /\ Len(queue) <= NumThreads
    /\ query \in 0 .. NumQueries /\ result \in 0 .. NumQueries
    /\ answers \subseteq Queries
    /\ stale \in BOOLEAN /\ open \in BOOLEAN /\ failed \in BOOLEAN
    /\ resets \in 0 .. MaxResets
    /\ at \in {"idle", "pop", "stop queue", "stop pool", "join", "gone", "aborted"}

Init ==
    /\ tasks = <<>> /\ hand = [w \in Retrievers |-> 0] /\ queue = <<>>
    /\ query = 0 /\ result = 0 /\ answers = {}
    /\ stale = FALSE /\ open = TRUE /\ failed = FALSE
    /\ resets = 0 /\ at = "idle"

HasFinished == result >= NumQueries

-----------------------------------------------------------------------------
(* "Initially, make all retrieval threads busy" *)
FirstQueries == IF NumQueries < 2 * NumThreads THEN NumQueries ELSE 2 * NumThreads

OneMore_Again(first) == IF first < NumQueries THEN {first + 1} ELSE {first}
(* "Push the next image to the retrieval queue." *)
OneMore(first) == IF first < NumQueries THEN {first + 1} ELSE {}

(* Next() up to the Pop(). *)
Submit ==
    /\ at = "idle" /\ ~HasFinished
    /\ LET first == IF query = 0 THEN FirstQueries ELSE query
           more == OneMore(first)
       IN /\ tasks' = tasks \o [k \in 1 .. first - query |-> query + k] \o SetToSeq(more)
          /\ query' = (IF more = {} THEN first ELSE CHOOSE q \in more : TRUE)
    /\ at' = "pop"
    /\ UNCHANGED <<hand, queue, result, answers, stale, open, failed, resets>>

PopResult ==
    /\ at = "pop" /\ queue # <<>>
    /\ answers' = answers \cup {Head(queue)}
    /\ queue' = Tail(queue)
    /\ result' = result + 1
    /\ at' = "idle"
    /\ UNCHANGED <<tasks, hand, query, stale, open, failed, resets>>

(* The pool and the queue keep what they have. *)
Reset ==
    /\ at = "idle" /\ resets < MaxResets
    /\ query' = 0 /\ result' = 0
    /\ answers' = {} /\ resets' = resets + 1
    /\ stale' = (stale \/ query # result)
    /\ UNCHANGED <<tasks, hand, queue, open, failed, at>>

-----------------------------------------------------------------------------
(* Query(), a task of the pool. *)
Take(w) ==
    /\ hand[w] = 0 /\ tasks # <<>>
    /\ hand' = [hand EXCEPT ![w] = Head(tasks)]
    /\ tasks' = Tail(tasks)
    /\ UNCHANGED <<queue, query, result, answers, stale, open, failed, resets, at>>

Pushed_FoundOnly(image) == IF image \in Broken THEN <<>> ELSE <<image>>
(* "If a query fails [...], we still push an empty result" *)
Pushed(image) == <<image>>

Push(w) ==
    /\ hand[w] # 0 /\ open /\ Len(queue) < NumThreads
    /\ queue' = queue \o Pushed(hand[w])
    /\ hand' = [hand EXCEPT ![w] = 0]
    /\ UNCHANGED <<tasks, query, result, answers, stale, open, failed, resets, at>>

(* Push() returns false when the queue is stopped, and the check throws.     *)
PushFails(w) ==
    /\ hand[w] # 0 /\ ~open
    /\ failed' = TRUE
    /\ hand' = [hand EXCEPT ![w] = 0]
    /\ UNCHANGED <<tasks, queue, query, result, answers, stale, open, resets, at>>

Work(w) == Take(w) \/ Push(w) \/ PushFails(w)

-----------------------------------------------------------------------------
(* The generator has finished, or the matching thread is stopped between two *)
(* calls: the destructor runs.                                               *)
Destroy ==
    /\ at = "idle"
    /\ at' = "stop queue"
    /\ UNCHANGED <<tasks, hand, queue, query, result, answers, stale, open, failed, resets>>

StopQueue ==
    /\ at = "stop queue" /\ open' = FALSE /\ at' = "stop pool"
    /\ UNCHANGED <<tasks, hand, queue, query, result, answers, stale, failed, resets>>

(* ThreadPool::Stop() throws what the tasks have thrown; its destructor turns *)
(* that into LOG(FATAL) (threading.cc:194-218).                              *)
StopPool ==
    /\ at = "stop pool"
    /\ IF failed THEN at' = "aborted" /\ UNCHANGED tasks
                 ELSE at' = "join" /\ tasks' = <<>>
    /\ UNCHANGED <<hand, queue, query, result, answers, stale, open, failed, resets>>

Join ==
    /\ at = "join" /\ \A w \in Retrievers : hand[w] = 0
    /\ at' = "gone"
    /\ UNCHANGED <<tasks, hand, queue, query, result, answers, stale, open, failed, resets>>

Call == Submit \/ PopResult \/ StopQueue \/ StopPool \/ Join

Next == Call \/ Reset \/ Destroy \/ \E w \in Retrievers : Work(w)

Spec == Init /\ [][Next]_vars /\ WF_vars(Call) /\ \A w \in Retrievers : WF_vars(Work(w))

-----------------------------------------------------------------------------
UnderWay == Len(tasks) + Len(queue) + Cardinality({w \in Retrievers : hand[w] # 0})

(* Every image is answered once, whether its query works or throws, and no   *)
(* query is under way when the generator has finished, so that none is left  *)
(* when its members are destroyed; a check of Query() throws only when it is *)
(* destroyed before.                                                         *)
AnsweredOnce ==
    ~stale =>
        /\ Cardinality(answers) = result
        /\ at \in {"idle", "pop"} => UnderWay = query - result
        /\ HasFinished => UnderWay = 0 /\ ~failed

(* Next() returns, however many results the queue holds; and the destructor  *)
(* ends, or the process.                                                     *)
CallsReturn ==
    /\ at = "pop" ~> at = "idle"
    /\ at = "stop queue" ~> at \in {"gone", "aborted"}
==============================================================================

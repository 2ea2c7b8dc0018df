--------------------------- MODULE InitialPairSearch ---------------------------
(***************************************************************************)
(* IncrementalMapperImpl::FindInitialImagePair (sfm/incremental_mapper_     *)
(* impl.cc): one task per first image on a thread pool, all sharing the set *)
(* of tried pairs and a stop flag; the caller takes the results in order.   *)
(* The tasks are queued before the caller looks at the first result, so the *)
(* model starts with all of them queued.  Which pairs are good and which    *)
(* have been tried by earlier calls is any choice, made in Init.            *)
(***************************************************************************)
EXTENDS Naturals, Sequences, FiniteSets

CONSTANTS Workers,          \* threads of the pool
          First,            \* image_ids1: the first images in order of preference
          Second            \* image_ids2 of each first image, in order

(* What the constants must satisfy. *)
SearchAssumption ==
    /\ IsFiniteSet(Workers) /\ Workers # {}
    /\ First \in Seq(DOMAIN Second)
    /\ \A i \in DOMAIN Second :
          Len(Second[i]) \in Nat /\ DOMAIN Second[i] = 1 .. Len(Second[i])

VARIABLES
    good,                   \* pairs with a geometry fit for initialization
    before,                 \* history: init_image_pairs when the call started
    init_image_pairs,       \* the pairs tried so far, by this call or earlier
    stop,
    next,                   \* the next task in the queue of the pool
    work,                   \* what each worker does
    ready,                  \* tasks whose future has a value
    info,                   \* that value: a pair, or <<>> for no success
    awaited,                \* the future the caller waits for
    caller,                 \* "waiting", "stopping" the pool, or "returned"
    result                  \* what it returns

vars == <<good, before, init_image_pairs, stop, next, work, ready, info, awaited,
          caller, result>>

Tasks == DOMAIN First
PairId(p) == {p[1], p[2]}
(* The pairs a task walks through, and all of them in the order of one thread. *)
PairsOf(n) == [k \in DOMAIN Second[First[n]] |-> <<First[n], Second[First[n]][k]>>]
AllPairs == UNION {{PairId(PairsOf(n)[k]) : k \in DOMAIN PairsOf(n)} : n \in Tasks}
Free == [at |-> "free", task |-> 0, pos |-> 0]

TypeOK ==
    /\ good \subseteq AllPairs /\ before \subseteq AllPairs
    /\ init_image_pairs \subseteq AllPairs
    /\ stop \in BOOLEAN /\ next \in 1..Len(First) + 1
    /\ \A w \in Workers :
         /\ work[w].at \in {"free", "begin", "check", "claim", "estimate"}
         /\ work[w].at # "free" => work[w].task \in Tasks
         /\ work[w].at \in {"claim", "estimate"} =>
              work[w].pos \in DOMAIN PairsOf(work[w].task)
    /\ ready \subseteq Tasks
    /\ \A n \in Tasks : info[n] = <<>> \/ PairId(info[n]) \in AllPairs
    /\ awaited \in 1..Len(First) + 1
    /\ caller \in {"waiting", "stopping", "returned"}

Init ==
    /\ good \in SUBSET AllPairs
    /\ before \in SUBSET AllPairs /\ init_image_pairs = before
    /\ stop = FALSE /\ next = 1
    /\ work = [w \in Workers |-> Free]
    /\ ready = {} /\ info = [n \in Tasks |-> <<>>]
    /\ awaited = 1 /\ caller = "waiting" /\ result = <<>>
-----------------------------------------------------------------------------
(* The tasks *)

Begin(w) ==
    /\ work[w].at = "free" /\ next \in Tasks
    /\ work' = [work EXCEPT ![w] = [at |-> "begin", task |-> next, pos |-> 1]]
    /\ next' = next + 1
    /\ UNCHANGED <<good, before, init_image_pairs, stop, ready, info, awaited, caller,
                   result>>

(* The task of w ends with value v. *)
EndTask(w, v) ==
    /\ ready' = ready \cup {work[w].task}
    /\ info' = [info EXCEPT ![work[w].task] = v]
    /\ work' = [work EXCEPT ![w] = Free]

CheckStop_NoValue(w) ==
    /\ work[w].at \in {"begin", "check"}
    /\ IF stop
       THEN work' = [work EXCEPT ![w] = Free] /\ UNCHANGED <<ready, info>>
       ELSE IF work[w].at = "check" /\ work[w].pos \notin DOMAIN PairsOf(work[w].task)
       THEN EndTask(w, <<>>)
       ELSE /\ work' = [work EXCEPT ![w].at = IF @ = "begin" THEN "check" ELSE "claim"]
            /\ UNCHANGED <<ready, info>>
    /\ UNCHANGED <<good, before, init_image_pairs, stop, next, awaited, caller, result>>

(* `if (stop.load()) return {};`, before the loop and before every pair *)
CheckStop(w) ==
    /\ work[w].at \in {"begin", "check"}
    /\ IF stop \/ (work[w].at = "check" /\ work[w].pos \notin DOMAIN PairsOf(work[w].task))
       THEN EndTask(w, <<>>)
       ELSE /\ work' = [work EXCEPT ![w].at = IF @ = "begin" THEN "check" ELSE "claim"]
            /\ UNCHANGED <<ready, info>>
    /\ UNCHANGED <<good, before, init_image_pairs, stop, next, awaited, caller, result>>

(* The walk goes on to the next pair. *)
NextPair(w) ==
    [work EXCEPT ![w] = [at |-> "check", task |-> @.task, pos |-> @.pos + 1]]

(* Try every pair only once: emplace under the mutex. *)
Claim(w) ==
    LET p == PairId(PairsOf(work[w].task)[work[w].pos]) IN
    /\ work[w].at = "claim"
    /\ init_image_pairs' = init_image_pairs \cup {p}
    /\ work' = IF p \in init_image_pairs
               THEN NextPair(w)
               ELSE [work EXCEPT ![w].at = "estimate"]
    /\ UNCHANGED <<good, before, stop, next, ready, info, awaited, caller, result>>

Estimate_StopFirst(w) ==
    LET p == PairsOf(work[w].task)[work[w].pos] IN
    /\ work[w].at = "estimate"
    /\ stop' = TRUE
    /\ IF PairId(p) \in good
       THEN EndTask(w, p)
       ELSE /\ work' = NextPair(w)
            /\ UNCHANGED <<ready, info>>
    /\ UNCHANGED <<good, before, init_image_pairs, next, awaited, caller, result>>

Estimate(w) ==
    LET p == PairsOf(work[w].task)[work[w].pos] IN
    /\ work[w].at = "estimate"
    /\ IF PairId(p) \in good
       THEN stop' = TRUE /\ EndTask(w, p)
       ELSE /\ work' = NextPair(w)
            /\ UNCHANGED <<stop, ready, info>>
    /\ UNCHANGED <<good, before, init_image_pairs, next, awaited, caller, result>>
-----------------------------------------------------------------------------
(* The caller *)

(* future.get() of each task in turn, up to the first success *)
TakeResult ==
    /\ caller = "waiting" /\ awaited \in ready
    /\ IF info[awaited] # <<>>
       THEN /\ result' = info[awaited] /\ caller' = "stopping"
            /\ UNCHANGED awaited
       ELSE awaited' = awaited + 1 /\ UNCHANGED <<result, caller>>
    /\ UNCHANGED <<good, before, init_image_pairs, stop, next, work, ready, info>>

NoSuccess ==
    /\ caller = "waiting" /\ awaited > Len(First)
    /\ caller' = "stopping"
    /\ UNCHANGED <<good, before, init_image_pairs, stop, next, work, ready, info,
                   awaited, result>>

StopPool_NoJoin ==
    /\ caller = "stopping"
    /\ next' = Len(First) + 1
    /\ caller' = "returned"
    /\ UNCHANGED <<good, before, init_image_pairs, stop, work, ready, info, awaited,
                   result>>

(* ThreadPool::Stop(), called or by the destructor: drops the queued tasks and *)
(* joins the running ones. *)
StopPool ==
    /\ caller = "stopping"
    /\ next' = Len(First) + 1
    /\ caller' = IF \A w \in Workers : work[w].at = "free" THEN "returned" ELSE caller
    /\ UNCHANGED <<good, before, init_image_pairs, stop, work, ready, info, awaited,
                   result>>

Done == caller = "returned" /\ UNCHANGED vars

Worker(w) == Begin(w) \/ CheckStop(w) \/ Claim(w) \/ Estimate(w)
Caller == TakeResult \/ NoSuccess \/ StopPool
Next == Caller \/ (\E w \in Workers : Worker(w)) \/ Done

Spec == Init /\ [][Next]_vars /\ WF_vars(Caller) /\ \A w \in Workers : WF_vars(Worker(w))
-----------------------------------------------------------------------------
(* Safety *)

(* Tasks stop early only because one of them succeeds, and the caller waits for *)
(* every future before it gives up: the search fails only when no good pair was *)
(* left untried. *)
FailsOnlyWithoutPair ==
    caller = "returned" /\ result = <<>> => good \subseteq before

(* The tasks capture the caller's locals by reference: none may run after it *)
(* returned, and the mutex lets no two of them estimate the same pair. *)
NoTaskOutlivesCall ==
    /\ caller = "returned" => \A w \in Workers : work[w].at = "free"
    /\ \A v, w \in Workers :
         v # w /\ work[v].at = "estimate" /\ work[w].at = "estimate" =>
           PairId(PairsOf(work[v].task)[work[v].pos])
             # PairId(PairsOf(work[w].task)[work[w].pos])

(* What one thread alone returns: the first task that has a good pair left, and *)
(* of that task the first one. *)
Untried(n) ==
    {k \in DOMAIN PairsOf(n) : PairId(PairsOf(n)[k]) \in good \ before}
FirstOf(S) == CHOOSE m \in S : \A k \in S : m <= k
Sequential ==
    LET S == {n \in Tasks : Untried(n) # {}} IN
    IF S = {} THEN <<>> ELSE PairsOf(FirstOf(S))[FirstOf(Untried(FirstOf(S)))]

(* "This is deterministic and produces the same result as the single-threaded *)
(* version." (sfm/incremental_mapper_impl.cc:289) *)
SameAsSequential == caller = "returned" => result = Sequential

(* Liveness: every call returns, since tasks end and the pool wakes the caller. *)
Returns == <>(caller = "returned")
=============================================================================

------------------------- MODULE FeatureMatching -------------------------
(***************************************************************************)
(* Feature matching (controllers/feature_matching_utils.cc and              *)
(* feature_matching.cc): a thread takes batches of image pairs from a       *)
(* generator, sends each pair through matcher, verifier and guided matcher  *)
(* threads over unbounded JobQueues, and writes what comes out: a row of    *)
(* matches and a row of two-view geometry.  The rows are written one by     *)
(* one, outside any transaction, and the process may be killed between      *)
(* them; a later run, perhaps with other options, continues on the same     *)
(* database.                                                               *)
(*                                                                         *)
(* A row is "none" when it is absent, "poor" with fewer than                *)
(* min_num_inliers entries, else "good".                                   *)
(***************************************************************************)
EXTENDS Naturals, Sequences, FiniteSets, SequencesExt

CONSTANTS
    Matchers, Verifiers, Guided,    \* the worker threads of each kind
    Batches,                \* what the pair generator returns, call by call
    SameFrame,              \* pairs to skip, of two images in one frame
    Modes,                  \* ways a run may be configured
    SetupMayFail,           \* FeatureMatcher::Create() may return null
    RigThreads,             \* threads of rig verification; 0: it is off
    MaxRuns                 \* bound: runs on one database

ASSUME ModesAssumption ==
    Modes \subseteq {"matching", "unverified", "guided", "verification"}
ASSUME BatchesAssumption == Batches \in Seq(Seq(Nat \X Nat))
ASSUME BoundsAssumption == RigThreads \in Nat /\ MaxRuns \in Nat \ {0}

VARIABLES
    matches, geometry,      \* the rows of each pair in the database
    mode,                   \* how this run is configured
    queue,                  \* the four queues
    hand,                   \* the pair each worker works on
    exited,                 \* the workers that have returned
    pc,                     \* where the matching thread is
    todo,                   \* batches the generator still returns
    batch,                  \* rest of the batch Match() was called with
    seen,                   \* image_pair_ids
    due,                    \* num_outputs - i
    output,                 \* the pair that is pushed or written
    rig, replacing,         \* rig verification: pairs left, pairs deleted
    cancelled,              \* IsStopped()
    runs

control == <<mode, pc, todo, batch, seen, due, output, cancelled, runs>>
workers == <<queue, hand, exited>>
rows == <<matches, geometry>>
rigging == <<rig, replacing>>
vars == <<rows, workers, control, rigging>>

PairId(p) == {p[1], p[2]}
Listed == UNION {{PairId(b[k]) : k \in 1 .. Len(b)} : b \in Range(Batches)}
Pairs == {p \in Listed : Cardinality(p) = 2}
Wanted == Pairs \ SameFrame

Workers == Matchers \cup Verifiers \cup Guided
Queues == {"matcher", "verifier", "guided", "output"}
Sizes == {"poor", "good"}
Data == [pair : Pairs, matches : Sizes, geometry : Sizes]
NoData == [pair |-> {}, matches |-> "poor", geometry |-> "poor"]

Serving_GuidedOnly(q) ==
    CASE q = "matcher" -> Matchers
      [] q = "verifier" -> IF mode = "guided" THEN Verifiers ELSE {}
      [] q = "guided" -> IF mode = "guided" THEN Guided ELSE {}
      [] OTHER -> {}

(* Which threads serve a queue: the constructors create no verifiers when   *)
(* geometric verification is skipped.                                       *)
Serving(q) ==
    CASE q = "matcher" -> IF mode = "verification" THEN {} ELSE Matchers
      [] q = "verifier" -> IF mode = "unverified" THEN {} ELSE Verifiers
      [] q = "guided" -> IF mode = "guided" THEN Guided ELSE {}
      [] OTHER -> {}

(* The queue a thread pushes to. *)
OutputOf(q) ==
    CASE q = "matcher" -> IF mode = "unverified" THEN "output" ELSE "verifier"
      [] q = "verifier" -> IF mode = "guided" THEN "guided" ELSE "output"
      [] OTHER -> "output"

TypeOK ==
    /\ matches \in [Pairs -> Sizes \cup {"none"}]
    /\ geometry \in [Pairs -> Sizes \cup {"none"}]
    /\ mode \in Modes
    /\ queue \in [Queues -> Seq(Data)]
    /\ hand \in [Workers -> Data \cup {NoData}]
    /\ exited \subseteq Workers
    /\ pc \in {"setup", "next", "prepare", "reuse", "collect", "write matches",
               "clear geometry", "write geometry", "rig", "wait", "join",
               "done", "aborted"}
    /\ seen \subseteq Pairs
    /\ due \in 0 .. Cardinality(Pairs)
    /\ output \in Data \cup {NoData}
    /\ rig \subseteq Pairs /\ replacing \subseteq Pairs
    /\ cancelled \in BOOLEAN
    /\ runs \in 1 .. MaxRuns

NoQueued == [q \in Queues |-> <<>>]
NoHands == [w \in Workers |-> NoData]

Init ==
    /\ matches \in [Pairs -> Sizes \cup {"none"}]
    /\ geometry \in [Pairs -> Sizes \cup {"none"}]
    /\ mode \in Modes
    /\ queue = NoQueued /\ hand = NoHands /\ exited = {}
    /\ pc = "setup"
    /\ todo = <<>> /\ batch = <<>> /\ seen = {} /\ due = 0 /\ output = NoData
    /\ rig = {} /\ replacing = {}
    /\ cancelled = FALSE /\ runs = 1

Goto(l) == pc' = l

-----------------------------------------------------------------------------
(* The matching thread: FeatureMatcherThread::Run(), Match() and Verify().  *)

(* ExistingMatchedPairGenerator lists the pairs with matches, when it is    *)
(* made; other generators go by the images alone.                           *)
GeneratedBatches ==
    IF mode # "verification" THEN {Batches}
    ELSE {<<SetToSeq({<<Min(p), Max(p)>> : p \in S})>> :
            S \in {T \in SUBSET Pairs :
                     /\ \A p \in T : matches[p] # "none"
                     /\ \A p \in Pairs \ T : matches[p] # "good"}}

Setup ==
    /\ pc = "setup"
    /\ \/ Goto("next") /\ todo' \in GeneratedBatches
       \/ /\ SetupMayFail /\ mode # "verification"
          /\ Goto("wait") /\ UNCHANGED todo
    /\ UNCHANGED <<rows, workers, rigging, mode, batch, seen, due, output,
                   cancelled, runs>>

NextBatch ==
    /\ pc = "next" /\ todo # <<>> /\ ~cancelled
    /\ batch' = Head(todo) /\ todo' = Tail(todo)
    /\ seen' = {}
    /\ Goto("prepare")
    /\ UNCHANGED <<rows, workers, rigging, mode, due, output, cancelled, runs>>

(* Rig verification takes pairs that have matches, whose frames are matched *)
(* by several pairs.                                                        *)
RunEnds ==
    /\ pc = "next" /\ (todo = <<>> \/ cancelled)
    /\ IF todo = <<>> /\ RigThreads > 0 /\ mode # "unverified"
       THEN Goto("rig") /\ rig' \in SUBSET {p \in Pairs : matches[p] = "good"}
       ELSE Goto("wait") /\ UNCHANGED rig
    /\ UNCHANGED <<rows, workers, replacing, mode, todo, batch, seen, due,
                   output, cancelled, runs>>

Excluded == IF mode = "verification" THEN {} ELSE SameFrame
Repeated_Never(ip) == PairId(ip) \in Excluded
Repeated(ip) == PairId(ip) \in seen \cup Excluded

Complete_AnyMatches(p) == matches[p] # "none"
(* What makes a pair complete: Verify() asks for inlier matches. *)
Complete(p) ==
    /\ matches[p] # "none"
    /\ geometry[p] \in (IF mode = "verification" THEN {"good"} ELSE Sizes)

SkipPair ==
    /\ pc = "prepare" /\ batch # <<>>
    /\ LET ip == Head(batch) IN
       /\ ip[1] # ip[2] => Repeated(ip) \/ Complete(PairId(ip))
       /\ seen' = seen \cup (IF ip[1] = ip[2] THEN {} ELSE {PairId(ip)})
    /\ batch' = Tail(batch)
    /\ UNCHANGED <<rows, workers, rigging, mode, pc, todo, due, output,
                   cancelled, runs>>

Push(q, data) == queue' = [queue EXCEPT ![q] = Append(@, data)]

StaleGeometry_Kept(p) == geometry
StaleGeometry(p) ==
    IF mode = "verification" THEN geometry ELSE [geometry EXCEPT ![p] = "none"]

(* A pair that lacks a result: its geometry is deleted, and it is matched,  *)
(* or its matches are taken on (the next step).                             *)
TakePair ==
    /\ pc = "prepare" /\ batch # <<>>
    /\ LET ip == Head(batch)
           p == PairId(ip)
           data == [NoData EXCEPT !.pair = p] IN
       /\ ip[1] # ip[2] /\ ~Repeated(ip) /\ ~Complete(p)
       /\ seen' = seen \cup {p}
       /\ due' = due + 1
       /\ geometry' = StaleGeometry(p)
       /\ IF matches[p] # "none"
          THEN Goto("reuse") /\ output' = data /\ UNCHANGED queue
          ELSE Push("matcher", data) /\ UNCHANGED <<pc, output>>
    /\ batch' = Tail(batch)
    /\ UNCHANGED <<matches, hand, exited, rigging, mode, todo, cancelled, runs>>

StaleMatches(p) ==
    IF mode = "verification" THEN matches ELSE [matches EXCEPT ![p] = "none"]

ReuseMatches ==
    LET p == output.pair IN
    /\ pc = "reuse"
    /\ Push("verifier", [output EXCEPT !.matches = matches[p]])
    /\ matches' = StaleMatches(p)
    /\ Goto("prepare") /\ output' = NoData
    /\ UNCHANGED <<geometry, hand, exited, rigging, mode, todo, batch, seen,
                   due, cancelled, runs>>

BatchPushed ==
    /\ pc = "prepare" /\ batch = <<>>
    /\ Goto("collect")
    /\ UNCHANGED <<rows, workers, rigging, mode, todo, batch, seen, due, output,
                   cancelled, runs>>

FirstWrite_Geometry == "write geometry"
FirstWrite == IF mode = "verification" THEN "clear geometry" ELSE "write matches"

Collect ==
    /\ pc = "collect" /\ due > 0 /\ queue["output"] # <<>>
    /\ output' = Head(queue["output"])
    /\ queue' = [queue EXCEPT !["output"] = Tail(@)]
    /\ Goto(FirstWrite)
    /\ UNCHANGED <<rows, hand, exited, rigging, mode, todo, batch, seen, due,
                   cancelled, runs>>

AllCollected(n) == n = 0

(* THROW_CHECK_EQ(output_queue_.Size(), 0) when Match() returns. *)
MatchReturns ==
    /\ pc = "collect" /\ AllCollected(due)
    /\ Goto(IF queue["output"] = <<>> THEN "next" ELSE "aborted")
    /\ due' = 0
    /\ UNCHANGED <<rows, workers, rigging, mode, todo, batch, seen, output,
                   cancelled, runs>>

(* A row is written by INSERT: a row that is there makes it throw. *)
WriteMatches ==
    /\ pc = "write matches"
    /\ IF matches[output.pair] = "none"
       THEN /\ matches' = [matches EXCEPT ![output.pair] = output.matches]
            /\ Goto("write geometry")
       ELSE Goto("aborted") /\ UNCHANGED matches
    /\ UNCHANGED <<geometry, workers, rigging, mode, todo, batch, seen, due,
                   output, cancelled, runs>>

ClearGeometry ==
    /\ pc = "clear geometry"
    /\ geometry' = [geometry EXCEPT ![output.pair] = "none"]
    /\ Goto("write geometry")
    /\ UNCHANGED <<matches, workers, rigging, mode, todo, batch, seen, due,
                   output, cancelled, runs>>

WriteGeometry ==
    /\ pc = "write geometry"
    /\ IF geometry[output.pair] = "none"
       THEN /\ geometry' = [geometry EXCEPT ![output.pair] = output.geometry]
            /\ Goto("collect")
       ELSE Goto("aborted") /\ UNCHANGED geometry
    /\ due' = due - 1
    /\ output' = NoData
    /\ UNCHANGED <<matches, workers, rigging, mode, todo, batch, seen,
                   cancelled, runs>>

(* The destructor waits for the queues to drain, stops and joins. *)
WaitForQueues ==
    /\ pc = "wait" /\ \A q \in Queues : queue[q] = <<>>
    /\ Goto("join")
    /\ UNCHANGED <<rows, workers, rigging, mode, todo, batch, seen, due, output,
                   cancelled, runs>>

Join ==
    /\ pc = "join" /\ exited = Workers
    /\ Goto("done")
    /\ UNCHANGED <<rows, workers, rigging, mode, todo, batch, seen, due, output,
                   cancelled, runs>>

ControllerStep ==
    \/ Setup \/ NextBatch \/ RunEnds
    \/ SkipPair \/ TakePair \/ ReuseMatches \/ BatchPushed
    \/ Collect \/ MatchReturns \/ WriteMatches \/ ClearGeometry \/ WriteGeometry
    \/ WaitForQueues \/ Join

-----------------------------------------------------------------------------
(* The workers. *)

(* What a stage makes of a pair: a matcher finds no matches without         *)
(* descriptors; a verifier passes on a pair with too few matches.           *)
Results(q, data) ==
    CASE q = "matcher" -> {[data EXCEPT !.matches = m] : m \in Sizes}
      [] q = "verifier" /\ data.matches = "poor" -> {data}
      [] OTHER -> {[data EXCEPT !.geometry = g] : g \in Sizes}

Pop(w) ==
    \E q \in Queues :
        /\ w \in Serving(q) \ exited /\ hand[w] = NoData
        /\ pc \notin {"setup", "join"} /\ queue[q] # <<>>
        /\ \E data \in Results(q, Head(queue[q])) :
              hand' = [hand EXCEPT ![w] = data]
        /\ queue' = [queue EXCEPT ![q] = Tail(@)]
        /\ UNCHANGED <<rows, control, rigging, exited>>

(* THROW_CHECK(output_queue_->Push(...)): the destructor has stopped it. *)
Pass(w) ==
    \E q \in Queues :
        /\ w \in Serving(q) /\ hand[w] # NoData
        /\ hand' = [hand EXCEPT ![w] = NoData]
        /\ queue' = IF pc = "join" THEN queue
                    ELSE [queue EXCEPT ![OutputOf(q)] = Append(@, hand[w])]
        /\ pc' = IF pc = "join" THEN "aborted" ELSE pc
        /\ UNCHANGED <<rows, rigging, exited, mode, todo, batch, seen, due,
                       output, cancelled, runs>>

(* Stop() on the thread and its queue, or a thread this run does not have. *)
Exit(w) ==
    /\ pc = "join" /\ w \notin exited /\ hand[w] = NoData
    /\ exited' = exited \cup {w}
    /\ UNCHANGED <<rows, queue, hand, control, rigging>>

WorkerStep(w) ==
    /\ pc # "aborted"
    /\ Pop(w) \/ Pass(w) \/ Exit(w)

(* Rig verification, on a thread pool: each pair's geometry is deleted and  *)
(* written anew.                                                            *)
RigDelete ==
    /\ pc = "rig" /\ Cardinality(replacing) < RigThreads
    /\ \E p \in rig :
          /\ geometry' = [geometry EXCEPT ![p] = "none"]
          /\ rig' = rig \ {p}
          /\ replacing' = replacing \cup {p}
    /\ UNCHANGED <<matches, workers, control>>

RigWrite ==
    /\ pc = "rig"
    /\ \E p \in replacing :
          /\ \E g \in Sizes : geometry' = [geometry EXCEPT ![p] = g]
          /\ replacing' = replacing \ {p}
    /\ UNCHANGED <<matches, workers, control, rig>>

RigDone ==
    /\ pc = "rig" /\ rig = {} /\ replacing = {}
    /\ Goto("wait")
    /\ UNCHANGED <<rows, workers, rigging, mode, todo, batch, seen, due, output,
                   cancelled, runs>>

RigStep == RigDelete \/ RigWrite \/ RigDone

-----------------------------------------------------------------------------
(* Thread::Stop() on the matching thread. *)
Cancel ==
    /\ ~cancelled /\ pc \notin {"done", "aborted"}
    /\ cancelled' = TRUE
    /\ UNCHANGED <<rows, workers, rigging, mode, pc, todo, batch, seen, due,
                   output, runs>>

(* The process ends or is killed, and another run starts. *)
Rerun ==
    /\ runs < MaxRuns /\ runs' = runs + 1
    /\ mode' \in Modes
    /\ queue' = NoQueued /\ hand' = NoHands /\ exited' = {}
    /\ Goto("setup")
    /\ todo' = <<>> /\ batch' = <<>> /\ seen' = {} /\ due' = 0 /\ output' = NoData
    /\ rig' = {} /\ replacing' = {}
    /\ cancelled' = FALSE
    /\ UNCHANGED rows

Next ==
    \/ ControllerStep
    \/ \E w \in Workers : WorkerStep(w)
    \/ RigStep
    \/ Cancel
    \/ Rerun

(* Every thread that can run does. *)
Spec ==
    /\ Init /\ [][Next]_vars
    /\ WF_vars(ControllerStep) /\ WF_vars(RigStep)
    /\ \A w \in Workers : WF_vars(WorkerStep(w))

-----------------------------------------------------------------------------
Both(p) == matches[p] # "none" /\ geometry[p] # "none"
Half(p) == (matches[p] # "none") # (geometry[p] # "none")

(* No insert meets a row that is there, no worker pushes to a stopped       *)
(* queue, and Match() leaves no output behind: none of the checks that      *)
(* throw fires, whatever rows a killed run left and however often a pair    *)
(* is listed (473-476, 488-490, 500, 518).                                  *)
NoAbort == pc # "aborted"

(* When the generator has finished, every listed pair has both results,     *)
(* whatever rows earlier runs left.                                         *)
AllMatched ==
    pc = "next" /\ todo = <<>> /\ mode # "verification" =>
        \A p \in Wanted : Both(p)

(* At no moment, also of a kill, does the database gain a geometry without  *)
(* the matches it was computed from: deletion starts with the geometry,     *)
(* writing with the matches.                                                *)
NoOrphanGeometry ==
    [][\A p \in Pairs :
          geometry'[p] # "none" /\ matches'[p] = "none"
             => geometry[p] # "none" /\ matches[p] = "none"]_vars

(* "If only one of the matches or inlier matches exist, we recompute them   *)
(* from scratch" (feature_matching_utils.cc:473): a listed pair with one    *)
(* result gets the other, unless the run is cancelled.                      *)
HalfResultsRecomputed ==
    \A p \in Wanted :
        pc = "next" /\ Half(p) /\ ~cancelled ~> Both(p) \/ cancelled

(* Run() and the destructor come to an end: Match() pops as many outputs as *)
(* it pushed jobs, and every queue it pushes to is served.                  *)
Ended == pc \in {"done", "aborted"}
Ends == <>[]Ended
==============================================================================

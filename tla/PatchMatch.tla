------------------------------ MODULE PatchMatch ------------------------------
(***************************************************************************)
(* colmap::mvs::PatchMatchController (mvs/patch_match.cc): a depth map, a   *)
(* normal map and perhaps a consistency graph is computed for each problem, *)
(* one task each on a pool with a thread per GPU.  With geometric           *)
(* consistency there are two sweeps: the second reads the maps that the     *)
(* first wrote.  A task skips the view whose files exist, so that a run     *)
(* that was killed can be run again.  The estimation itself is external.    *)
(***************************************************************************)
EXTENDS Naturals, Sequences, FiniteSets, SequencesExt, Functions

CONSTANTS
    Workers,                \* a thread of thread_pool_ per GPU
    Images,
    Problems,               \* problems_: the reference and the set of its sources
    NoBitmap,               \* images whose file is missing
    Options,                \* the options Run() may be given: geometric, graphs, allowMissing
    MaxRuns                 \* bound: how often the program is started

(* What the constants must satisfy: a reference has one problem, and sources. *)
ProblemsAssumption ==
    /\ Problems \in Seq([ref : Images, srcs : (SUBSET Images) \ {{}}])
    /\ \A i \in DOMAIN Problems : Problems[i].ref \notin Problems[i].srcs
    /\ \A i, j \in DOMAIN Problems : Problems[i].ref = Problems[j].ref => i = j
    /\ Options \subseteq [geometric : BOOLEAN, graphs : BOOLEAN, allowMissing : BOOLEAN]
    /\ MaxRuns \in Nat \ {0}

Types == {"photometric", "geometric"}
Parts == <<"depth", "normal", "graph">>        \* in the order they are written

VARIABLES
    options,
    files,      \* of each type and image: each part is none, torn or whole
    srcs,       \* src_image_idxs of each problem
    type,       \* of the sweep
    rest,       \* the problems of the sweep that have no task yet
    tasks,      \* the queue of the pool
    job,        \* what each worker does
    lock,       \* who holds workspace_mutex_
    failed,     \* a task of the sweep threw
    stopped,    \* what CheckIfStopped() returns
    at,         \* where Run() is
    runs        \* how often the program was started

running == <<srcs, type, rest, tasks, job, lock, failed, stopped, at>>
vars == <<options, files, running, runs>>

Idle == [step |-> "idle", problem |-> 0, type |-> "photometric", kept |-> {}, part |-> 1]

TypeOK ==
    /\ options \in Options
    /\ files \in [Types -> [Images -> [Range(Parts) -> {"none", "torn", "whole"}]]]
    /\ srcs \in [DOMAIN Problems -> SUBSET Images] /\ type \in Types
    /\ rest \in Seq(DOMAIN Problems) /\ tasks \in Seq(DOMAIN Problems)
    /\ job \in [Workers -> [step : {"idle", "lock", "read", "open", "write"},
                            problem : 0 .. Len(Problems), type : Types,
                            kept : SUBSET Images, part : 1 .. Len(Parts)]]
    /\ lock \in SUBSET Workers /\ Cardinality(lock) <= 1
    /\ failed \in BOOLEAN /\ stopped \in BOOLEAN
    /\ at \in {"next", "add", "done", "threw"} /\ runs \in 1 .. MaxRuns

AllSources == [p \in DOMAIN Problems |-> Problems[p].srcs]

(* The program has just read its workspace and its configuration. *)
Init ==
    /\ options \in Options
    /\ files = [t \in Types |-> [i \in Images |-> [x \in Range(Parts) |-> "none"]]]
    /\ srcs = AllSources /\ type = "photometric" /\ rest = <<>> /\ tasks = <<>>
    /\ job = [w \in Workers |-> Idle] /\ lock = {}
    /\ failed = FALSE /\ stopped = FALSE /\ at = "next"
    /\ runs = 1

-----------------------------------------------------------------------------
(* Run(): without geometric consistency there is the one, photometric sweep.  *)

BeginSweep ==
    /\ at = "next" /\ at' = "add"
    /\ rest' = [p \in DOMAIN Problems |-> p]
    /\ UNCHANGED <<options, files, srcs, type, tasks, job, lock, failed, stopped, runs>>

AddTask ==
    /\ at = "add" /\ rest # <<>>
    /\ tasks' = Append(tasks, Head(rest)) /\ rest' = Tail(rest)
    /\ UNCHANGED <<options, files, srcs, type, job, lock, failed, stopped, at, runs>>

(* Fault: the second sweep starts before the first one is over. *)
PoolDone_NoWait == tasks = <<>>

(* ThreadPool::Wait() returns. *)
PoolDone == tasks = <<>> /\ \A w \in Workers : job[w].step = "idle"

(* It rethrows what the tasks threw, out of Run().                           *)
EndSweep ==
    /\ at = "add" /\ rest = <<>> /\ PoolDone
    /\ IF failed THEN at' = "threw" /\ UNCHANGED type
       ELSE IF options.geometric /\ type = "photometric"
       THEN type' = "geometric" /\ at' = "next"
       ELSE at' = "done" /\ UNCHANGED type
    /\ UNCHANGED <<options, files, srcs, rest, tasks, job, lock, failed, stopped, runs>>

Stop ==
    /\ ~stopped /\ stopped' = TRUE
    /\ UNCHANGED <<options, files, srcs, type, rest, tasks, job, lock, failed, at, runs>>

(* The process is killed, or ends, and is started again: the files stay.      *)
Restart ==
    /\ runs < MaxRuns /\ runs' = runs + 1
    /\ srcs' = AllSources /\ type' = "photometric" /\ rest' = <<>> /\ tasks' = <<>>
    /\ job' = [w \in Workers |-> Idle] /\ lock' = {}
    /\ failed' = FALSE /\ stopped' = FALSE /\ at' = "next"
    /\ UNCHANGED <<options, files>>

-----------------------------------------------------------------------------
(* ProcessProblem() of a worker. *)

Become(w, j) == job' = [job EXCEPT ![w] = j]
Problem(w) == Problems[job[w].problem]
Wanted == IF options.graphs THEN 1 .. 3 ELSE 1 .. 2

(* Fault: the depth map stands for all the files of a view. *)
Exist_DepthOnly(t, i) == files[t][i]["depth"] # "none"

(* Fault: every view is computed again. *)
Exist_Never(t, i) == FALSE

Exist(t, i) == \A n \in Wanted : files[t][i][Parts[n]] # "none"

Begin(w) ==
    /\ job[w].step = "idle" /\ tasks # <<>>
    /\ tasks' = Tail(tasks)
    /\ Become(w, IF stopped \/ Exist(type, Problems[Head(tasks)].ref) THEN Idle
                 ELSE [Idle EXCEPT !.step = "lock", !.problem = Head(tasks), !.type = type])
    /\ UNCHANGED <<options, files, srcs, type, rest, lock, failed, stopped, at, runs>>

Used(p) == srcs[p] \cup {Problems[p].ref}
Missing(i, t) ==
    \/ i \in NoBitmap
    \/ t = "geometric" /\ \E x \in {"depth", "normal"} : files["photometric"][i][x] = "none"

(* Under the mutex: the inputs whose files exist; others only if they must.   *)
ListInputs(w) ==
    /\ job[w].step = "lock" /\ lock = {}
    /\ lock' = {w}
    /\ Become(w, [job[w] EXCEPT
                    !.step = "read",
                    !.kept = {i \in Used(job[w].problem) :
                                options.allowMissing => ~Missing(i, job[w].type)}])
    /\ UNCHANGED <<options, files, srcs, type, rest, tasks, failed, stopped, at, runs>>

Torn(i, t) ==
    t = "geometric" /\ \E x \in {"depth", "normal"} : files["photometric"][i][x] = "torn"

(* Everything that was kept is read by io_thread_pool_; a missing file throws, *)
(* and a torn one either throws or gives a map with arbitrary values.          *)
CanRead(w) == \A i \in job[w].kept : ~Missing(i, job[w].type)
MustRead(w) == CanRead(w) /\ \A i \in job[w].kept : ~Torn(i, job[w].type)

Unlocked(ok) == {}

(* Print() and Check() throw when no source or no reference bitmap is left.   *)
ReadInputs(w) ==
    /\ job[w].step = "read" /\ CanRead(w)
    /\ LET p == job[w].problem
           left == job[w].kept \ {Problems[p].ref}
       IN  /\ srcs' = [srcs EXCEPT ![p] = left]
           /\ IF left # {} /\ Problems[p].ref \in job[w].kept
              THEN Become(w, [job[w] EXCEPT !.step = "open"]) /\ UNCHANGED failed
              ELSE Become(w, Idle) /\ failed' = TRUE
    /\ lock' = Unlocked(TRUE)
    /\ UNCHANGED <<options, files, type, rest, tasks, stopped, at, runs>>

(* future.get() throws, and so does the task.                                 *)
ReadThrows(w) ==
    /\ job[w].step = "read" /\ ~MustRead(w)
    /\ Become(w, Idle) /\ lock' = Unlocked(FALSE) /\ failed' = TRUE
    /\ UNCHANGED <<options, files, srcs, type, rest, tasks, stopped, at, runs>>

Write(w, state) ==
    files' = [files EXCEPT ![job[w].type][Problem(w).ref][Parts[job[w].part]] = state]

(* The estimation is over; each file is opened, which empties it, ...         *)
OpenFile(w) ==
    /\ job[w].step = "open"
    /\ Write(w, "torn") /\ Become(w, [job[w] EXCEPT !.step = "write"])
    /\ UNCHANGED <<options, srcs, type, rest, tasks, lock, failed, stopped, at, runs>>

(* ... and is whole when it is closed.                                        *)
CloseFile(w) ==
    /\ job[w].step = "write"
    /\ Write(w, "whole")
    /\ Become(w, IF job[w].part + 1 \in Wanted
                 THEN [job[w] EXCEPT !.step = "open", !.part = @ + 1] ELSE Idle)
    /\ UNCHANGED <<options, srcs, type, rest, tasks, lock, failed, stopped, at, runs>>

-----------------------------------------------------------------------------
Controller == BeginSweep \/ AddTask \/ EndSweep
Work(w) ==
    \/ Begin(w) \/ ListInputs(w) \/ ReadInputs(w) \/ ReadThrows(w)
    \/ OpenFile(w) \/ CloseFile(w)

Ended == at \in {"done", "threw"} /\ UNCHANGED vars

Next == Controller \/ Stop \/ Restart \/ Ended \/ \E w \in Workers : Work(w)

(* A started run goes on; that it is killed or stopped is no obligation.      *)
Spec == Init /\ [][Next]_vars /\ WF_vars(Controller) /\ \A w \in Workers : WF_vars(Work(w))

-----------------------------------------------------------------------------
(* The problem of i can be solved by the first sweep, as far as files go.     *)
Solvable(p) ==
    /\ Problems[p].ref \notin NoBitmap
    /\ IF options.allowMissing THEN Problems[p].srcs \ NoBitmap # {}
       ELSE Problems[p].srcs \cap NoBitmap = {}

(* The geometric sweep finds the photometric maps of every image whose own    *)
(* problem can be solved: none is dropped as missing, or fails the task,      *)
(* because it is not computed yet (Run, patch_match.cc:183-204).              *)
MapsReady ==
    \A w \in Workers : job[w].step \in {"lock", "read"} /\ job[w].type = "geometric" =>
        \A p \in DOMAIN Problems :
            Solvable(p) /\ Problems[p].ref \in Used(job[w].problem)
                => ~Missing(Problems[p].ref, "geometric")

(* A run to the end computes every view, and one that ends with an exception   *)
(* computes those of the first sweep that can be, however often the program    *)
(* was killed before; it mends the files of a view that were left torn.  Only  *)
(* the file that is written last can stay torn (patch_match.cc:410-414 and     *)
(* 530-534).                                                                   *)
Mended(t, p) ==
    LET i == Problems[p].ref
    IN  /\ Exist(t, i)
        /\ \A n \in Wanted : n + 1 \in Wanted => files[t][i][Parts[n]] = "whole"
RerunMends ==
    at \in {"done", "threw"} /\ ~stopped =>
        \A p \in DOMAIN Problems :
            /\ Solvable(p) => Mended("photometric", p)
            /\ at = "done" => /\ Mended("photometric", p)
                              /\ options.geometric => Mended("geometric", p)

(* A view that is complete is never computed again: a second run opens none of *)
(* its files, so that killing it cannot tear them (patch_match.cc:410-414).    *)
CompleteViewsRest ==
    [][\A t \in Types, i \in Images :
          (\A n \in Wanted : files[t][i][Parts[n]] = "whole")
              => files'[t][i] = files[t][i]]_vars

(* Every started run comes to its end, whatever its tasks throw.              *)
RunEnds == <>[](at \in {"done", "threw"})

===============================================================================

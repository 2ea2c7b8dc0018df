------------------------ MODULE FeatureExtraction ------------------------
(***************************************************************************)
(* The feature extraction pipeline (controllers/feature_extraction.cc): a   *)
(* controller thread reads images and sends them through resizer, extractor *)
(* and writer threads, one JobQueue before each stage; the writer commits   *)
(* the features of an image to the database in one transaction.  A run may  *)
(* be cancelled, the process may be killed, and a later run on the same     *)
(* database extracts what is missing.                                       *)
(*                                                                         *)
(* A call of Push() or Pop() is one step, taken when the queue lets it: what *)
(* module JobQueue shows of the queue (BoundedFifo, no lost wakeup).        *)
(***************************************************************************)
EXTENDS Naturals, Sequences, FiniteSets

CONSTANTS
    Resizers, Extractors, Writer,   \* the worker threads
    NumImages,
    Unreadable,             \* the images whose bitmap or mask cannot be read
    Featureless,            \* the images the extractor fails on
    MayFail,                \* extractors for which Create() may return null
    QueueSize,              \* kQueueSize
    MaxRuns                 \* bound: runs on one database

(* What the constants must satisfy. *)
QueueSizeAssumption == QueueSize \in Nat \ {0}
RunsAssumption == MaxRuns \in Nat \ {0}
ImagesAssumption ==
    /\ NumImages \in Nat
    /\ Unreadable \subseteq 1 .. NumImages
    /\ Featureless \subseteq 1 .. NumImages

VARIABLES
    db,                     \* images with features in the database (committed)
    jobs,                   \* the images in the queue before each stage
    closed,                 \* the queues that are stopped
    hand,                   \* the image each thread works on
    setup,                  \* what each extractor has signalled
    exited,                 \* the workers whose Run() has returned
    pc,                     \* where the controller's Run() is
    index,                  \* ImageReader::image_index_
    cancelled,              \* the controller's IsStopped()
    runs

vars == <<db, jobs, closed, hand, setup, exited, pc, index, cancelled, runs>>

Images == 1 .. NumImages
Good == Images \ (Unreadable \cup Featureless)
Stages == {"resize", "extract", "write"}
Controller == "controller"
Workers == Resizers \cup Extractors \cup {Writer}

(* No thread is two. *)
ThreadsAssumption ==
    /\ Writer \notin Resizers \cup Extractors /\ Resizers \cap Extractors = {}
    /\ Controller \notin Workers

Stage(w) == IF w \in Resizers THEN "resize"
            ELSE IF w \in Extractors THEN "extract" ELSE "write"

NextStage == [resize |-> "extract", extract |-> "write", write |-> "done"]

At(op) == <<op, "none">>    \* a place in Run() that belongs to no stage
Ended == pc \in {At("done"), At("terminated")}

(* ImageData: the image and how far it got.  "failed" is every status of    *)
(* ImageReader but SUCCESS: also an image that is complete in the database. *)
Job == [image : Images, status : {"read", "features", "failed"}]
NoJob == [image |-> 0, status |-> "none"]

TypeOK ==
    /\ db \subseteq Images
    /\ jobs \in [Stages -> Seq(Job)]
    /\ \A s \in Stages : Len(jobs[s]) <= QueueSize
    /\ closed \subseteq Stages
    /\ hand \in [Workers \cup {Controller} -> Job \cup {NoJob}]
    /\ setup \in [Extractors -> {"starting", "valid", "invalid"}]
    /\ exited \subseteq Workers
    /\ pc \in ({"setup", "read", "push", "done", "terminated"} \X {"none"})
                \cup ({"cancel", "clear"} \X {"resize", "extract"})
                \cup ({"wait", "stop", "join"} \X Stages)
    /\ index \in 0 .. NumImages
    /\ cancelled \in BOOLEAN
    /\ runs \in 1 .. MaxRuns

NoJobs == [s \in Stages |-> <<>>]
EmptyHands == [w \in Workers \cup {Controller} |-> NoJob]
Starting == [e \in Extractors |-> "starting"]

(* Start() has been called on every thread; earlier runs filled db. *)
Init ==
    /\ db \in SUBSET Good
    /\ jobs = NoJobs
    /\ closed = {}
    /\ hand = EmptyHands
    /\ setup = Starting
    /\ exited = {}
    /\ pc = At("setup")
    /\ index = 0
    /\ cancelled = FALSE
    /\ runs = 1

Room_OffByOne(s) == Len(jobs[s]) <= QueueSize
Room(s) == Len(jobs[s]) < QueueSize

Hold(t, job) == hand' = [hand EXCEPT ![t] = job]

-----------------------------------------------------------------------------
(* The controller. *)

SignalSetup(e) ==
    /\ setup[e] = "starting"
    /\ \E signal \in {"valid"} \cup (IF e \in MayFail THEN {"invalid"} ELSE {}) :
          /\ setup' = [setup EXCEPT ![e] = signal]
          /\ exited' = IF signal = "invalid" THEN exited \cup {e} ELSE exited
    /\ UNCHANGED <<db, jobs, closed, hand, pc, index, cancelled, runs>>

(* An extractor without a valid setup makes Run() return with the threads   *)
(* running; they are destroyed unjoined, which terminates the process.      *)
CheckSetup ==
    /\ pc = At("setup")
    /\ \/ (\A e \in Extractors : setup[e] = "valid") /\ pc' = At("read")
       \/ (\E e \in Extractors : setup[e] = "invalid") /\ pc' = At("terminated")
    /\ UNCHANGED <<db, jobs, closed, hand, setup, exited, index, cancelled, runs>>

ReadStatus(i) == IF i \in db \cup Unreadable THEN "failed" ELSE "read"

Read ==
    /\ pc = At("read") /\ index < NumImages /\ ~cancelled
    /\ index' = index + 1
    /\ Hold(Controller, [image |-> index + 1, status |-> ReadStatus(index + 1)])
    /\ pc' = At("push")
    /\ UNCHANGED <<db, jobs, closed, setup, exited, cancelled, runs>>

Accepted(s, job) ==
    IF s \in closed THEN jobs ELSE [jobs EXCEPT ![s] = Append(@, job)]

(* THROW_CHECK(resizer_queue_->Push(...)): a stopped queue refuses. *)
Push ==
    /\ pc = At("push")
    /\ "resize" \in closed \/ Room("resize")
    /\ jobs' = Accepted("resize", hand[Controller])
    /\ pc' = IF "resize" \in closed THEN At("terminated") ELSE At("read")
    /\ Hold(Controller, NoJob)
    /\ UNCHANGED <<db, closed, setup, exited, index, cancelled, runs>>

AllRead ==
    /\ pc = At("read") /\ index = NumImages
    /\ pc' = <<"wait", "resize">>
    /\ UNCHANGED <<db, jobs, closed, hand, setup, exited, index, cancelled, runs>>

SeeCancel ==
    /\ pc = At("read") /\ index < NumImages /\ cancelled
    /\ pc' = <<"cancel", "resize">>
    /\ UNCHANGED <<db, jobs, closed, hand, setup, exited, index, cancelled, runs>>

Emptied_All == Stages
Emptied == {"resize", "extract"}

(* The two queues are stopped, then both are cleared, then the loop is left. *)
CancelStep ==
    /\ \/ /\ pc = <<"cancel", "resize">>
          /\ closed' = closed \cup {"resize"}
          /\ pc' = <<"cancel", "extract">> /\ UNCHANGED jobs
       \/ /\ pc = <<"cancel", "extract">>
          /\ closed' = closed \cup {"extract"}
          /\ pc' = <<"clear", "resize">> /\ UNCHANGED jobs
       \/ /\ pc = <<"clear", "resize">>
          /\ jobs' = [jobs EXCEPT !["resize"] = <<>>]
          /\ pc' = <<"clear", "extract">> /\ UNCHANGED closed
       \/ /\ pc = <<"clear", "extract">>
          /\ jobs' = [s \in Stages |-> IF s \in Emptied THEN <<>> ELSE jobs[s]]
          /\ pc' = <<"wait", "resize">> /\ UNCHANGED closed
    /\ UNCHANGED <<db, hand, setup, exited, index, cancelled, runs>>

Joined_Never(s) == TRUE
Joined(s) == \A w \in Workers : Stage(w) = s => w \in exited

Stopping(s) == closed \cup {s}

(* Stage by stage: wait for the queue to drain, stop it, join its threads. *)
Drain ==
    /\ \E s \in Stages :
          \/ /\ pc = <<"wait", s>> /\ jobs[s] = <<>>
             /\ pc' = <<"stop", s>> /\ UNCHANGED closed
          \/ /\ pc = <<"stop", s>>
             /\ closed' = Stopping(s) /\ pc' = <<"join", s>>
          \/ /\ pc = <<"join", s>> /\ Joined(s)
             /\ pc' = IF s = "write" THEN At("done") ELSE <<"wait", NextStage[s]>>
             /\ UNCHANGED closed
    /\ UNCHANGED <<db, jobs, hand, setup, exited, index, cancelled, runs>>

ControllerStep ==
    CheckSetup \/ Read \/ Push \/ AllRead \/ SeeCancel \/ CancelStep \/ Drain

-----------------------------------------------------------------------------
(* The workers. *)

Runs(w) == w \notin exited /\ (w \in Extractors => setup[w] = "valid")

(* What a stage makes of an image: an image that failed passes unchanged. *)
Processed(s, job) ==
    IF s = "extract" /\ job.status = "read"
    THEN [job EXCEPT !.status =
             IF job.image \in Featureless THEN "failed" ELSE "features"]
    ELSE job

Pop(w) ==
    LET s == Stage(w) IN
    /\ Runs(w) /\ hand[w] = NoJob
    /\ s \notin closed /\ jobs[s] # <<>>
    /\ Hold(w, Processed(s, Head(jobs[s])))
    /\ jobs' = [jobs EXCEPT ![s] = Tail(@)]
    /\ UNCHANGED <<db, closed, setup, exited, pc, index, cancelled, runs>>

PopFails(w) ==
    /\ Runs(w) /\ hand[w] = NoJob
    /\ Stage(w) \in closed
    /\ exited' = exited \cup {w}
    /\ UNCHANGED <<db, jobs, closed, hand, setup, pc, index, cancelled, runs>>

(* The workers do not look at the result of Push(): an image that a stopped *)
(* queue refuses is dropped.                                                *)
Pass(w) ==
    LET n == NextStage[Stage(w)] IN
    /\ w # Writer /\ hand[w] # NoJob
    /\ n \in closed \/ Room(n)
    /\ jobs' = Accepted(n, hand[w])
    /\ Hold(w, NoJob)
    /\ UNCHANGED <<db, closed, setup, exited, pc, index, cancelled, runs>>

Write ==
    /\ hand[Writer] # NoJob
    /\ db' = IF hand[Writer].status = "features"
             THEN db \cup {hand[Writer].image} ELSE db
    /\ Hold(Writer, NoJob)
    /\ UNCHANGED <<jobs, closed, setup, exited, pc, index, cancelled, runs>>

WorkerStep(w) ==
    /\ pc # At("terminated")
    /\ \/ Pop(w) \/ PopFails(w) \/ Pass(w)
       \/ w = Writer /\ Write
       \/ w \in Extractors /\ SignalSetup(w)

-----------------------------------------------------------------------------
(* Thread::Stop() on the controller, from another thread. *)
Cancel ==
    /\ ~cancelled /\ ~Ended
    /\ cancelled' = TRUE
    /\ UNCHANGED <<db, jobs, closed, hand, setup, exited, pc, index, runs>>

(* The process ends or is killed at any time, and extraction is started     *)
(* again on the same database.                                              *)
Rerun ==
    /\ runs < MaxRuns
    /\ runs' = runs + 1
    /\ jobs' = NoJobs /\ closed' = {} /\ hand' = EmptyHands
    /\ setup' = Starting /\ exited' = {}
    /\ pc' = At("setup") /\ index' = 0 /\ cancelled' = FALSE
    /\ UNCHANGED db

Next ==
    \/ ControllerStep
    \/ \E w \in Workers : WorkerStep(w)
    \/ Cancel
    \/ Rerun

(* The scheduler runs every thread that can run; nobody has to cancel. *)
Spec ==
    /\ Init /\ [][Next]_vars
    /\ WF_vars(ControllerStep)
    /\ \A w \in Workers : WF_vars(WorkerStep(w))

-----------------------------------------------------------------------------
(* No image is lost between the stages: when Run() has joined its threads   *)
(* without having been cancelled, the database holds every image features   *)
(* can be extracted from, whatever earlier runs left (564-578).             *)
AllWritten == pc = At("done") /\ ~cancelled => db = Good

(* Features once computed are not thrown away: an image that carries them   *)
(* leaves the pipeline into the database only, also when the run is         *)
(* cancelled; only a kill loses them (532-538: the writer's queue is spared).*)
Carried(i) ==
    [image |-> i, status |-> "features"] \in
        {hand[w] : w \in Workers} \cup
        UNION {{jobs[s][k] : k \in 1 .. Len(jobs[s])} : s \in Stages}

FeaturesKept ==
    [][\A i \in Images :
          Carried(i) /\ runs' = runs => Carried(i)' \/ i \in db']_vars

(* Cancelled or not, Run() comes to its end: no stage waits for a thread    *)
(* that waits for it (564-578).                                             *)
Ends == <>[]Ended
==============================================================================

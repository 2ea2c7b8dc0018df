----------------------------- MODULE ColmapKitJob -----------------------------
(***************************************************************************)
(* A sparse reconstruction job of the C interface (colmapkit/colmapkit.cc): *)
(* a worker thread takes the stages one after the other, two of them in a   *)
(* colmap::Thread of their own, while clients cancel, wait for and release  *)
(* the job.  The worker is a program of small steps; a stage that is not    *)
(* stopped may take forever.                                                *)
(***************************************************************************)
EXTENDS Naturals, Sequences

CONSTANTS Cancellers        \* client threads that call Cancel, any number of times

VARIABLES
    requested,              \* cancellation_requested_
    active,                 \* active_thread_: the stage whose thread it is, or "none"
    thread,                 \* the state of each stage's colmap::Thread
    stopped,                \* its stopped_
    pc,                     \* the worker's place in Program
    exit,                   \* "none", what it has thrown, or "done"
    status,                 \* result.status, "running" before
    events,                 \* the terminal progress events
    asked,                  \* history: pc when a cancel was first requested, or 0
    canceller,              \* what each canceller is in
    owner                   \* what the client that waits and releases is in

worker == <<pc, exit, status, events>>
cancellation == <<requested, active, asked>>
threads == <<thread, stopped>>
clients == <<canceller, owner>>
vars == <<worker, cancellation, threads, clients>>

Step(do, stage) == [do |-> do, stage |-> stage]
Stages == {"extraction", "matching"}

RunThread_NoRecheck(s) ==
    <<Step("check", s), Step("set", s), Step("start", s),
      Step("wait", s), Step("check", s), Step("clear", s), Step("check", s)>>
(* ThrowIfCancelled() around and after, and the scope of ScopedActiveThread. *)
RunThread(s) ==
    <<Step("check", s), Step("set", s), Step("start", s), Step("recheck", s),
      Step("wait", s), Step("check", s), Step("clear", s), Step("check", s)>>

LastCheck == <<Step("check", "export")>>

MapResult_First == <<Step("result", "mapping"), Step("check", "mapping")>>
(* A mapper that was cancelled may have no model: that is no failure. *)
MapResult == <<Step("check", "mapping"), Step("result", "mapping")>>

Program ==
    <<Step("validate", "preparing"), Step("check", "preparing"),
      Step("begin", "preparing"), Step("check", "preparing"),
      Step("begin", "extraction")>> \o RunThread("extraction")
    \o <<Step("begin", "matching")>> \o RunThread("matching")
    \o <<Step("begin", "mapping"), Step("map", "mapping")>> \o MapResult
    \o <<Step("write", "mapping"), Step("begin", "export"), Step("check", "export"),
         Step("write", "export")>> \o LastCheck
    \o <<Step("finish", "finished")>>

(* No more than one terminal event is sent (colmapkit.cc). *)
TypeOK ==
    /\ requested \in BOOLEAN /\ active \in Stages \cup {"none"}
    /\ thread \in [Stages -> {"none", "new", "running", "finished"}]
    /\ stopped \in [Stages -> BOOLEAN]
    /\ pc \in DOMAIN Program
    /\ exit \in {"none", "cancelled", "invalid", "failed", "done"}
    /\ status \in {"running", "ok", "cancelled", "invalid_argument", "runtime_error"}
    /\ events \in Seq({"finished", "failed", "cancelled"}) /\ Len(events) <= 1
    /\ asked \in 0 .. Len(Program)
    /\ canceller \in [Cancellers -> {"idle", "stop"}]
    /\ owner \in {"idle", "wait", "cancel", "stop", "join", "released"}

Init ==
    /\ requested = FALSE /\ active = "none" /\ asked = 0
    /\ thread = [s \in Stages |-> "none"] /\ stopped = [s \in Stages |-> FALSE]
    /\ pc = 1 /\ exit = "none" /\ status = "running" /\ events = <<>>
    /\ canceller = [c \in Cancellers |-> "idle"] /\ owner = "idle"

-----------------------------------------------------------------------------
Running(do) == exit = "none" /\ Program[pc].do = do
Stage == Program[pc].stage
Skip(n) == pc' = pc + n /\ UNCHANGED <<exit, status, events>>
Continue == Skip(1)
Throw(how) == exit' = how /\ UNCHANGED <<pc, status, events>>

(* Stop() of a colmap::Thread (Thread.tla). *)
StopThread(s) == stopped' = IF s \in Stages THEN [stopped EXCEPT ![s] = TRUE] ELSE stopped

(* Bad options throw, where a stage makes its own, or a file cannot be made. *)
Validate ==
    /\ Running("validate")
    /\ Continue \/ Throw("invalid")
    /\ UNCHANGED <<cancellation, threads, clients>>

Check ==
    /\ Running("check")
    /\ IF requested THEN Throw("cancelled") ELSE Continue
    /\ UNCHANGED <<cancellation, threads, clients>>

(* The progress event of a stage, then its options and its controller. *)
Begin ==
    /\ Running("begin")
    /\ Continue \/ Throw("invalid") \/ Throw("failed")
    /\ thread' = [s \in Stages |-> IF s = Stage /\ pc' = pc + 1 THEN "new" ELSE thread[s]]
    /\ UNCHANGED <<cancellation, stopped, clients>>

(* write_sparse_text is not set. *)
SkipExport ==
    /\ Running("begin") /\ Stage = "export" /\ Skip(3)
    /\ UNCHANGED <<cancellation, threads, clients>>

(* Under the cancellation mutex. *)
SetActive ==
    /\ Running("set") /\ Continue
    /\ active' = Stage
    /\ StopThread(IF requested THEN Stage ELSE "none")
    /\ UNCHANGED <<requested, asked, thread, clients>>

(* Thread::Start() forgets an earlier Stop(). *)
StartThread ==
    /\ Running("start") /\ Continue
    /\ thread' = [thread EXCEPT ![Stage] = "running"]
    /\ stopped' = [stopped EXCEPT ![Stage] = FALSE]
    /\ UNCHANGED <<cancellation, clients>>

Recheck ==
    /\ Running("recheck") /\ Continue
    /\ StopThread(IF requested THEN Stage ELSE "none")
    /\ UNCHANGED <<cancellation, thread, clients>>

WaitThread ==
    /\ Running("wait") /\ thread[Stage] = "finished" /\ Continue
    /\ UNCHANGED <<cancellation, threads, clients>>

ClearActive ==
    /\ Running("clear") /\ Continue
    /\ active' = "none"
    /\ UNCHANGED <<requested, asked, threads, clients>>

(* RunIncrementalMapperImpl(), which polls the request, ends with or without *)
(* a model.                                                                  *)
Map ==
    /\ Running("map") /\ Continue
    /\ UNCHANGED <<cancellation, threads, clients>>

Result ==
    /\ Running("result") /\ (Continue \/ Throw("failed"))
    /\ UNCHANGED <<cancellation, threads, clients>>

(* Models are written to disk, which may fail. *)
Write ==
    /\ Running("write") /\ (Continue \/ Throw("failed"))
    /\ UNCHANGED <<cancellation, threads, clients>>

Finish ==
    /\ Running("finish")
    /\ status' = "ok" /\ events' = Append(events, "finished")
    /\ exit' = "done" /\ UNCHANGED pc
    /\ thread' = [s \in Stages |-> "none"]
    /\ UNCHANGED <<cancellation, stopped, clients>>

CaughtAs_RuntimeError == [cancelled |-> "runtime_error", invalid |-> "invalid_argument",
                          failed |-> "runtime_error"]
(* The cancelled error is caught first: it is a runtime_error, too. *)
CaughtAs == [cancelled |-> "cancelled", invalid |-> "invalid_argument",
             failed |-> "runtime_error"]

(* On the way the exception leaves the scope of ScopedActiveThread. *)
Catch ==
    /\ exit \in DOMAIN CaughtAs
    /\ active' = "none" /\ thread' = [s \in Stages |-> "none"]
    /\ status' = CaughtAs[exit]
    /\ events' = Append(events, IF exit = "cancelled" THEN "cancelled" ELSE "failed")
    /\ exit' = "done"
    /\ UNCHANGED <<pc, requested, asked, stopped, clients>>

Work ==
    \/ Validate \/ Check \/ Begin \/ SkipExport \/ SetActive \/ StartThread \/ Recheck \/ WaitThread
    \/ ClearActive \/ Result \/ Write \/ Finish \/ Catch

(* Run() of a stage's controller returns; it polls IsStopped(). *)
ThreadEnds(s) ==
    /\ thread[s] = "running"
    /\ thread' = [thread EXCEPT ![s] = "finished"]
    /\ UNCHANGED <<worker, cancellation, stopped, clients>>

-----------------------------------------------------------------------------
(* RequestCancel() in two steps: the flag, then Stop() under the mutex. *)
Request ==
    /\ requested' = TRUE
    /\ asked' = IF requested THEN asked ELSE IF exit = "none" THEN pc ELSE Len(Program)
    /\ UNCHANGED <<worker, active, threads>>
StopActive == StopThread(active) /\ UNCHANGED <<worker, cancellation, thread>>

Cancel(c) ==
    /\ canceller[c] = "idle" /\ owner \in {"idle", "wait"}
    /\ Request
    /\ canceller' = [canceller EXCEPT ![c] = "stop"] /\ UNCHANGED owner
CancelStops(c) ==
    /\ canceller[c] = "stop"
    /\ StopActive
    /\ canceller' = [canceller EXCEPT ![c] = "idle"] /\ UNCHANGED owner

Owner(from, to) == owner = from /\ owner' = to /\ UNCHANGED canceller

Wait == Owner("idle", "wait") /\ UNCHANGED <<worker, cancellation, threads>>
WaitReturns ==
    Owner("wait", "idle") /\ exit = "done" /\ UNCHANGED <<worker, cancellation, threads>>

(* The destructor cancels and waits.  Nobody uses the job any more. *)
Release ==
    /\ \A c \in Cancellers : canceller[c] = "idle"
    /\ Owner("idle", "stop") /\ Request
ReleaseStops == Owner("stop", "join") /\ StopActive
ReleaseReturns ==
    Owner("join", "released") /\ exit = "done" /\ UNCHANGED <<worker, cancellation, threads>>

OwnerGoesOn == WaitReturns \/ ReleaseStops \/ ReleaseReturns

Next ==
    \/ Work \/ Map \/ \E s \in Stages : ThreadEnds(s)
    \/ \E c \in Cancellers : Cancel(c) \/ CancelStops(c)
    \/ Wait \/ Release \/ OwnerGoesOn

(* The worker and the clients run on; a stage need not end unless stopped. *)
Spec ==
    /\ Init /\ [][Next]_vars
    /\ WF_vars(Work) /\ WF_vars(Map /\ requested)
    /\ \A s \in Stages : WF_vars(ThreadEnds(s) /\ stopped[s])
    /\ \A c \in Cancellers : WF_vars(CancelStops(c))
    /\ WF_vars(OwnerGoesOn)

-----------------------------------------------------------------------------
(* A cancel is never lost, whenever it comes: neither to Start(), which      *)
(* forgets an earlier Stop(), nor between two stages.  Release, which        *)
(* cancels and joins, therefore returns.                                     *)
Ended == requested => exit = "done"
CancelEndsJob == <>[]Ended

(* The job ends with one terminal event, which says what the status says.    *)
OneTerminalEvent ==
    exit = "done" <=>
        \/ status = "ok" /\ events = <<"finished">>
        \/ status = "cancelled" /\ events = <<"cancelled">>
        \/ status \in {"invalid_argument", "runtime_error"} /\ events = <<"failed">>

(* A job cancelled before its models are written is not OK, and when the     *)
(* mapper ends without a model for that reason, that is not a failure.       *)
Place(do) == CHOOSE i \in DOMAIN Program : Program[i].do = do
CancelIsNotFailure ==
    [][/\ status' # status /\ status' = "ok" => asked = 0 \/ asked >= Place("finish")
       /\ Result /\ exit' = "failed" => asked = 0 \/ asked > Place("map")]_vars
===============================================================================

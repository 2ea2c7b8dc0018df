----------------------------- MODULE BoundedFifo -----------------------------
(***************************************************************************)
(* What a JobQueue<T> promises its callers, with no thread, lock or         *)
(* condition variable in sight: a first-in first-out buffer of at most      *)
(* Bound jobs that can be closed for good and emptied.  Jobs are the        *)
(* numbers 1, 2, 3, ... in the order in which they were accepted, so the    *)
(* buffer holds exactly taken+1 .. accepted.                                *)
(***************************************************************************)
EXTENDS Naturals

CONSTANT Bound              \* capacity

VARIABLES
    accepted,               \* jobs accepted so far
    taken,                  \* jobs that left the buffer (delivered or dropped)
    closed,                 \* the queue was stopped
    last                    \* the job delivered last, 0 if none was

vars == <<accepted, taken, closed, last>>

Init == accepted = 0 /\ taken = 0 /\ closed = FALSE /\ last = 0

Accept ==
    /\ ~closed
    /\ accepted < taken + Bound
    /\ accepted' = accepted + 1
    /\ UNCHANGED <<taken, closed, last>>

Deliver ==
    /\ ~closed
    /\ taken < accepted
    /\ taken' = taken + 1
    /\ last' = taken'
    /\ UNCHANGED <<accepted, closed>>

Close == closed' = TRUE /\ UNCHANGED <<accepted, taken, last>>

Drop == taken' = accepted /\ UNCHANGED <<accepted, closed, last>>

Next == Accept \/ Deliver \/ Close \/ Drop

Spec == Init /\ [][Next]_vars
==============================================================================

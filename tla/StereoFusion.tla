----------------------------- MODULE StereoFusion -----------------------------
(***************************************************************************)
(* colmap::mvs::StereoFusion (mvs/fusion.cc): the images are fused one      *)
(* after the other.  The rows of an image are given out in blocks to a      *)
(* thread pool, and a task starts a point at every pixel of its block that  *)
(* is not fused yet, and follows it through the overlapping images.  The    *)
(* tasks share the masks of fused pixels without a lock.  The pool is here  *)
(* what module ThreadPool shows of it.  Depths, normals and projections are *)
(* constants: which pixels agree, and where a pixel is seen in an image.    *)
(***************************************************************************)
EXTENDS Integers, Sequences, FiniteSets, SequencesExt, Functions

CONSTANTS
    Workers,
    NumImages,              \* images are 0 .. NumImages - 1
    Used,                   \* used_images_: in fusion.cfg, with its three inputs
    Blocks,                 \* the pixels <<image, number>> of each block of kRowStride rows
    Overlap,                \* overlapping_images_
    Masked, Filtered,       \* masked by the user; of depth <= 0
    Outside,                \* out of options_.bounding_box
    Project,                \* the pixel that shows the point of a pixel in an image, or Nowhere
    Agree,                  \* pairs of a reference and a pixel that pass the three checks
    Nowhere,
    MinNumPixels, MaxNumPixels, MaxTraversalDepth

Images == 0 .. NumImages - 1
PixelsOf(i) == UNION {Range(Blocks[i][b]) : b \in DOMAIN Blocks[i]}
Pixels == UNION {PixelsOf(i) : i \in Images}

(* What the constants must satisfy: only the images in use have pixels, and a *)
(* projection into an image is a pixel of that image.                        *)
FusionAssumption ==
    /\ NumImages \in Nat \ {0} /\ Used \subseteq Images
    /\ \A i \in Images \ Used : Blocks[i] = <<>>
    /\ \A i \in Images : Blocks[i] \in Seq(Seq(Pixels))
    /\ \A i \in Images : \A p \in PixelsOf(i) : p[1] = i
    /\ Masked \subseteq Pixels
    /\ Overlap \in [Images -> Seq(Images)]
    /\ MaxNumPixels \in Nat \ {0} /\ MaxTraversalDepth \in Nat
    /\ Project \in [Pixels \X Images -> Pixels \cup {Nowhere}]
    /\ \A p \in Pixels, i \in Images : Project[<<p, i>>] \in PixelsOf(i) \cup {Nowhere}

VARIABLES
    masks,      \* the pixels set in fused_pixel_masks_
    fused,      \* fused_images_
    image,      \* image_idx of Run(), -1 at the end
    rest,       \* the blocks of image that have no task yet
    tasks,      \* the queue of the pool: blocks, and the copy of the mask bound to each
    job,        \* what each worker does
    points,     \* task_fused_points_ as the sets of their pixels
    stopped,    \* what CheckIfStopped() returns
    at          \* where Run() is

vars == <<masks, fused, image, rest, tasks, job, points, stopped, at>>

Idle == [busy |-> FALSE, todo |-> <<>>, fusing |-> FALSE, queue |-> <<>>, tested |-> <<>>,
         point |-> <<>>]

TypeOK ==
    /\ masks \subseteq Pixels /\ fused \subseteq Images /\ image \in Images \cup {-1}
    /\ rest \in Seq(Seq(Pixels)) /\ tasks \in Seq(Seq(Pixels))
    /\ job \in [Workers -> [busy : BOOLEAN, todo : Seq(Pixels), fusing : BOOLEAN,
                            queue : Seq(Pixels \X Nat),
                            tested : {<<>>} \cup (Pixels \X Nat), point : Seq(Pixels)]]
    /\ \A w \in Workers : Len(job[w].point) <= MaxNumPixels
    /\ points \in [Workers -> Seq(SUBSET Pixels)]
    /\ stopped \in BOOLEAN /\ at \in {"next", "add", "done"}

(* InitFusedPixelMask() of every image in use; Run() begins with the first    *)
(* image of the model, in use or not.                                         *)
Init ==
    /\ masks = Masked /\ fused = {} /\ image = 0 /\ rest = <<>> /\ tasks = <<>>
    /\ job = [w \in Workers |-> Idle] /\ points = [w \in Workers |-> <<>>]
    /\ stopped = FALSE /\ at = "next"

-----------------------------------------------------------------------------
(* The loop of Run(). *)

(* The elements of s that are in S, in their order. *)
Kept(s, S) ==
    LET kept[n \in 0 .. Len(s)] ==
            IF n = 0 THEN <<>>
            ELSE IF s[n] \in S THEN Append(kept[n - 1], s[n]) ELSE kept[n - 1]
    IN  kept[Len(s)]

(* Fault: an image that is fused is offered again. *)
Open_Again(i, done) == i \in Used

Open(i, done) == i \in Used /\ i \notin done

(* Fault: only the overlapping images are looked at. *)
OpenAnywhere_None(done) == {}

OpenOverlapping(i, done) == {k \in DOMAIN Overlap[i] : Open(Overlap[i][k], done)}
OpenAnywhere(done) == {n \in Images : Open(n, done)}
First(S) == CHOOSE n \in S : \A m \in S : n <= m

FindNextImage(i, done) ==
    IF OpenOverlapping(i, done) # {} THEN Overlap[i][First(OpenOverlapping(i, done))]
    ELSE IF OpenAnywhere(done) # {} THEN First(OpenAnywhere(done))
    ELSE -1

NextImage ==
    /\ at = "next"
    /\ IF stopped
       THEN at' = "done" /\ UNCHANGED rest
       ELSE at' = "add" /\ rest' = Blocks[image]
    /\ UNCHANGED <<masks, fused, image, tasks, job, points, stopped>>

(* The mask is bound by value: the task skips what the copy shows as fused.   *)
AddTask ==
    /\ at = "add" /\ rest # <<>>
    /\ tasks' = Append(tasks, Kept(Head(rest), Pixels \ masks))
    /\ rest' = Tail(rest)
    /\ UNCHANGED <<masks, fused, image, job, points, stopped, at>>

(* Fault: the next image starts while the tasks of this one are still running. *)
PoolDone_NoWait == tasks = <<>>

(* ThreadPool::Wait() returns. *)
PoolDone == tasks = <<>> /\ \A w \in Workers : ~job[w].busy

EndImage ==
    /\ at = "add" /\ rest = <<>> /\ PoolDone
    /\ fused' = fused \cup {image}
    /\ image' = FindNextImage(image, fused')
    /\ at' = IF image' < 0 THEN "done" ELSE "next"
    /\ UNCHANGED <<masks, rest, tasks, job, points, stopped>>

Stop ==
    /\ ~stopped /\ stopped' = TRUE
    /\ UNCHANGED <<masks, fused, image, rest, tasks, job, points, at>>

-----------------------------------------------------------------------------
(* ProcessImageRows() and Fuse() of a worker. *)

Become(w, j) == job' = [job EXCEPT ![w] = j]

Take(w) ==
    /\ ~job[w].busy /\ tasks # <<>>
    /\ Become(w, [Idle EXCEPT !.busy = TRUE, !.todo = Head(tasks)])
    /\ tasks' = Tail(tasks)
    /\ UNCHANGED <<masks, fused, image, rest, points, stopped, at>>

StartPoint(w) ==
    /\ job[w].busy /\ ~job[w].fusing /\ job[w].todo # <<>>
    /\ Become(w, [job[w] EXCEPT !.todo = Tail(@), !.fusing = TRUE,
                                !.queue = <<<<Head(job[w].todo), 0>>>>])
    /\ UNCHANGED <<masks, fused, image, rest, tasks, points, stopped, at>>

EndTask(w) ==
    /\ job[w].busy /\ ~job[w].fusing /\ job[w].todo = <<>>
    /\ Become(w, Idle)
    /\ UNCHANGED <<masks, fused, image, rest, tasks, points, stopped, at>>

(* Fault: the copy of the mask is taken for good enough. *)
AlreadyFused_Trusted(p) == FALSE

AlreadyFused(p) == p \in masks

(* The pixel popped is neither fused nor filtered, and agrees with the        *)
(* reference, the first pixel of the point.                                   *)
Accepted(p, depth, point) ==
    /\ ~AlreadyFused(p) /\ p \notin Filtered
    /\ depth > 0 => <<point[1], p>> \in Agree

Visit(w) ==
    /\ job[w].fusing /\ job[w].tested = <<>> /\ job[w].queue # <<>>
    /\ LET next == Last(job[w].queue)
       IN  Become(w, [job[w] EXCEPT
                        !.queue = Front(@),
                        !.tested = IF Accepted(next[1], next[2], job[w].point)
                                   THEN next ELSE <<>>])
    /\ UNCHANGED <<masks, fused, image, rest, tasks, points, stopped, at>>

Candidate(i) == i \in Used /\ i \notin fused

(* What is pushed after a pixel: where its point is seen in the images to come. *)
Seen(p, depth) ==
    LET there == Kept(Overlap[p[1]],
                      {i \in Images : Candidate(i) /\ Project[<<p, i>>] # Nowhere})
    IN  [i \in DOMAIN there |-> <<Project[<<p, there[i]>>], depth + 1>>]

(* Fault: the point ends one pixel too late. *)
Full_OneMore(point) == Len(point) > MaxNumPixels

Full(point) == Len(point) >= MaxNumPixels

(* The pixel is set as fused some time after the test. *)
Mark(w) ==
    /\ job[w].tested # <<>>
    /\ LET p == job[w].tested[1]
           depth == job[w].tested[2]
           grown == Append(job[w].point, p)
           add == IF depth >= MaxTraversalDepth - 1 THEN <<>> ELSE Seen(p, depth)
       IN  /\ masks' = masks \cup {p}
           /\ Become(w, IF p \in Outside
                        THEN [job[w] EXCEPT !.tested = <<>>]
                        ELSE [job[w] EXCEPT !.tested = <<>>, !.point = grown,
                                            !.queue = IF Full(grown) THEN <<>> ELSE @ \o add])
    /\ UNCHANGED <<fused, image, rest, tasks, points, stopped, at>>

(* A point is dropped when it has too few pixels, or their normals cancel out. *)
EndPoint(w) ==
    /\ job[w].fusing /\ job[w].tested = <<>> /\ job[w].queue = <<>>
    /\ Become(w, [job[w] EXCEPT !.fusing = FALSE, !.point = <<>>])
    /\ \/ Len(job[w].point) >= MinNumPixels
          /\ points' = [points EXCEPT ![w] = Append(@, Range(job[w].point))]
       \/ UNCHANGED points
    /\ UNCHANGED <<masks, fused, image, rest, tasks, stopped, at>>

-----------------------------------------------------------------------------
Controller == NextImage \/ AddTask \/ EndImage
Work(w) ==
    Take(w) \/ StartPoint(w) \/ EndTask(w) \/ Visit(w) \/ Mark(w) \/ EndPoint(w)

Ended == at = "done" /\ UNCHANGED vars

Next == Controller \/ Stop \/ Ended \/ \E w \in Workers : Work(w)

Spec == Init /\ [][Next]_vars /\ WF_vars(Controller) /\ \A w \in Workers : WF_vars(Work(w))

-----------------------------------------------------------------------------
(* Unless it is stopped, the fusion leaves out no pixel with a depth of any   *)
(* image in use: each is marked as fused or was masked (FindNextImage and     *)
(* Run, fusion.cc:52-73 and 272-310).                                         *)
AllPixelsFused ==
    at = "done" /\ ~stopped =>
        /\ Used \subseteq fused
        /\ (UNION {PixelsOf(i) : i \in Used}) \ Filtered \subseteq masks

(* The test of the mask and the later write are not atomic, so a pixel may be *)
(* in several points, but never in more than there are threads, although the  *)
(* tasks skip pixels by a copy of the mask that is out of date                *)
(* (fusion.cc:254-269 and 401-405).                                           *)
Uses(w, p) ==
    Cardinality({n \in DOMAIN points[w] : p \in points[w][n]})
        + (IF p \in Range(job[w].point) THEN 1 ELSE 0)
UsedOncePerThread == \A w \in Workers, p \in Pixels : Uses(w, p) <= 1

(* Nothing writes to the mask of an image once it is fused: no task of an     *)
(* earlier image is still under way (fusion.cc:301-304 and 504-508).          *)
FusedImagesRest ==
    [][\A i \in fused : masks' \cap PixelsOf(i) = masks \cap PixelsOf(i)]_vars

(* The fusion ends: every point is a finite walk, and no image is taken twice. *)
FusionEnds == <>(at = "done")

===============================================================================

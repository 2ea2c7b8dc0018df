------------------------ MODULE IncrementalTriangulator ------------------------
(***************************************************************************)
(* colmap::IncrementalTriangulator (sfm/incremental_triangulator.cc) at     *)
(* work on the points of an ObservationManager, as the mapper drives it:    *)
(* frames are registered and removed, points filtered, and between these    *)
(* one of its calls runs to its end.  A call is a loop over image points,   *)
(* 3D points or pairs of images; each step makes one call of the manager at *)
(* most.  Triangulation angles, reprojection errors and RANSAC are any      *)
(* choice.  Image points are visited in the order of their numbers, 3D      *)
(* points and pairs of images in any order.                                 *)
(***************************************************************************)
EXTENDS ObservationManager

CONSTANTS
    MaxTransitivity,        \* Options::max_transitivity
    CompleteTransitivity,   \* Options::complete_max_transitivity
    ReMaxTrials,            \* Options::re_max_trials
    IgnoreTwoViewTracks,    \* Options::ignore_two_view_tracks
    MinRecursiveTrackLength, \* kMinRecursiveTrackLength, 3
    MaybeBogus,             \* images whose camera may have bogus parameters
    NoObs                   \* no image point

(* Images and image points have different numbers: a pair tells what it is of. *)
ASSUME IdsAssumption ==
    /\ PointIds \subseteq Nat \ {0} /\ Observations \subseteq Nat /\ NoObs \notin Observations
    /\ Images \cap Observations = {} /\ MaybeBogus \subseteq Images
ASSUME TransitivityAssumption == MaxTransitivity \in Nat

VARIABLES
    lastId,                 \* max_point3D_id_
    modified,               \* modified_point3D_ids_
    mergeTrials,            \* merge_trials_
    reTrials,               \* re_num_trials_
    task,                   \* the call under way
    threw,                  \* a THROW_CHECK of the reconstruction failed
    changed                 \* history: the points that were given observations
                            \* since the set of modified points was cleared

triangulator == <<lastId, modified, mergeTrials, reTrials, task, threw, changed>>
triVars == <<vars, triangulator>>

(* op: the call; todo: what its loop has still to visit; ref, corrs: the      *)
(* image point at hand and its correspondences; at: the 3D point at hand;     *)
(* queue, later, visited, level: the search of Complete().                    *)
Resting == [op |-> "none", stage |-> "visit", todo |-> {}, ref |-> NoObs, corrs |-> {},
            at |-> NoPoint, queue |-> {}, later |-> {}, visited |-> {}, level |-> 0,
            bogus |-> {}]

NothingDone ==
    /\ lastId = 0 /\ modified = {} /\ mergeTrials = {} /\ changed = {}
    /\ reTrials = [p \in {} |-> 0] /\ task = Resting /\ threw = FALSE

TriInit == Init /\ NothingDone

-----------------------------------------------------------------------------
(* ExtractTransitiveCorrespondences() *)
Transitive(o, n) ==
    LET Reached[k \in 0 .. n] ==
            IF k = 0 THEN {o}
            ELSE Reached[k - 1] \cup UNION {Matches(p, known) : p \in Reached[k - 1]}
    IN  Reached[n] \ {o}

IsTwoViewObservation(o) ==
    \E c \in Observations : Matches(o, known) = {c} /\ Matches(c, known) = {o}

(* HasCameraBogusParams() is cached until the next call. *)
Usable == {o \in Registered : ImageOf[o] \notin task.bogus}
Find(o) == Transitive(o, MaxTransitivity) \cap Usable

Rest == UNCHANGED <<lastId, modified, mergeTrials, reTrials, threw, changed>>
Fresh == lastId + 1
Note(id) == modified' = modified \cup {id} /\ changed' = changed \cup {id}

(* The calls of the manager, which throw when an image point has a point      *)
(* already, or no pose.  Fresh ids beyond the bound count as a failed         *)
(* estimation.                                                                *)
NewPoint(T) ==
    /\ Fresh \in PointIds
    /\ IF T \subseteq Registered \ Triangulated
       THEN AddPoint3D(Fresh, T) /\ lastId' = Fresh /\ Note(Fresh) /\ UNCHANGED threw
       ELSE threw' = TRUE /\ UNCHANGED <<vars, lastId, modified, changed>>
    /\ UNCHANGED <<mergeTrials, reTrials>>
Extend(id, o) ==
    /\ IF o \in Registered \ Triangulated /\ id \in DOMAIN track
       THEN AddObservation(id, o) /\ Note(id) /\ UNCHANGED threw
       ELSE threw' = TRUE /\ UNCHANGED <<vars, modified, changed>>
    /\ UNCHANGED <<lastId, mergeTrials, reTrials>>

-----------------------------------------------------------------------------
First(o, S) == o \in S /\ \A p \in S : o <= p

Ready == Idle /\ task.op = "none" /\ ~threw

(* Every call begins with ClearCaches(). *)
Begin(op, todo, bogus) ==
    /\ Ready /\ todo # {}
    /\ task' = [Resting EXCEPT !.op = op, !.todo = todo, !.bogus = bogus]
    /\ mergeTrials' = {}
    /\ UNCHANGED <<vars, lastId, modified, reTrials, threw, changed>>

(* Nothing is done for an image without a pose or with a bogus camera. *)
Visited(i) == Of(i) \cap Registered
Cameras == SUBSET MaybeBogus
TriangulateImage(i) ==
    \E B \in Cameras : i \notin B /\ Begin("triangulate", Visited(i), B)
CompleteImage(i) ==
    \E B \in Cameras : i \notin B /\ Begin("completeImage", Visited(i), B)
(* All points, or those in the set of modified points. *)
Chosen == {DOMAIN track, modified}
CompleteTracks ==
    \E S \in Chosen, B \in Cameras : Begin("completeTracks", S, B)
MergeTracks == \E S \in Chosen : Begin("mergeTracks", S, {})
NumMatches(p) == Between(Observations, Observations, p[1], p[2])
Retriangulate ==
    \E B \in Cameras :
        Begin("retriangulate",
              {p \in Images \X Images : p[1] < p[2] /\ NumMatches(p) > 0}, B)

In(op, stage) == task.op = op /\ task.stage = stage /\ Idle /\ ~threw
Finish ==
    /\ task.op # "none" /\ task.stage = "visit" /\ task.todo = {} /\ ~threw
    /\ task' = Resting
    /\ UNCHANGED vars /\ Rest

Skip(x) == task' = [task EXCEPT !.todo = @ \ {x}] /\ UNCHANGED vars /\ Rest
Goto(x, stage, o, C) ==
    /\ task' = [task EXCEPT !.todo = @ \ {x}, !.stage = stage, !.ref = o, !.corrs = C]
    /\ UNCHANGED vars /\ Rest
Back == [task EXCEPT !.stage = "visit", !.ref = NoObs, !.corrs = {}]

(* TriangulateImage(): one image point. *)
TriangulateNext(o) ==
    /\ In("triangulate", "visit") /\ First(o, task.todo)
    /\ IF Find(o) = {} THEN Skip(o)
       ELSE Goto(o, IF Find(o) \cap Triangulated = {} THEN "create" ELSE "continue",
                 o, Find(o))

Continuable_Always(o) == TRUE
Continuable(o) == o \notin Triangulated

(* Continue(): the image point joins the correspondence with the least error. *)
Continue ==
    /\ task.stage = "continue" /\ ~threw
    /\ task' = IF task.op = "triangulate" THEN [task EXCEPT !.stage = "create"] ELSE Back
    /\ \/ UNCHANGED vars /\ Rest
       \/ /\ Continuable(task.ref)
          /\ \E c \in task.corrs \cap Triangulated : Extend(point[c], task.ref)

(* Create(): again while enough are left that have no point yet. *)
Create ==
    LET C == (task.corrs \cup {task.ref}) \ Triangulated IN
    /\ task.stage = "create" /\ ~threw
    /\ \/ task' = Back /\ UNCHANGED vars /\ Rest
       \/ /\ Cardinality(C) >= 2
          /\ ~(IgnoreTwoViewTracks /\ Cardinality(C) = 2
                                   /\ \E c \in C : IsTwoViewObservation(c))
          /\ \E T \in SUBSET C :
                /\ Cardinality(T) >= 2 /\ NewPoint(T)
                /\ task' = IF Cardinality(C \ T) >= MinRecursiveTrackLength THEN task ELSE Back

-----------------------------------------------------------------------------
(* Complete(): a search from the track of the point, level by level. *)
Search(x, id) ==
    /\ task' = [task EXCEPT !.todo = @ \ {x}, !.stage = "complete", !.at = id,
                            !.queue = track[id], !.visited = track[id], !.level = 1]
    /\ UNCHANGED vars /\ Rest

Searched == (UNION {Matches(o, known) : o \in task.queue}) \ task.visited

CompleteNext(c) ==
    LET seen == [task EXCEPT !.visited = @ \cup {c}]
        deeper == task.level < CompleteTransitivity
    IN  /\ task.stage = "complete" /\ First(c, Searched) /\ ~threw
        /\ \/ task' = seen /\ UNCHANGED vars /\ Rest
           \/ /\ c \in Usable \ Triangulated
              /\ Extend(task.at, c)
              /\ task' = [seen EXCEPT !.later = @ \cup IF deeper THEN {c} ELSE {}]

CompleteLevel ==
    /\ task.stage = "complete" /\ Searched = {} /\ ~threw
    /\ task' = IF task.later = {} \/ task.level = CompleteTransitivity
               THEN [Back EXCEPT !.at = NoPoint, !.queue = {}, !.later = {},
                                 !.visited = {}, !.level = 0]
               ELSE [task EXCEPT !.queue = task.later, !.later = {}, !.level = @ + 1]
    /\ UNCHANGED vars /\ Rest

SkipsTwoView_Never(o) == FALSE
SkipsTwoView(o) == IgnoreTwoViewTracks /\ IsTwoViewObservation(o)

(* CompleteImage(): one image point. *)
CompleteImageNext(o) ==
    LET C == Find(o) IN
    /\ In("completeImage", "visit") /\ First(o, task.todo)
    /\ IF o \in Triangulated THEN Search(o, point[o])
       ELSE \/ Skip(o)
            \/ /\ ~SkipsTwoView(o) /\ C # {} /\ C \cap Triangulated = {}
               /\ \E T \in SUBSET (C \cup {o}) : Cardinality(T) >= 2 /\ NewPoint(T)
               /\ task' = [task EXCEPT !.todo = @ \ {o}]

(* CompleteTracks(), MergeTracks(): the point may be gone by now. *)
CompleteTracksNext(id) ==
    /\ In("completeTracks", "visit") /\ id \in task.todo
    /\ IF id \in DOMAIN track THEN Search(id, id) ELSE Skip(id)

MergeTracksNext(id) ==
    /\ In("mergeTracks", "visit") /\ id \in task.todo
    /\ IF id \notin DOMAIN track THEN Skip(id)
       ELSE /\ task' = [task EXCEPT !.todo = @ \ {id}, !.stage = "merge", !.at = id]
            /\ UNCHANGED vars /\ Rest

-----------------------------------------------------------------------------
(* The second id is read through a reference into the image point, which the  *)
(* merge has just given the new id.                                           *)
AfterMerge_InsertFirst(id, read, merged) == (modified \cup {merged}) \ {id, read}
AfterMerge(id, read, merged) == (modified \ {id, read}) \cup {merged}

Partners ==
    {c \in Registered \cap Triangulated \cap UNION {Matches(o, known) : o \in track[task.at]} :
        point[c] # task.at /\ {point[c], task.at} \notin mergeTrials}

(* Merge(): tried once; if all observations fit, it goes on from the merged.  *)
MergeWith(c) ==
    /\ task.stage = "merge" /\ First(c, Partners) /\ ~threw
    /\ mergeTrials' = mergeTrials \cup {{point[c], task.at}}
    /\ \/ UNCHANGED <<vars, lastId, modified, task, changed>>
       \/ /\ Fresh \in PointIds
          /\ MergePoints3D(task.at, point[c], Fresh) /\ lastId' = Fresh
          /\ modified' = AfterMerge(task.at, point'[c], Fresh)
          /\ changed' = changed \cup {Fresh}
          /\ task' = [task EXCEPT !.at = Fresh]
    /\ UNCHANGED <<reTrials, threw>>

MergeEnd ==
    /\ task.stage = "merge" /\ Partners = {} /\ ~threw
    /\ task' = [Back EXCEPT !.at = NoPoint]
    /\ UNCHANGED vars /\ Rest

-----------------------------------------------------------------------------
(* Less than one in five matches of the pair is triangulated. *)
UnderReconstructed(p) == 5 * triCorrs[p] < NumMatches(p)

Trials(p) == IF p \in DOMAIN reTrials THEN reTrials[p] ELSE 0

(* Retriangulate(): one pair; its matches are put before the other pairs.     *)
RetriangulatePair(p) ==
    /\ In("retriangulate", "visit") /\ p \in task.todo \cap (Images \X Images)
    /\ task.todo \subseteq Images \X Images
    /\ IF UnderReconstructed(p) /\ Visited(p[1]) # {} /\ Visited(p[2]) # {}
          /\ Trials(p) < ReMaxTrials
       THEN /\ reTrials' = [q \in DOMAIN reTrials \cup {p} |-> Trials(q) + IF q = p THEN 1 ELSE 0]
            /\ task' = [task EXCEPT !.todo = (@ \ {p}) \cup
                  IF {p[1], p[2]} \cap task.bogus # {} THEN {}
                  ELSE {m \in Of(p[1]) \X Of(p[2]) : m[2] \in Matches(m[1], known)}]
            /\ UNCHANGED <<vars, lastId, modified, mergeTrials, threw, changed>>
       ELSE Skip(p)

RetriangulateMatch(m) ==
    /\ In("retriangulate", "visit") /\ m \in task.todo \cap (Observations \X Observations)
    /\ LET has == {m[1], m[2]} \cap Triangulated
           one(o, c) == Goto(m, "continue", o, {c})
       IN  CASE has = {m[1], m[2]} -> Skip(m)
             [] has = {m[1]} -> one(m[2], m[1])
             [] has = {m[2]} -> one(m[1], m[2])
             [] has = {} -> Goto(m, "create", m[1], {m[2]})

-----------------------------------------------------------------------------
(* IncrementalMapper: a frame is registered, and those of its image points    *)
(* that were inliers of the pose join the points they match.                  *)
RegisterNext(f) ==
    /\ Ready /\ RegisterFrame(f)
    /\ task' = [Resting EXCEPT !.op = "register",
          !.todo = {o \in InFrame(f) : Matches(o, known) \cap Registered \cap Triangulated # {}}]
    /\ Rest
RegisterInlier(o) ==
    /\ In("register", "visit") /\ First(o, task.todo)
    /\ \/ Skip(o)
       \/ /\ o \notin Triangulated
          /\ \E c \in Matches(o, known) \cap Triangulated : Extend(point[c], o)
          /\ task' = [task EXCEPT !.todo = @ \ {o}]

(* The filters, and the frames that are filtered. *)
Filtering ==
    /\ task.op = "none" /\ ~threw
    /\ \/ \E id \in PointIds : DeletePoint3D(id)
       \/ \E o \in Observations : DeleteOne(o) \/ DeRegisterNext(o)
       \/ \E f \in Frames : DeRegisterFrame(f)
       \/ DeRegisterEnd
    /\ UNCHANGED triangulator

GetModifiedPoints3D ==
    /\ Ready /\ modified' = modified \cap DOMAIN track
    /\ UNCHANGED <<vars, lastId, mergeTrials, reTrials, task, threw, changed>>
ClearModifiedPoints3D ==
    /\ Ready /\ modified' = {} /\ changed' = {}
    /\ UNCHANGED <<vars, lastId, mergeTrials, reTrials, task, threw>>

TriNext ==
    \/ \E i \in Images : TriangulateImage(i) \/ CompleteImage(i)
    \/ CompleteTracks \/ MergeTracks \/ Retriangulate \/ Finish
    \/ \E o \in Observations :
          \/ TriangulateNext(o) \/ CompleteImageNext(o) \/ CompleteNext(o)
          \/ MergeWith(o) \/ RegisterInlier(o)
    \/ Continue \/ Create \/ CompleteLevel \/ MergeEnd
    \/ \E id \in PointIds : CompleteTracksNext(id) \/ MergeTracksNext(id)
    \/ \E p \in task.todo : RetriangulatePair(p) \/ RetriangulateMatch(p)
    \/ \E f \in Frames : RegisterNext(f)
    \/ Filtering \/ GetModifiedPoints3D \/ ClearModifiedPoints3D

TriSpec == TriInit /\ [][TriNext]_triVars
-----------------------------------------------------------------------------
(* Every point that was given observations, or made by a merge, since the set *)
(* was cleared is in modified_point3D_ids_ as long as it exists: the local    *)
(* bundle adjustment refines and filters the points of that set only.         *)
ModifiedComplete == changed \cap DOMAIN track \subseteq modified

(* No image point is given a second 3D point, and none without a pose one     *)
(* (THROW_CHECK(!image.Point2D(...).HasPoint3D()), reconstruction.cc:556).    *)
NothingThrows == ~threw

(* Options::ignore_two_view_tracks: "Whether to ignore two-view tracks".      *)
(* Whichever way a point comes about, it is not one of two images that only   *)
(* match each other.                                                          *)
TwoViewIgnored ==
    IgnoreTwoViewTracks => \A o \in Triangulated : ~IsTwoViewObservation(o)

===============================================================================

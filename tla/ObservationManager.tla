-------------------------- MODULE ObservationManager --------------------------
(***************************************************************************)
(* colmap::ObservationManager (sfm/observation_manager.cc) on top of the    *)
(* points of a Reconstruction (scene/reconstruction.cc).  The image points  *)
(* know their 3D point, the 3D points their track, and the manager counts   *)
(* what is triangulated and registered along the matches of the             *)
(* correspondence graph, by increments and decrements only.  The manager is *)
(* used by one thread at a time; every operation is one action, except that *)
(* the loops that delete observations take one step for each.               *)
(***************************************************************************)
EXTENDS Integers, FiniteSets

CONSTANTS
    Images,                 \* image ids, compared by the code
    Frames, FrameOf,        \* the frame of each image
    Observations, ImageOf,  \* image points, and the image of each
    Corrs,                  \* matches between image points, both ways round
    InitialImages,          \* the images that the manager is constructed with
    PointIds,               \* bound: identities for 3D points
    NoPoint, NoFrame        \* kInvalidPoint3DId; no frame

ASSUME ImagesAssumption ==
    /\ Images \subseteq Nat /\ IsFiniteSet(Images) /\ InitialImages \subseteq Images
    /\ FrameOf \in [Images -> Frames]
    /\ IsFiniteSet(Observations) /\ ImageOf \in [Observations -> Images]
ASSUME CorrsAssumption ==
    /\ Corrs \subseteq Observations \X Observations
    /\ \A o, c \in Observations :
          <<o, c>> \in Corrs => <<c, o>> \in Corrs /\ ImageOf[o] # ImageOf[c]
ASSUME NoneAssumption == NoPoint \notin PointIds /\ NoFrame \notin Frames

VARIABLES
    point,                  \* point3D_id of each image point
    track,                  \* points3D_: the track of each 3D point that exists
    reg,                    \* reg_frame_ids_
    numPoints3D,            \* num_points3D_ of each image
    known,                  \* the images in the graph and in image_stats_
    numObservations,        \* image_stats_[i].num_observations
    visibleCorrs,           \* image_stats_[i].num_visible_correspondences
    visiblePoints,          \* image_stats_[i].num_visible_points3D
    havePoint,              \* image_stats_[i].num_correspondences_have_point3D
    triCorrs,               \* image_pair_stats_[<<i, j>>].num_tri_corrs, i < j
    removing,               \* the frame that DeRegisterFrame() is emptying
    filtered, filtering     \* the point that the reprojection error filter is at,
                            \* and the observations of it that are still to go

scene == <<point, track, reg, numPoints3D>>
counters == <<numObservations, visibleCorrs, visiblePoints, havePoint, triCorrs>>
filters == <<filtered, filtering>>
vars == <<scene, known, counters, removing, filters>>

Of(i) == {o \in Observations : ImageOf[o] = i}
InFrame(f) == {o \in Observations : FrameOf[ImageOf[o]] = f}
Registered == {o \in Observations : FrameOf[ImageOf[o]] \in reg}
Triangulated == {o \in Observations : point[o] # NoPoint}

(* CorrespondenceGraph::FindCorrespondences() in the graph of the images K. *)
Matches(o, K) ==
    {c \in Observations : <<o, c>> \in Corrs /\ ImageOf[o] \in K /\ ImageOf[c] \in K}

(* Matches between two sets of image points, from image i to image j.        *)
Between(A, B, i, j) ==
    Cardinality({p \in A \X B : /\ p[2] \in Matches(p[1], known)
                                /\ ImageOf[p[1]] = i /\ ImageOf[p[2]] = j})

(* The counters, size_t or point2D_t in the code, are never taken below zero *)
(* (observation_manager.cc:202, 270, 618).                                   *)
TypeOK ==
    /\ point \in [Observations -> PointIds \cup {NoPoint}]
    /\ \E ids \in SUBSET PointIds : track \in [ids -> SUBSET Observations]
    /\ reg \subseteq Frames /\ known \subseteq Images
    /\ \A c \in {numPoints3D, numObservations, visibleCorrs, visiblePoints} :
          c \in [Images -> Nat]
    /\ havePoint \in [Observations -> Nat]
    /\ triCorrs \in [Images \X Images -> Nat]
    /\ removing \in Frames \cup {NoFrame}
    /\ filtered \in PointIds \cup {NoPoint} /\ filtering \subseteq Observations

-----------------------------------------------------------------------------
Idle == removing = NoFrame /\ filtered = NoPoint

GraphObservations(i, K) == Cardinality({o \in Of(i) : Matches(o, K) # {}})

(* The constructor: registered images and their points may already be there. *)
Construct ==
    LET seen == Registered \cap Triangulated IN
    /\ numObservations' = [i \in Images |-> GraphObservations(i, known)]
    /\ visibleCorrs' = [j \in Images |->
          Cardinality({p \in Registered \X Of(j) : p[2] \in Matches(p[1], known)})]
    /\ havePoint' = [o \in Observations |-> Cardinality(Matches(o, known) \cap seen)]
    /\ visiblePoints' = [i \in Images |->
          Cardinality({o \in Of(i) : Matches(o, known) \cap seen # {}})]
    /\ triCorrs' = [p \in Images \X Images |->
          IF p[1] < p[2]
          THEN Cardinality({q \in seen \X Observations :
                  /\ q[2] \in Matches(q[1], known) /\ point[q[1]] = point[q[2]]
                  /\ ImageOf[q[1]] = p[1] /\ ImageOf[q[2]] = p[2]})
          ELSE 0]

Init ==
    /\ point = [o \in Observations |-> NoPoint] /\ track = [p \in {} |-> {}]
    /\ reg = {} /\ known = InitialImages /\ removing = NoFrame
    /\ filtered = NoPoint /\ filtering = {}
    /\ numPoints3D = [i \in Images |-> 0]
    /\ numObservations = [i \in Images |-> GraphObservations(i, InitialImages)]
    /\ visibleCorrs = [i \in Images |-> 0] /\ visiblePoints = [i \in Images |-> 0]
    /\ havePoint = [o \in Observations |-> 0]
    /\ triCorrs = [p \in Images \X Images |-> 0]

(* A manager is made anew on the reconstruction. *)
Rebuild == Idle /\ Construct /\ UNCHANGED <<scene, known, removing, filters>>

-----------------------------------------------------------------------------
(* An image sees a point more when the counter of one of its image points     *)
(* leaves 0, and one less when it returns to 0.                              *)
Crossed(i, from, to) == Cardinality({o \in Of(i) : from[o] = 0 /\ to[o] > 0})

(* IncrementCorrespondenceHasPoint3D() and Decrement...() for every match of  *)
(* the image points S.                                                       *)
CountMatches(S, sign) ==
    /\ havePoint' = [o \in Observations |->
          havePoint[o] + sign * Cardinality(Matches(o, known) \cap S)]
    /\ visiblePoints' = [i \in Images |->
          visiblePoints[i] + Crossed(i, havePoint, havePoint')
                           - Crossed(i, havePoint', havePoint)]

(* num_tri_corrs by one for each match within a track, counted from the      *)
(* image with the smaller id.                                                *)
Within_BothWays(S, i, j) == Between(S, S, i, j) + Between(S, S, j, i)
Within(S, i, j) == Between(S, S, i, j)

(* The matches of o with the rest of its track, whichever id is smaller.     *)
WithRest_Forward(o, T, i, j) == Between({o}, T, i, j)
WithRest(o, T, i, j) == Between({o}, T, i, j) + Between({o}, T, j, i)

CountPairs(n) ==
    triCorrs' = [p \in Images \X Images |->
        IF p[1] < p[2] THEN triCorrs[p] + n[p] ELSE 0]

SetPoint(S, id) ==
    point' = [o \in Observations |-> IF o \in S THEN id ELSE point[o]]
CountPoints(S, sign) ==
    numPoints3D' = [i \in Images |-> numPoints3D[i] + sign * Cardinality(S \cap Of(i))]

Others(ids) == [p \in DOMAIN track \ ids |-> track[p]]
Track(id, T, rest) == [p \in DOMAIN rest \cup {id} |-> IF p = id THEN T ELSE rest[p]]

(* AddPoint3D(): the track is new image points of registered images. *)
AddPoint3D(id, T) ==
    /\ Idle /\ id \notin DOMAIN track
    /\ T \subseteq Registered \ Triangulated /\ Cardinality(T) >= 2
    /\ SetPoint(T, id) /\ CountPoints(T, 1)
    /\ track' = Track(id, T, track)
    /\ CountMatches(T, 1)
    /\ CountPairs([p \in Images \X Images |-> Within(T, p[1], p[2])])
    /\ UNCHANGED <<reg, known, numObservations, visibleCorrs, removing, filters>>

AddObservation(id, o) ==
    /\ Idle /\ id \in DOMAIN track /\ o \in Registered \ Triangulated
    /\ SetPoint({o}, id) /\ CountPoints({o}, 1)
    /\ track' = [track EXCEPT ![id] = @ \cup {o}]
    /\ CountMatches({o}, 1)
    /\ CountPairs([p \in Images \X Images |-> WithRest(o, track[id], p[1], p[2])])
    /\ UNCHANGED <<reg, known, numObservations, visibleCorrs, removing, filters>>

Delete(id) ==
    /\ SetPoint(track[id], NoPoint) /\ CountPoints(track[id], -1)
    /\ track' = Others({id})
    /\ CountMatches(track[id], -1)
    /\ CountPairs([p \in Images \X Images |-> -Within(track[id], p[1], p[2])])

(* FilterPoints3DWithShortTracks() and ...SmallTriangulationAngle() call it   *)
(* for each point they drop.                                                 *)
DeletePoint3D(id) ==
    /\ Idle /\ id \in DOMAIN track
    /\ Delete(id)
    /\ UNCHANGED <<reg, known, numObservations, visibleCorrs, removing, filters>>

MergePoints3D(id1, id2, id) ==
    LET T == track[id1] \cup track[id2] IN
    /\ Idle /\ {id1, id2} \subseteq DOMAIN track /\ id1 # id2
    /\ id \notin DOMAIN track
    /\ SetPoint(T, id)
    /\ track' = Track(id, T, Others({id1, id2}))
    /\ CountPairs([p \in Images \X Images |->
          Within(T, p[1], p[2]) - Within(track[id1], p[1], p[2])
                                - Within(track[id2], p[1], p[2])])
    /\ UNCHANGED <<reg, numPoints3D, known, numObservations, visibleCorrs,
                   visiblePoints, havePoint, removing, filters>>

TooShort_AtOne(n) == n <= 1
(* A track of two goes altogether. *)
TooShort(n) == n <= 2

DeleteObservation(o) ==
    LET id == point[o] IN
    /\ o \in Triangulated
    /\ IF TooShort(Cardinality(track[id]))
       THEN Delete(id)
       ELSE /\ CountMatches({o}, -1)
            /\ CountPairs([p \in Images \X Images |-> -WithRest(o, track[id], p[1], p[2])])
            /\ SetPoint({o}, NoPoint) /\ CountPoints({o}, -1)
            /\ track' = [track EXCEPT ![id] = @ \ {o}]

(* FilterObservationsWithNegativeDepth(), and the user interface. *)
DeleteOne(o) ==
    /\ Idle /\ DeleteObservation(o)
    /\ UNCHANGED <<reg, known, numObservations, visibleCorrs, removing, filters>>

(* The filter deletes the point unless two observations at least remain. *)
TooMany(n, of) == n >= of - 1

(* FilterPoints3DWithLargeReprojectionError() for one point, whose           *)
(* observations D have too large an error.                                   *)
Filter(id, D) ==
    /\ Idle /\ id \in DOMAIN track /\ D \subseteq track[id]
    /\ IF TooMany(Cardinality(D), Cardinality(track[id]))
       THEN Delete(id) /\ UNCHANGED filters
       ELSE filtered' = id /\ filtering' = D /\ UNCHANGED <<scene, counters>>
    /\ UNCHANGED <<reg, known, numObservations, visibleCorrs, removing>>

FilterNext(o) ==
    /\ o \in filtering
    /\ DeleteObservation(o)
    /\ filtering' = filtering \ {o}
    /\ UNCHANGED <<reg, known, numObservations, visibleCorrs, removing, filtered>>

(* The mean error of those that remain is written to the point. *)
FilterEnd ==
    /\ filtered # NoPoint /\ filtering = {}
    /\ filtered' = NoPoint
    /\ UNCHANGED <<scene, known, counters, removing, filtering>>

-----------------------------------------------------------------------------
FrameMatches_Points(f, j) ==
    Cardinality({o \in Of(j) : Matches(o, known) \cap InFrame(f) # {}})
(* Every match of an image point of the frame with one of image j. *)
FrameMatches(f, j) ==
    Cardinality({p \in InFrame(f) \X Of(j) : p[2] \in Matches(p[1], known)})

RegisterFrame(f) ==
    /\ Idle /\ f \notin reg /\ \A i \in Images : FrameOf[i] = f => i \in known
    /\ visibleCorrs' = [j \in Images |-> visibleCorrs[j] + FrameMatches(f, j)]
    /\ reg' = reg \cup {f}
    /\ UNCHANGED <<point, track, numPoints3D, known, numObservations, visiblePoints,
                   havePoint, triCorrs, removing, filters>>

(* The underflow check throws before the frame has left: the manager is of   *)
(* no use then, and the model stops short of it.                             *)
DeRegisterFrame(f) ==
    /\ Idle /\ f \in reg
    /\ \A j \in Images : visibleCorrs[j] >= FrameMatches(f, j)
    /\ visibleCorrs' = [j \in Images |-> visibleCorrs[j] - FrameMatches(f, j)]
    /\ removing' = f
    /\ UNCHANGED <<scene, known, numObservations, visiblePoints, havePoint, triCorrs,
                   filters>>

(* The loop visits every image point of the frame that still has a point.    *)
DeRegisterNext(o) ==
    /\ removing # NoFrame /\ o \in InFrame(removing)
    /\ DeleteObservation(o)
    /\ UNCHANGED <<reg, known, numObservations, visibleCorrs, removing, filters>>

EmptyFirst_Not == TRUE
(* Reconstruction::DeRegisterFrame() resets the pose when nothing is left. *)
EmptyFirst == InFrame(removing) \cap Triangulated = {}

DeRegisterEnd ==
    /\ removing # NoFrame /\ EmptyFirst
    /\ reg' = reg \ {removing}
    /\ removing' = NoFrame
    /\ UNCHANGED <<point, track, numPoints3D, known, counters, filters>>

(* AddImage() refreshes the counts of the images the new one matches. *)
Refreshed(i, K) ==
    {i} \cup {j \in K : \E o \in Of(i) : Matches(o, K) \cap Of(j) # {}}

(* The new image catches up on the points that it can see already. *)
CaughtUp(o, K) == Matches(o, K) \cap Registered \cap Triangulated

(* The image was added to the reconstruction and to the graph before. *)
AddImage(i) ==
    LET K == known \cup {i}
    IN  /\ Idle /\ i \notin known
        /\ known' = K
        /\ numObservations' = [j \in Images |->
              IF j \in Refreshed(i, K) THEN GraphObservations(j, K)
                                       ELSE numObservations[j]]
        /\ havePoint' = [o \in Observations |->
              IF ImageOf[o] = i THEN Cardinality(CaughtUp(o, K))
                                ELSE havePoint[o]]
        /\ visiblePoints' = [visiblePoints EXCEPT ![i] =
              Cardinality({o \in Of(i) : CaughtUp(o, K) # {}})]
        /\ UNCHANGED <<scene, visibleCorrs, triCorrs, removing, filters>>

Next ==
    \/ \E id \in PointIds, T \in SUBSET Observations : AddPoint3D(id, T)
    \/ \E id \in PointIds, o \in Observations : AddObservation(id, o)
    \/ \E id \in PointIds : DeletePoint3D(id)
    \/ \E id1, id2, id \in PointIds : MergePoints3D(id1, id2, id)
    \/ \E o \in Observations : DeleteOne(o) \/ FilterNext(o) \/ DeRegisterNext(o)
    \/ \E id \in PointIds, D \in SUBSET Observations : Filter(id, D)
    \/ \E f \in Frames : RegisterFrame(f) \/ DeRegisterFrame(f)
    \/ DeRegisterEnd \/ FilterEnd
    \/ \E i \in Images : AddImage(i)
    \/ Rebuild

Spec == Init /\ [][Next]_vars
-----------------------------------------------------------------------------
(* Image points and tracks name each other, and no point is left with less   *)
(* than two observations, through merges, filters and removed frames.        *)
TracksAgree ==
    /\ \A o \in Observations, id \in PointIds :
          point[o] = id <=> id \in DOMAIN track /\ o \in track[id]
    /\ \A id \in DOMAIN track : Cardinality(track[id]) >= 2

(* Points are seen by registered frames only, or deleting them would throw   *)
(* (THROW_CHECK(image.HasPose()) in ResetTriObservations()).                 *)
OnlyRegistered == Triangulated \subseteq Registered

(* num_points3D_, which decides what frames are filtered, does not drift.    *)
ImagePointsCounted ==
    \A i \in Images : numPoints3D[i] = Cardinality(Of(i) \cap Triangulated)

(* "Per image point, the number of correspondences that have a 3D point."    *)
(* The increments and decrements of all operations add up to it.             *)
MatchesCounted ==
    \A o \in Observations :
        havePoint[o] = Cardinality(Matches(o, known) \cap Triangulated)

(* "The number of 2D points, which have at least one corresponding 2D point  *)
(* in another image that is part of a 3D point track": it ranks the next     *)
(* images to register.                                                       *)
VisiblePointsCounted ==
    \A i \in Images :
        visiblePoints[i] =
            Cardinality({o \in Of(i) : Matches(o, known) \cap Triangulated # {}})

(* "The number of triangulated correspondences between two images": each is  *)
(* counted once, whether its ends joined the track together, one after the   *)
(* other or by a merge.                                                      *)
TriCorrsCounted ==
    \A i, j \in Images : i < j =>
        triCorrs[<<i, j>>] =
            Cardinality({p \in Triangulated \X Triangulated :
                /\ p[2] \in Matches(p[1], known) /\ point[p[1]] = point[p[2]]
                /\ ImageOf[p[1]] = i /\ ImageOf[p[2]] = j})

(* "The sum of correspondences that have a corresponding registered image."  *)
(* (sfm/observation_manager.h:209)                                           *)
VisibleCorrsCounted ==
    removing = NoFrame =>
        \A i \in known :
            visibleCorrs[i] =
                Cardinality({p \in Registered \X Of(i) : p[2] \in Matches(p[1], known)})

(* What is visible stays within what the graph has, although the graph grows *)
(* (THROW_CHECK_LE(num_visible_points3D, num_observations)).                 *)
VisibleWithinGraph == \A i \in Images : visiblePoints[i] <= numObservations[i]

(* The counters that are only ever incremented and decremented equal what    *)
(* counting afresh would give, after any sequence of operations.             *)
CountersAgree ==
    /\ ImagePointsCounted /\ MatchesCounted /\ VisiblePointsCounted
    /\ TriCorrsCounted /\ VisibleWithinGraph

===============================================================================

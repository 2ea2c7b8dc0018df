------------------------------ MODULE GlobalTracks ------------------------------
(***************************************************************************)
(* GlobalMapper::EstablishTracks (sfm/global_mapper.cc): matches are joined  *)
(* to tracks, tracks that see an image at two places far apart or too few    *)
(* images are dropped, and of the rest as many are added as the images need. *)
(***************************************************************************)
EXTENDS Naturals, Sequences, FiniteSets, UnionFind, SequencesExt

CONSTANTS
    Images,                 \* registered images, by id
    MatchSets,              \* sets of pairs of observations <<image, point2D_idx>>
    Near,                   \* pairs of observations of an image within the threshold
    MinViews,               \* track_min_num_views_per_track
    Required,               \* track_required_tracks_per_view
    MaxTracks               \* keep_max_num_tracks

(* A match is of observations <<image, point2D_idx>> of registered images.    *)
TracksAssumption ==
    /\ IsFiniteSet(Images)
    /\ \A M \in MatchSets :
          IsFiniteSet(M) /\ \A m \in M : m[1][1] \in Images /\ m[2][1] \in Images
    /\ MinViews \in Nat /\ Required \in Nat /\ MaxTracks \in Nat

VARIABLES
    matches,                \* those of the valid edges of the pose graph
    todo,                   \* matches that are still to be joined
    parent,                 \* parent_ of the UnionFind
    candidates,             \* tracks by decreasing length
    next,                   \* the next of them
    counts,                 \* tracks_per_image
    images_left,
    points,                 \* the tracks of the points added
    stage                   \* "join", "select" or "done"

vars == <<matches, todo, parent, candidates, next, counts, images_left, points, stage>>

Init ==
    /\ matches \in MatchSets /\ todo = matches /\ parent = <<>>
    /\ candidates = <<>> /\ next = 1
    /\ counts = [i \in Images |-> 0] /\ images_left = Cardinality(Images)
    /\ points = {} /\ stage = "join"

(* The larger observation is joined to the smaller one. *)
Join ==
    /\ stage = "join"
    /\ \E m \in todo :
          /\ todo' = todo \ {m}
          /\ parent' = AfterUnion(parent, m[2], m[1])
    /\ UNCHANGED <<matches, candidates, next, counts, images_left, points, stage>>

Consistent(track) ==
    \A o, p \in track : o # p /\ o[1] = p[1] => {o, p} \in Near
Views(track) == {o[1] : o \in track}
Valid(track) == Consistent(track) /\ Cardinality(Views(track)) >= MinViews

(* The tracks get their ids in the order of an unordered_map, by which those of *)
(* one length are then sorted.                                                  *)
Collect ==
    /\ stage = "join" /\ todo = {}
    /\ parent' = Compressed(parent)
    /\ \E order \in SetToSeqs({t \in SetsOf(Compressed(parent)) : Valid(t)}) :
          /\ \A a, b \in DOMAIN order : a < b =>
                Cardinality(order[a]) >= Cardinality(order[b])
          /\ candidates' = order
    /\ stage' = "select"
    /\ UNCHANGED <<matches, todo, next, counts, images_left, points>>

Seen(track, i) == Cardinality({o \in track : o[1] = i})

(* One turn of the loop.  An image is satisfied by one more than is required, and *)
(* a track may see it twice.                                                      *)
Select_CountsImages ==
    LET t == candidates[next]
        wanted == \E i \in Views(t) : counts[i] <= Required
        fulfilled == {i \in Views(t) : counts[i] = Required}
    IN /\ stage = "select" /\ next <= Len(candidates) /\ Cardinality(points) < MaxTracks
       /\ next' = next + 1
       /\ points' = IF wanted THEN points \cup {t} ELSE points
       /\ counts' = [i \in Images |-> counts[i] + IF wanted THEN Seen(t, i) ELSE 0]
       /\ images_left' = IF wanted THEN images_left - Cardinality(fulfilled) ELSE images_left
       /\ stage' = IF wanted /\ images_left' = 0 THEN "done" ELSE stage
       /\ UNCHANGED <<matches, todo, parent, candidates>>

Select ==
    LET t == candidates[next]
        wanted == \E i \in Views(t) : counts[i] <= Required
        fulfilled == {i \in Views(t) : counts[i] <= Required /\ counts[i] + Seen(t, i) > Required}
    IN /\ stage = "select" /\ next <= Len(candidates) /\ Cardinality(points) < MaxTracks
       /\ next' = next + 1
       /\ points' = IF wanted THEN points \cup {t} ELSE points
       /\ counts' = [i \in Images |-> counts[i] + IF wanted THEN Seen(t, i) ELSE 0]
       /\ images_left' = IF wanted THEN images_left - Cardinality(fulfilled) ELSE images_left
       /\ stage' = IF wanted /\ images_left' = 0 THEN "done" ELSE stage
       /\ UNCHANGED <<matches, todo, parent, candidates>>

(* No candidate is left, or the budget is used up. *)
Finish ==
    /\ stage = "select" /\ (next > Len(candidates) \/ Cardinality(points) >= MaxTracks)
    /\ stage' = "done"
    /\ UNCHANGED <<matches, todo, parent, candidates, next, counts, images_left, points>>

Next == Join \/ Collect \/ Select \/ Finish

Spec == Init /\ [][Next]_vars
-----------------------------------------------------------------------------
TypeOK ==
    /\ todo \subseteq matches
    /\ \A o \in DOMAIN parent : parent[o] \in DOMAIN parent /\ o[1] \in Images
    /\ next \in 1 .. Len(candidates) + 1 /\ images_left \in 0 .. Cardinality(Images)
    /\ Cardinality(points) <= MaxTracks
    /\ stage \in {"join", "select", "done"}

(* Whatever the order of the matches, observations have one root exactly when   *)
(* matches joined so far connect them.                                          *)
RootsAreTracks == Joins(parent, matches \ todo)

(* An observation is in one point at most, the images left to serve are counted *)
(* exactly, and when the loop ends, by whichever of its exits, every image has   *)
(* more than the required observations, or every valid track that sees it was    *)
(* added, or the budget is used up by tracks as long as any other.               *)
ViewsServed ==
    LET tracks == {t \in Classes(matches) : Valid(t)}
        Served(i) == Cardinality({o \in UNION points : o[1] = i}) > Required
    IN /\ points \subseteq tracks
       /\ \A p, q \in points : p # q => p \cap q = {}
       /\ images_left = Cardinality({i \in Images : ~Served(i)})
       /\ stage = "done" =>
            \/ \A t \in tracks \ points : \A i \in Views(t) : Served(i)
            \/ /\ Cardinality(points) = MaxTracks
               /\ \A t \in tracks \ points :
                     (\A p \in points : Cardinality(t) <= Cardinality(p))
                       \/ \A i \in Views(t) : Served(i)
=============================================================================

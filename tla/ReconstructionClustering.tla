------------------------ MODULE ReconstructionClustering ------------------------
(***************************************************************************)
(* Splitting a model into clusters of frames that see enough points in      *)
(* common (scene/reconstruction_clustering.cc) and making a model of each   *)
(* (controllers/reconstruction_clustering.cc).  The threshold, computed from *)
(* median and deviation of the weights, is any choice.                      *)
(***************************************************************************)
EXTENDS Naturals, Sequences, FiniteSets, UnionFind, FiniteSetsExt

CONSTANTS
    Scenes,                 \* [frames, frameOf, tracks]: registered frames, the frame
                            \* of each image, the images of each point in track order
    Thresholds,
    MinCovisibility,        \* options.min_covisibility_count
    MinFrames               \* options.min_num_reg_frames

(* A point is seen by two images or more, of registered frames. *)
ScenesAssumption ==
    /\ \A s \in Scenes :
          /\ IsFiniteSet(s.frames)
          /\ \A t \in DOMAIN s.tracks :
                /\ s.tracks[t] \in Seq(DOMAIN s.frameOf) /\ Len(s.tracks[t]) >= 2
                /\ \A i \in DOMAIN s.tracks[t] : s.frameOf[s.tracks[t][i]] \in s.frames
    /\ MinFrames \in Nat

VARIABLES
    scene, threshold,
    strong,                 \* the edges that reach the threshold
    edges,                  \* those of them that are still to be joined
    parent,                 \* parent_ of the UnionFind
    clusters,               \* frames by cluster id; those of no cluster have id -1
    models,                 \* what reconstruction_manager_ holds in the end
    stage                   \* "join", "split", "done" or "threw"

vars == <<scene, threshold, strong, edges, parent, clusters, models, stage>>

(* Pairs of places in the tracks of more than two elements, with repetition when *)
(* a track has several images of a frame.                                        *)
Weight(f, g) ==
    LET FrameAt(t, i) == scene.frameOf[scene.tracks[t][i]]
        Long == {t \in DOMAIN scene.tracks : Len(scene.tracks[t]) > 2}
        Places == UNION {{<<t, i, j>> : i, j \in DOMAIN scene.tracks[t]} : t \in Long}
    IN Cardinality({x \in Places :
                       x[2] < x[3] /\ {FrameAt(x[1], x[2]), FrameAt(x[1], x[3])} = {f, g}})

Pairs == {p \in scene.frames \X scene.frames : p[1] < p[2]}
Weighted == {p \in Pairs : Weight(p[1], p[2]) >= MinCovisibility}
StrongEdges == {p \in Weighted : Weight(p[1], p[2]) >= threshold}

Init ==
    /\ scene \in Scenes /\ threshold \in Thresholds
    /\ strong = StrongEdges /\ edges = strong /\ parent = <<>>
    /\ clusters = <<>> /\ models = <<>> /\ stage = "join"

(* The edges of an unordered_map come in any order. *)
Join ==
    /\ stage = "join"
    /\ \E p \in edges :
          /\ edges' = edges \ {p}
          /\ parent' = AfterUnion(parent, p[1], p[2])
    /\ UNCHANGED <<scene, threshold, strong, clusters, models, stage>>

(* The clusters by decreasing size, equal ones in any order; those too small get *)
(* no id.                                                                        *)
Number ==
    LET large == {c \in SetsOf(Compressed(parent)) : Cardinality(c) >= MinFrames} IN
    /\ stage = "join" /\ edges = {}
    /\ parent' = Compressed(parent)
    /\ \E order \in [1 .. Cardinality(large) -> large] :
          /\ \A i, j \in DOMAIN order : i < j =>
                order[i] # order[j] /\ Cardinality(order[i]) >= Cardinality(order[j])
          /\ clusters' = order
    /\ stage' = "split"
    /\ UNCHANGED <<scene, threshold, strong, edges, models>>

Model(frames, tracks) == [frames |-> frames, tracks |-> tracks]

(* The elements of s that are in S, in their order. *)
Kept(s, S) ==
    LET kept[n \in 0 .. Len(s)] ==
            IF n = 0 THEN <<>>
            ELSE IF s[n] \in S THEN Append(kept[n - 1], s[n]) ELSE kept[n - 1]
    IN  kept[Len(s)]

(* SubReconstructionByClusterId: frames of other clusters are de-registered, with *)
(* their observations; a point goes with its last but one.                       *)
SubModel(cluster) ==
    LET inside(t) == Kept(t, {i \in DOMAIN scene.frameOf : scene.frameOf[i] \in cluster})
    IN Model(scene.frames \cap cluster,
             {inside(scene.tracks[t]) :
                 t \in {u \in DOMAIN scene.tracks : Len(inside(scene.tracks[u])) >= 2}})

Whole == Model(scene.frames, {scene.tracks[t] : t \in DOMAIN scene.tracks})

(* ReconstructionClustererController::Run.  Without a cluster the model stays as  *)
(* it is, unless it is too small.                                                *)
Split ==
    /\ stage = "split"
    /\ models' = IF clusters # <<>> THEN [c \in DOMAIN clusters |-> SubModel(clusters[c])]
                 ELSE IF Cardinality(scene.frames) >= MinFrames THEN <<Whole>> ELSE <<>>
    /\ stage' = IF clusters # <<>>
                   /\ \E c \in DOMAIN clusters : Cardinality(models'[c].frames) < MinFrames
                THEN "threw" ELSE "done"
    /\ UNCHANGED <<scene, threshold, strong, edges, parent, clusters>>

Next == Join \/ Number \/ Split

Spec == Init /\ [][Next]_vars
-----------------------------------------------------------------------------
TypeOK ==
    /\ scene \in Scenes /\ edges \subseteq strong
    /\ DOMAIN parent \subseteq scene.frames
    /\ \A f \in DOMAIN parent : parent[f] \in DOMAIN parent
    /\ stage \in {"join", "split", "done", "threw"}

(* In whatever order the edges come, two frames have one root exactly when the  *)
(* edges joined so far connect them.                                           *)
RootsAreComponents == Joins(parent, strong \ edges)

(* The models are the connected components that are large enough, each once, the *)
(* larger before the smaller, or the whole model if there is none; the check     *)
(* that "should always be true" is.  A frame is in one model at most, and no     *)
(* point reaches out of its model.                                              *)
ModelsAreComponents ==
    LET large == {c \in Classes(strong) : Cardinality(c) >= MinFrames} IN
    /\ stage # "threw"
    /\ stage = "done" =>
         /\ {models[m].frames : m \in DOMAIN models} =
                IF large # {} THEN large
                ELSE {scene.frames} \cap {S \in {scene.frames} : Cardinality(S) >= MinFrames}
         /\ \A m, n \in DOMAIN models : m < n =>
                /\ models[m].frames \cap models[n].frames = {}
                /\ Cardinality(models[m].frames) >= Cardinality(models[n].frames)
         /\ \A m \in DOMAIN models : \A t \in models[m].tracks :
                Len(t) >= 2 /\ \A i \in DOMAIN t : scene.frameOf[t[i]] \in models[m].frames
=============================================================================

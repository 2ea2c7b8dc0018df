------------------------- MODULE HierarchicalPipeline -------------------------
(***************************************************************************)
(* colmap::HierarchicalPipeline (controllers/hierarchical_pipeline.cc): the *)
(* scene graph is cut into a tree of clusters (scene/scene_clustering.cc),  *)
(* tasks of a thread pool map the leaves, and the models of the children    *)
(* are merged from the leaves to the root.  A cluster is named by its path  *)
(* from the root.  External, and any choice: the graph cut, the models that *)
(* the mapper finds in a leaf, and which images align.                      *)
(***************************************************************************)
EXTENDS Naturals, Sequences, FiniteSets, SequencesExt, Functions

CONSTANTS
    Images,
    Weight,                 \* inlier matches of each pair of images that has some
    LeafMaxNumImages, ImageOverlap,
    MaxDepth,               \* bound: the cut puts all into branch 0 from here on
    Cuts,                   \* what the graph cut may answer: a branch per image and depth
    Results(_),             \* the models the mapper may find among some images
    Alignments,             \* sets of images that may agree in all models
    Workers

Edges == DOMAIN Weight
Branch == {0, 1}            \* clustering_options.branching must be 2

(* What the constants must satisfy; no two pairs have the same weight, and a   *)
(* mapper registers images of its leaf.                                       *)
ClusteringAssumption ==
    /\ IsFiniteSet(Images) /\ MaxDepth \in Nat
    /\ \A e \in Edges : e \subseteq Images /\ Cardinality(e) = 2 /\ Weight[e] \in Nat
    /\ \A d, e \in Edges : Weight[d] = Weight[e] => d = e
    /\ LeafMaxNumImages \in Nat /\ ImageOverlap \in Nat \ {0}
    /\ Cuts \subseteq [Images -> [1 .. MaxDepth -> Branch]]
    /\ \A S \in SUBSET Images : \A models \in Results(S) : models \in Seq(SUBSET S)
    /\ \A S \in Alignments : S \subseteq Images

VARIABLES
    part,       \* the images of each cluster before the overlap is added, {} if there is none
    alignable,  \* the images whose poses agree in all models
    tasks,      \* the queue of the pool: leaves
    mapping,    \* the leaf that each worker maps, if any
    managers,   \* reconstruction_managers: the models of the clusters that have one
    merging,    \* in MergeClusters(): the cluster, and the models of its children
    failed,     \* a mapper threw
    at,         \* where Run() is
    found,      \* the images that the mappers registered
    whole       \* every mapper so far registered all images of its leaf in one model

vars == <<part, alignable, tasks, mapping, managers, merging, failed, at, found, whole>>

-----------------------------------------------------------------------------
(* SceneClustering *)

Paths == UNION {[1 .. n -> Branch] : n \in 0 .. MaxDepth}

Within(S) == {e \in Edges : e \subseteq S}
Partitioned(S) == Within(S) # {} /\ Cardinality(S) > LeafMaxNumImages

(* An image without an edge in the cluster gets no label, and so branch 0.    *)
Label(c, i, S, depth) == IF i \in UNION Within(S) THEN c[i][depth] ELSE 0

(* A child with all the images of its parent is dropped, and its sibling too. *)
PartOf(c) ==
    LET p[path \in Paths] ==
            IF path = <<>> THEN UNION Edges
            ELSE LET S == p[Front(path)]
                     own == {i \in S : Label(c, i, S, Len(path)) = Last(path)}
                 IN  IF Partitioned(S) /\ own # S THEN own ELSE {}
    IN  p

Clusters == {path \in Paths : path = <<>> \/ part[path] # {}}
Children(path) == {Append(path, b) : b \in Branch} \cap Clusters
Leaves == {path \in Clusters : Children(path) = {}}

(* The images beyond the cut with the heaviest edges across it.               *)
Across(path) ==
    {e \in Within(part[Front(path)]) : e \cap part[path] # {} /\ e \ part[path] # {}}
Best(i, path) ==
    CHOOSE w \in {Weight[e] : e \in {e \in Across(path) : i \in e}} :
        \A e \in Across(path) : i \in e => Weight[e] <= w
Neighbours(path) == (UNION Across(path)) \ part[path]
Overlapping(path) ==
    {i \in Neighbours(path) :
        Cardinality({n \in Neighbours(path) : Best(n, path) > Best(i, path)}) < ImageOverlap}

(* Fault: the overlap is inserted into the cluster alone. *)
Receives_Itself(path) == {path} \ {<<>>}

(* They are inserted into the cluster and into all the clusters below it.     *)
Receives(path) == {q \in Prefixes(path) : q # <<>>}
ImagesOf(path) == part[path] \cup UNION {Overlapping(q) : q \in Receives(path)}

-----------------------------------------------------------------------------
Nothing == [cluster |-> <<>>, models |-> <<>>, busy |-> FALSE]
NoLeaf == <<2>>

TypeOK ==
    /\ part \in [Paths -> SUBSET Images] /\ alignable \subseteq Images
    /\ tasks \in Seq(Paths) /\ mapping \in [Workers -> Paths \cup {NoLeaf}]
    /\ DOMAIN managers \subseteq Clusters
    /\ \A p \in DOMAIN managers : managers[p] \in Seq(SUBSET Images)
    /\ merging \in [cluster : Paths, models : Seq(SUBSET Images), busy : BOOLEAN]
    /\ at \in {"map", "merge", "done", "threw"}
    /\ failed \in BOOLEAN /\ found \subseteq Images /\ whole \in BOOLEAN

Init ==
    /\ \E c \in Cuts : part = PartOf(c)
    /\ alignable \in Alignments
    /\ tasks = <<>> /\ mapping = [w \in Workers |-> NoLeaf] /\ managers = <<>>
    /\ merging = Nothing /\ failed = FALSE /\ at = "map"
    /\ found = {} /\ whole = TRUE

Put(p, models) == [q \in DOMAIN managers \cup {p} |-> IF q = p THEN models ELSE managers[q]]

(* Every leaf gets an empty manager and a task, the larger ones first.        *)
Largest(S) == {p \in S : \A q \in S : Cardinality(ImagesOf(p)) >= Cardinality(ImagesOf(q))}
AddTask ==
    /\ at = "map"
    /\ \E p \in Largest(Leaves \ DOMAIN managers) :
          tasks' = Append(tasks, p) /\ managers' = Put(p, <<>>)
    /\ UNCHANGED <<part, alignable, mapping, merging, failed, at, found, whole>>

Take(w) ==
    /\ mapping[w] = NoLeaf /\ tasks # <<>>
    /\ mapping' = [mapping EXCEPT ![w] = Head(tasks)] /\ tasks' = Tail(tasks)
    /\ UNCHANGED <<part, alignable, managers, merging, failed, at, found, whole>>

(* ReconstructCluster: the mapper is over, ...                                *)
Map(w) ==
    /\ mapping[w] # NoLeaf
    /\ \E models \in Results(ImagesOf(mapping[w])) :
          /\ managers' = Put(mapping[w], models)
          /\ found' = found \cup UNION Range(models)
          /\ whole' = (whole /\ models = <<ImagesOf(mapping[w])>>)
    /\ mapping' = [mapping EXCEPT ![w] = NoLeaf]
    /\ UNCHANGED <<part, alignable, tasks, merging, failed, at>>

(* ... or threw, after it may have left models in the manager.                *)
MapThrows(w) ==
    /\ mapping[w] # NoLeaf
    /\ mapping' = [mapping EXCEPT ![w] = NoLeaf] /\ failed' = TRUE
    /\ UNCHANGED <<part, alignable, tasks, managers, merging, at, found, whole>>

(* ThreadPool::Wait() returns, or rethrows what the tasks threw. *)
PoolDone == tasks = <<>> /\ \A w \in Workers : mapping[w] = NoLeaf

EndMapping ==
    /\ at = "map" /\ Leaves \subseteq DOMAIN managers /\ PoolDone
    /\ at' = IF failed THEN "threw" ELSE "merge"
    /\ UNCHANGED <<part, alignable, tasks, mapping, managers, merging, failed, found, whole>>

-----------------------------------------------------------------------------
(* MergeClusters() of each cluster, after that of its children.               *)

BeginMerge ==
    /\ at = "merge" /\ ~merging.busy
    /\ \E p \in Clusters \ Leaves :
          /\ Children(p) \subseteq DOMAIN managers
          /\ merging' = [cluster |-> p, busy |-> TRUE,
                         models |-> managers[Append(p, 0)] \o managers[Append(p, 1)]]
    /\ UNCHANGED <<part, alignable, tasks, mapping, managers, failed, at, found, whole>>

(* The common images that an alignment needs. *)
MinCommon == 3

(* MergeAndFilterReconstructions() succeeds. *)
Align(i, j) ==
    Cardinality(merging.models[i] \cap merging.models[j] \cap alignable) >= MinCommon

Pairs ==
    {x \in (DOMAIN merging.models) \X (DOMAIN merging.models) : x[2] < x[1] /\ Align(x[1], x[2])}
First(S) == CHOOSE x \in S : \A y \in S : x[1] < y[1] \/ (x[1] = y[1] /\ x[2] <= y[2])

(* Fault: the other model of a merged pair is dropped. *)
Merged_OtherErased(i, j) == RemoveAt([merging.models EXCEPT ![j] = @ \cup merging.models[i]], j)

Merged(i, j) == RemoveAt([merging.models EXCEPT ![i] = @ \cup merging.models[j]], j)

MergePair ==
    /\ at = "merge" /\ merging.busy /\ Pairs # {}
    /\ LET x == First(Pairs)
       IN  merging' = [merging EXCEPT !.models = Merged(x[1], x[2])]
    /\ UNCHANGED <<part, alignable, tasks, mapping, managers, failed, at, found, whole>>

Erased(p) == Children(p)

EndMerge ==
    /\ at = "merge" /\ merging.busy /\ Pairs = {}
    /\ managers' = Restrict(Put(merging.cluster, merging.models),
                            (DOMAIN managers \cup {merging.cluster}) \ Erased(merging.cluster))
    /\ merging' = Nothing
    /\ UNCHANGED <<part, alignable, tasks, mapping, failed, at, found, whole>>

(* The checks at the end of Run(): one manager, and its first model.          *)
EndRun ==
    /\ at = "merge" /\ ~merging.busy /\ <<>> \in DOMAIN managers
    /\ at' = IF DOMAIN managers = {<<>>} /\ managers[<<>>] # <<>> THEN "done" ELSE "threw"
    /\ UNCHANGED <<part, alignable, tasks, mapping, managers, merging, failed, found, whole>>

Ended == at \in {"done", "threw"} /\ UNCHANGED vars

Next ==
    \/ AddTask \/ EndMapping \/ BeginMerge \/ MergePair \/ EndMerge \/ EndRun \/ Ended
    \/ \E w \in Workers : Take(w) \/ Map(w) \/ MapThrows(w)

Spec == Init /\ [][Next]_vars

-----------------------------------------------------------------------------
(* The models at the end register every image that the mapper of some leaf    *)
(* registered, however they were merged, and Run() throws only when no leaf   *)
(* has a model or a mapper threw (hierarchical_pipeline.cc:42-101    *)
(* and 271-274).                                                              *)
NoImageLost ==
    /\ at = "done" => UNION Range(managers[<<>>]) = found
    /\ at = "threw" /\ ~failed => found = {}

(* When every mapper registers all the images of its leaf, all poses agree    *)
(* and the first cut is crossed by matches of three images on either side,    *)
(* there is one model with all the images, however few matches cross the cuts *)
(* below it: their clusters share what the first cut inserted into all of     *)
(* them, as many images as an alignment needs                                 *)
(* (scene_clustering.cc:152-190, estimators/alignment.cc:305).                *)
Crossed == \A path \in Children(<<>>) : Cardinality(Neighbours(path)) >= MinCommon
AllMerged ==
    /\ at \in {"done", "threw"} /\ ~failed /\ whole /\ alignable = Images
    /\ Crossed /\ ImageOverlap >= MinCommon
    => at = "done" /\ managers[<<>>] = <<UNION Edges>>

================================================================================

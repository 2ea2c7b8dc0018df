------------------------------- MODULE PoolTasks -------------------------------
(***************************************************************************)
(* The thread pool, and three of the computations that run as its tasks,    *)
(* each on a pool of its own: the patch match stereo (P), the fusion of its *)
(* depth maps (F) and the hierarchical pipeline (H).                        *)
(***************************************************************************)
EXTENDS ThreadPool

CONSTANTS Photos, Problems, NoBitmap, Options, MaxRuns           \* of the stereo

VARIABLES options, files, srcs, type, prest, ptasks, pjob, lock, pfailed, pstopped, pat, started

stereo ==
    <<options, files, srcs, type, prest, ptasks, pjob, lock, pfailed, pstopped, pat, started>>

P == INSTANCE PatchMatch WITH
        Images <- Photos,
        rest <- prest, tasks <- ptasks, job <- pjob, failed <- pfailed,
        stopped <- pstopped, at <- pat, runs <- started

CONSTANTS                                                       \* of the fusion
    NumImages, InUse, Blocks, Overlap, Masked, Filtered, Outside, Project, Agree, Nowhere,
    MinNumPixels, MaxNumPixels, MaxTraversalDepth

VARIABLES masks, fused, image, frest, ftasks, fjob, points, fstopped, fat

fusion == <<masks, fused, image, frest, ftasks, fjob, points, fstopped, fat>>

F == INSTANCE StereoFusion WITH
        Used <- InUse,
        rest <- frest, tasks <- ftasks, job <- fjob, stopped <- fstopped, at <- fat

CONSTANTS                                                       \* of the pipeline
    SceneImages, NumInliers, LeafMaxNumImages, ImageOverlap, MaxDepth, Cuts, Results(_),
    Alignments

VARIABLES
    part, alignable, ctasks, mapping, managers, merging, cfailed, cat, found, whole

clusters ==
    <<part, alignable, ctasks, mapping, managers, merging, cfailed, cat, found, whole>>

H == INSTANCE HierarchicalPipeline WITH
        Images <- SceneImages, Weight <- NumInliers,
        tasks <- ctasks, failed <- cfailed, at <- cat

-----------------------------------------------------------------------------
(* The type invariants of the pool and of what runs on it.                   *)
TypesOK == TypeOK /\ P!TypeOK /\ F!TypeOK /\ H!TypeOK

(* The second sweep of PatchMatchController::Run() finds the maps of the     *)
(* first one: none is taken for missing because it is not computed yet.      *)
(* And running the program again after it was killed completes every view    *)
(* and mends its torn files, but for the one written last                    *)
(* (patch_match.cc:410).                                                     *)
ViewsComplete == P!MapsReady /\ P!RerunMends

(* A complete view is never computed again (patch_match.cc:410-414), and     *)
(* nothing writes to the mask of an image that is fused (fusion.cc:301).     *)
DoneIsLeftAlone == P!CompleteViewsRest /\ F!FusedImagesRest

(* Unless it is stopped, the fusion leaves out no pixel with a depth         *)
(* (StereoFusion::Run(), mvs/fusion.cc), and a pixel is in at most one point *)
(* of each thread (401-405).                                                 *)
PixelsFused == F!AllPixelsFused /\ F!UsedOncePerThread

(* However the models of the clusters are merged, every image registered in  *)
(* a leaf is in the end in a model (hierarchical_pipeline.cc:42-101), and    *)
(* the overlap of the clusters is enough to merge all of them when nothing   *)
(* else fails (scene_clustering.cc:152-190).                                 *)
ClustersMerged == H!NoImageLost /\ H!AllMerged
================================================================================

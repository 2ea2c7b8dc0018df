----------------------------- MODULE MappingSearch -----------------------------
(***************************************************************************)
(* The incremental pipeline, and the parallel search (P) in which its       *)
(* mapper looks for a pair of images to begin a model with.  And the two    *)
(* uses of the union-find in mapping: the tracks from which the global      *)
(* mapper begins (Tracks), and the parts into which a model falls whose     *)
(* frames see too few points in common (Parts).                             *)
(***************************************************************************)
EXTENDS IncrementalPipeline

CONSTANTS Workers, First, Second        \* of the search

VARIABLES
    good, before, tried_pairs, stop, next, work, ready, info, awaited, caller, result

search == <<good, before, tried_pairs, stop, next, work, ready, info, awaited, caller, result>>

P == INSTANCE InitialPairSearch WITH init_image_pairs <- tried_pairs

CONSTANTS Scenes, Thresholds, MinCovisibility, MinFrames        \* of the parts

VARIABLES scene, threshold, strong, edges, froots, groups, submodels, cstage

pruning == <<scene, threshold, strong, edges, froots, groups, submodels, cstage>>

Parts == INSTANCE ReconstructionClustering WITH
        parent <- froots, clusters <- groups, models <- submodels, stage <- cstage

CONSTANTS Posed, MatchSets, Near, MinViews, Required, MaxTracks  \* of the tracks

VARIABLES
    matches, unjoined, troots, candidates, turn, counts, images_left, added, gstage

tracking ==
    <<matches, unjoined, troots, candidates, turn, counts, images_left, added, gstage>>

Tracks == INSTANCE GlobalTracks WITH
        Images <- Posed,
        todo <- unjoined, parent <- troots, next <- turn, points <- added, stage <- gstage

-----------------------------------------------------------------------------
(* The search for the initial pair fails only when no good pair was left     *)
(* untried, although tasks stop one another, and no task of it runs after    *)
(* the call that it refers to has returned, nor do two of them estimate the  *)
(* same pair (sfm/incremental_mapper_impl.cc:188-307).                           *)
SearchIsSound == P!FailsOnlyWithoutPair /\ P!NoTaskOutlivesCall

(* In whatever order edges or matches are joined, a frame or an observation   *)
(* has the root of those it is connected with and of no others.  So a model   *)
(* is split into its connected parts (reconstruction_clustering.cc:48-110),   *)
(* and the tracks are those of the matches, of which as many are added as the *)
(* images need (global_mapper.cc:139-290).                                    *)
ConnectedOnes ==
    /\ Parts!RootsAreComponents /\ Parts!ModelsAreComponents
    /\ Tracks!RootsAreTracks /\ Tracks!ViewsServed
================================================================================

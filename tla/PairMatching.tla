----------------------------- MODULE PairMatching -----------------------------
(***************************************************************************)
(* The generators of pairs (G), the one that asks the vocabulary tree (Q),  *)
(* and the matching of what they return.  FeatureMatching has the generator *)
(* as the lists that it returns.                                            *)
(***************************************************************************)
EXTENDS FeatureMatching

CONSTANTS
    PairOptions, GResets,                               \* of the generators
    Retrievers, NumQueries, Broken, QResets             \* of the vocabulary tree's

VARIABLES
    goptions, idx, idx2, pending, tried, iteration, inliers, out, gresets,
    waiting, taken, retrieved, query, result, answers, stale, open, failed, qresets, qat

generator == <<goptions, idx, idx2, pending, tried, iteration, inliers, out, gresets>>
queries ==
    <<waiting, taken, retrieved, query, result, answers, stale, open, failed, qresets, qat>>

G == INSTANCE PairGenerators WITH
        Options <- PairOptions, MaxResets <- GResets, options <- goptions, resets <- gresets

Q == INSTANCE VocabTreePairs WITH
        MaxResets <- QResets, tasks <- waiting, hand <- taken, queue <- retrieved,
        resets <- qresets, at <- qat

-----------------------------------------------------------------------------
(* When the generator has finished, every listed pair has both results,      *)
(* whatever rows earlier runs left.  Every pair that should be listed is,    *)
(* and no more often than it should, whatever the sizes of blocks and images *)
(* (pairing.cc:202-235, 477-542, 637-667, 749-814, 849-866); each query of   *)
(* the vocabulary tree gives one answer, though it throws (391-420).         *)
EveryPairMatched == AllMatched /\ G!PairsComplete /\ Q!AnsweredOnce
==============================================================================

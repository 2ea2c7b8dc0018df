----------------------------- MODULE MCThreadPool -----------------------------
(***************************************************************************)
(* The thread pool, and what runs its tasks on one: a behaviour is one of   *)
(* the subject it is about, the others do not move.                         *)
(*                                                                         *)
(* pool       Two workers, two clients and three tasks, one of which fails, *)
(*            as in util/threading_test.cc: a task can wait while both      *)
(*            workers are busy, and one client can stop the pool while the  *)
(*            other one waits.                                              *)
(* stereo     Two problems whose images are sources of each other, and an   *)
(*            image that has no problem of its own.                         *)
(* fusion     An image that is not in use and three that are, one of them   *)
(*            with no overlap; pixels that are masked, without a depth, out *)
(*            of the box, seen from two others, and one that disagrees.     *)
(* clusters   Eight images in two chains of four, cut at most twice: four    *)
(*            matches cross the first cut if it is between the chains, and   *)
(*            single ones the others.                                        *)
(***************************************************************************)
EXTENDS PoolTasks, TLC

CONSTANTS w1, w2, c1, c2, good, good2, bad, nowhere,
    Subjects                \* what the behaviours are about

VARIABLE about

all == <<about, vars, stereo, fusion, clusters>>

MCWorkers == {w1, w2}
MCClients == {c1, c2}
MCTasks == {good, good2, bad}
MCFailing == {bad}

MCProblems == <<[ref |-> 1, srcs |-> {2}], [ref |-> 2, srcs |-> {1, 3}]>>
MCOptions == [geometric : BOOLEAN, graphs : BOOLEAN, allowMissing : BOOLEAN]

-----------------------------------------------------------------------------
MCBlocks ==
    (0 :> <<>>)
    @@ (1 :> <<<<<<1, 1>>, <<1, 3>>>>, <<<<1, 2>>>>>>)
    @@ (2 :> <<<<<<2, 1>>, <<2, 2>>, <<2, 3>>>>>>)
    @@ (3 :> <<<<<<3, 1>>, <<3, 2>>>>, <<<<3, 3>>>>>>)
MCPixels == {1, 2, 3} \X {1, 2, 3}
MCOverlap == (0 :> <<3>>) @@ (1 :> <<2, 3>>) @@ (2 :> <<1>>) @@ (3 :> <<>>)
MCProject ==
    [x \in MCPixels \X (0 .. 3) |->
        CASE x \in {<<<<1, 1>>, 2>>, <<<<1, 2>>, 2>>} -> <<2, 1>>
          [] x = <<<<2, 1>>, 1>> -> <<1, 2>>
          [] x = <<<<1, 3>>, 2>> -> <<2, 2>>
          [] x = <<<<2, 2>>, 1>> -> <<1, 3>>
          [] OTHER -> nowhere]

MCMasked == {<<3, 2>>}
MCFiltered == {<<2, 3>>}
MCOutside == {<<3, 3>>}
MCAgree == (MCPixels \X MCPixels) \ {<<<<1, 3>>, <<2, 2>>>>}

-----------------------------------------------------------------------------
MCScene == 1 .. 8
MCWeight ==
    ({1, 2} :> 30) @@ ({2, 3} :> 11) @@ ({3, 4} :> 28)
    @@ ({5, 6} :> 29) @@ ({6, 7} :> 10) @@ ({7, 8} :> 27)
    @@ ({1, 5} :> 20) @@ ({2, 6} :> 21) @@ ({3, 7} :> 22) @@ ({4, 8} :> 9)
Chain == {1, 2, 3, 4}
(* The first cut is between the chains, at an image of one of them, or takes  *)
(* off the images at their ends, so that matches of two images cross it, or   *)
(* puts all images on one side; the second one divides what is left, a chain  *)
(* only, or nothing.                                                          *)
MCCuts ==
    {[i \in MCScene |-> <<IF i \in A THEN 0 ELSE 1, IF i \in B THEN 1 ELSE 0>>] :
        A \in {Chain, Chain \cup {5}, MCScene \ {4, 8}, MCScene},
        B \in {{}, {1, 2}, {3, 4, 7, 8}, {2, 3, 5, 7}}}
NoCut == [i \in MCScene |-> [d \in 1 .. 2 |-> 0]]
(* The mapper finds nothing, all in one model, or two models without one of   *)
(* the images 1 and 2 each, where it has these.                               *)
MCResults(S) ==
    {<<>>, <<S>>} \cup (IF {1, 2} \subseteq S THEN {<<S \ {1}, S \ {2}>>} ELSE {})
MCAlignments == {MCScene, {1, 2, 3, 5, 6}, {1, 6, 7}}


ASSUME P!ProblemsAssumption
ASSUME F!FusionAssumption
ASSUME H!ClusteringAssumption

-----------------------------------------------------------------------------
(* A subject the behaviour is not about is in one of its initial states. *)
MCInit ==
    /\ about \in Subjects
    /\ Init /\ P!Init /\ F!Init /\ H!Init
    /\ about # "stereo" =>
          options = [geometric |-> FALSE, graphs |-> FALSE, allowMissing |-> FALSE]
    /\ about # "clusters" => part = H!PartOf(NoCut) /\ alignable = MCScene

PoolNext ==
    about = "pool" /\ Next /\ UNCHANGED <<about, stereo, fusion, clusters>>
StereoNext ==
    about = "stereo" /\ P!Next /\ UNCHANGED <<about, vars, fusion, clusters>>
FusionNext ==
    about = "fusion" /\ F!Next /\ UNCHANGED <<about, vars, stereo, clusters>>
ClustersNext ==
    about = "clusters" /\ H!Next /\ UNCHANGED <<about, vars, stereo, fusion>>

MCNext == PoolNext \/ StereoNext \/ FusionNext \/ ClustersNext

(* The fairness of each subject, which binds it while the behaviour is about  *)
(* it.                                                                        *)
MCSpec ==
    /\ MCInit /\ [][MCNext]_all
    /\ \A w \in Workers : WF_vars(about = "pool" /\ WorkerNext(w))
    /\ \A c \in Clients : WF_vars(about = "pool" /\ ClientContinues(c))
    /\ WF_stereo(about = "stereo" /\ P!Controller)
    /\ \A w \in Workers : WF_stereo(about = "stereo" /\ P!Work(w))
    /\ WF_fusion(about = "fusion" /\ F!Controller)
    /\ \A w \in Workers : WF_fusion(about = "fusion" /\ F!Work(w))

-----------------------------------------------------------------------------
(* Every call of ThreadPool::Wait() and Stop() ends, and the future of every *)
(* task that AddTask() took gets a value or an exception; the fusion ends,   *)
(* and so does the patch match stereo, whatever their tasks throw            *)
(* (mvs/fusion.cc:272-310, mvs/patch_match.cc:170-207).                      *)
PoolCallsEnd ==
    /\ about = "pool" => CallsEnd /\ FuturesReady
    /\ about = "fusion" => F!FusionEnds
    /\ about = "stereo" => P!RunEnds
===============================================================================

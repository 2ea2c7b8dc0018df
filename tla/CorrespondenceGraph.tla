-------------------------- MODULE CorrespondenceGraph --------------------------
(***************************************************************************)
(* colmap::CorrespondenceGraph (scene/correspondence_graph.cc): the matches *)
(* of all image pairs, kept at both of their ends, and the counts that the  *)
(* mapper chooses images by.  It is filled by one thread; AddImage() and    *)
(* Finalize() are one action, AddTwoViewGeometry() takes one step for each  *)
(* match.  ObservationManager takes the correspondences as they are here.   *)
(***************************************************************************)
EXTENDS Integers, Sequences, FiniteSets

CONSTANTS
    Images,                 \* image ids, compared by the code
    Observations, ImageOf,  \* image points, and the image of each
    Bogus,                  \* an index that no point of the image has
    Geometries              \* two-view geometries that may be added

(* What the constants must satisfy. *)
PointsAssumption ==
    /\ Images \subseteq Nat /\ IsFiniteSet(Images)
    /\ IsFiniteSet(Observations) /\ ImageOf \in [Observations -> Images]
    /\ Bogus \notin Observations

Of(i) == {o \in Observations : ImageOf[o] = i}

(* inlier_matches are pairs of indices into the points of both images. *)
Geometry ==
    [image1 : Images, image2 : Images,
     matches : Seq((Observations \cup {Bogus}) \X (Observations \cup {Bogus}))]

(* A match is of points of the two images, or of an index that none has.     *)
Fits(g) ==
    \A k \in 1 .. Len(g.matches) :
        g.matches[k] \in (Of(g.image1) \cup {Bogus}) \X (Of(g.image2) \cup {Bogus})

GeometriesAssumption == \A g \in Geometries : g \in Geometry /\ Fits(g)

VARIABLES
    images,                 \* the keys of images_
    listed,                 \* how often c is in corrs[o], for <<o, c>>
    numObservations,        \* images_[i].num_observations
    numCorrespondences,     \* images_[i].num_correspondences
    numMatches,             \* image_pairs_: num_matches of each pair
    direction,              \* the images that the geometry of a pair goes from, to
    adding,                 \* the geometry that is being added, its matches to go
    finalized,
    thrown                  \* a check of AddTwoViewGeometry() has thrown

graph == <<images, listed, numObservations, numCorrespondences, numMatches,
           direction, adding, finalized, thrown>>

NoGeometry == [image1 |-> 0, image2 |-> 0, matches |-> <<>>]
Idle == adding = NoGeometry

TypeOK ==
    /\ images \subseteq Images
    /\ listed \in [Observations \X Observations -> Nat]
    /\ numObservations \in [Images -> Nat] /\ numCorrespondences \in [Images -> Nat]
    /\ DOMAIN numMatches \subseteq SUBSET images
    /\ numMatches \in [DOMAIN numMatches -> Nat]
    /\ direction \in [DOMAIN numMatches -> images \X images]
    /\ adding \in Geometry \cup {NoGeometry}
    /\ finalized \in BOOLEAN /\ thrown \in BOOLEAN

Empty(known) ==
    /\ images = known
    /\ listed = [p \in Observations \X Observations |-> 0]
    /\ numObservations = [i \in Images |-> 0]
    /\ numCorrespondences = [i \in Images |-> 0]
    /\ numMatches = [p \in {} |-> 0] /\ direction = [p \in {} |-> <<0, 0>>]
    /\ adding = NoGeometry /\ finalized = FALSE /\ thrown = FALSE

Init == Empty({})

-----------------------------------------------------------------------------
(* Images are added before Finalize(), as every caller does.                 *)
AddImage(i) ==
    /\ Idle /\ i \notin images /\ ~finalized
    /\ images' = images \cup {i}
    /\ UNCHANGED <<listed, numObservations, numCorrespondences, numMatches,
                   direction, adding, finalized, thrown>>

Ends(g) == {g.image1, g.image2}
Count(g, n) ==
    numCorrespondences' =
        [i \in Images |-> numCorrespondences[i] + IF i \in Ends(g) THEN n ELSE 0]

(* Extended(f, x, y): f with y at x. *)
Extended(f, x, y) == [z \in DOMAIN f \cup {x} |-> IF z = x THEN y ELSE f[z]]

Invert(d) == <<d[2], d[1]>>

Kept_AsGiven(d) == d
(* ShouldSwapImagePair(): geometries are kept from the smaller id.           *)
Kept(d) == IF d[1] > d[2] THEN Invert(d) ELSE d

(* AddTwoViewGeometry() up to its loop; self-matches are left out.  Bound:   *)
(* one call that throws.                                                     *)
AddTwoViewGeometry(g) ==
    /\ Idle /\ g.image1 # g.image2 /\ Ends(g) \subseteq images
    /\ Count(g, Len(g.matches))
    /\ IF Ends(g) \in DOMAIN numMatches
       THEN ~thrown /\ thrown' = TRUE /\ UNCHANGED <<numMatches, direction, adding>>
       ELSE /\ numMatches' = Extended(numMatches, Ends(g), Len(g.matches))
            /\ direction' = Extended(direction, Ends(g), Kept(<<g.image1, g.image2>>))
            /\ adding' = g /\ UNCHANGED thrown
    /\ UNCHANGED <<images, listed, numObservations, finalized>>

(* Finalize() has emptied the vectors of correspondences.                    *)
Points(i) == IF finalized THEN {} ELSE Of(i)
Listed(o) == {c \in Observations : listed[<<o, c>>] > 0}

Valid_First(m, g) == m[1] \in Points(g.image1)
Valid(m, g) == m[1] \in Points(g.image1) /\ m[2] \in Points(g.image2)

Duplicate_Never(m) == FALSE
Duplicate(m) == m[2] \in Listed(m[1])

New(m, g) == Valid(m, g) /\ ~Duplicate(m)

(* "First correspondence makes this point an observation." *)
Observes_FirstOnly(m, o) == o = m[1] /\ Listed(o) = {}
Observes(m, o) == o \in {m[1], m[2]} /\ Listed(o) = {}

Rest == [adding EXCEPT !.matches = Tail(@)]

AddMatch ==
    /\ adding.matches # <<>>
    /\ LET m == Head(adding.matches) IN
          /\ New(m, adding)
          /\ listed' = [p \in DOMAIN listed |->
                listed[p] + IF p = m \/ p = Invert(m) THEN 1 ELSE 0]
          /\ numObservations' = [i \in Images |->
                numObservations[i] + Cardinality({o \in Of(i) : Observes(m, o)})]
    /\ adding' = Rest
    /\ UNCHANGED <<images, numCorrespondences, numMatches, direction, finalized, thrown>>

(* A match of points that do not exist, or that is there.                    *)
SkipMatch ==
    /\ adding.matches # <<>>
    /\ ~New(Head(adding.matches), adding)
    /\ Count(adding, -1)
    /\ numMatches' = [numMatches EXCEPT ![Ends(adding)] = @ - 1]
    /\ adding' = Rest
    /\ UNCHANGED <<images, listed, numObservations, direction, finalized, thrown>>

MatchesAdded ==
    /\ ~Idle /\ adding.matches = <<>> /\ adding' = NoGeometry
    /\ UNCHANGED <<images, listed, numObservations, numCorrespondences, numMatches,
                   direction, finalized, thrown>>

(* The vectors are flattened; every point keeps its correspondences.         *)
Finalize ==
    /\ Idle /\ ~finalized /\ finalized' = TRUE
    /\ UNCHANGED <<images, listed, numObservations, numCorrespondences, numMatches,
                   direction, adding, thrown>>

UpdateTwoViewGeometry(i, j) ==
    /\ Idle /\ {i, j} \in DOMAIN numMatches /\ i # j
    /\ direction' = [direction EXCEPT ![{i, j}] = Kept(<<i, j>>)]
    /\ UNCHANGED <<images, listed, numObservations, numCorrespondences, numMatches,
                   adding, finalized, thrown>>

AddStep == AddMatch \/ SkipMatch \/ MatchesAdded

Next ==
    \/ \E i \in Images : AddImage(i)
    \/ \E g \in Geometries : AddTwoViewGeometry(g)
    \/ AddStep
    \/ Finalize
    \/ \E i, j \in Images : UpdateTwoViewGeometry(i, j)

Spec == Init /\ [][Next]_graph

-----------------------------------------------------------------------------
(* ExtractMatchesBetweenImages(), NumMatchesBetweenImages() and              *)
(* ExtractTwoViewGeometry() *)
MatchesBetween(i, j) == {p \in Of(i) \X Of(j) : listed[p] > 0}
MatchesFrom(i) == {p \in Of(i) \X Observations : listed[p] > 0}
DirectionOf(i, j) ==
    IF i > j THEN Invert(direction[{i, j}]) ELSE direction[{i, j}]

ToGo(pair) == IF Ends(adding) = pair THEN Len(adding.matches) ELSE 0
ToGoOf(i) == IF i \in Ends(adding) THEN Len(adding.matches) ELSE 0

(* What ObservationManager and IncrementalTriangulator take for granted of    *)
(* the correspondences: they are listed at both ends, once, and lead to other *)
(* images that are in the graph.  A duplicate is looked for at one end only   *)
(* (correspondence_graph.cc:143-151).                                        *)
Symmetric ==
    \A o, c \in Observations :
        /\ listed[<<o, c>>] = listed[<<c, o>>] /\ listed[<<o, c>>] <= 1
        /\ listed[<<o, c>>] > 0 =>
              ImageOf[o] # ImageOf[c] /\ {ImageOf[o], ImageOf[c]} \in DOMAIN numMatches

(* The counts, kept by increments and taken back for what is skipped, are    *)
(* those of the listed correspondences; so none falls below zero, and the    *)
(* check of Finalize() (74) never throws.  A pair that is added twice is      *)
(* counted before the check throws (115-126).                                *)
CountsAgree ==
    /\ \A i \in Images : numObservations[i] = Cardinality({o \in Of(i) : Listed(o) # {}})
    /\ \A i, j \in Images : i # j /\ {i, j} \in DOMAIN numMatches =>
          numMatches[{i, j}] = Cardinality(MatchesBetween(i, j)) + ToGo({i, j})
    /\ ~thrown => \A i \in Images :
          numCorrespondences[i] = Cardinality(MatchesFrom(i)) + ToGoOf(i)

(* A geometry is handed out in the direction that is asked for.              *)
Directed ==
    \A i, j \in Images : i # j /\ {i, j} \in DOMAIN numMatches => DirectionOf(i, j) = <<i, j>>
==============================================================================

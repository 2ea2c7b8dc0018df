--------------------- MODULE IncrementalTriangulator_proofs ---------------------
(***************************************************************************)
(* The observation manager: for any finite sets of images and image points, *)
(* any matches and any frames, image points and tracks name each other,     *)
(* points are seen by registered frames only, and the counters, which are   *)
(* only ever incremented and decremented, do not drift or fall below zero.  *)
(*                                                                         *)
(* The triangulator above it: it changes the points through the operations  *)
(* of the observation manager only, no call of it makes the reconstruction  *)
(* throw, no point that it changes is missing from the modified ones, and   *)
(* two-view tracks are ignored if they are to be; for any matches, whatever *)
(* is estimated.                                                            *)
(***************************************************************************)
EXTENDS IncrementalTriangulator, FiniteSetTheorems, WellFoundedInduction,
        NaturalsInduction, TLAPS

-----------------------------------------------------------------------------
(* The observation manager. *)

(* The values that the steps keep: a registered frame has all its images     *)
(* known, so that an image that arrives later has no points yet.             *)
Typed ==
    /\ point \in [Observations -> PointIds \cup {NoPoint}]
    /\ DOMAIN track \subseteq PointIds
    /\ \A id \in DOMAIN track : track[id] \subseteq Observations
    /\ DOMAIN visiblePoints = Images /\ known \subseteq Images
    /\ removing # NoFrame => removing \in reg
    /\ \A i \in Images : FrameOf[i] \in reg => i \in known

Scene == Typed /\ TracksAgree /\ OnlyRegistered

Counted == ImagePointsCounted /\ MatchesCounted /\ VisiblePointsCounted

IInv == Scene /\ Counted

-----------------------------------------------------------------------------
LEMMA FinitePoints ==
    ASSUME NEW S, S \subseteq Observations
    PROVE  IsFiniteSet(S) /\ Cardinality(S) \in Nat
BY ImagesAssumption, FS_Subset, FS_CardinalityType DEF ImagesAssumption

LEMMA OfFinite ==
    ASSUME NEW i
    PROVE  Of(i) \subseteq Observations
BY DEF Of

LEMMA MatchesFinite ==
    ASSUME NEW o, NEW K
    PROVE  Matches(o, K) \subseteq Observations
BY DEF Matches

(* Two sets without a common element. *)
LEMMA CountDisjoint ==
    ASSUME NEW A, NEW B, NEW C, A \subseteq Observations, B \subseteq Observations,
           A \cap B = {}, C = A \cup B
    PROVE  Cardinality(C) = Cardinality(A) + Cardinality(B)
<1>1. Cardinality(A \cup B) = Cardinality(A) + Cardinality(B) - Cardinality(A \cap B)
  BY FinitePoints, FS_Union
<1>2. Cardinality(A \cap B) = 0
  BY FS_EmptySet
<1>3. Cardinality(A) \in Nat /\ Cardinality(B) \in Nat
  BY FinitePoints
<1> QED
  BY <1>1, <1>2, <1>3

(* What S has in a set grows by what is new, and shrinks by what is gone.    *)
LEMMA CountUnion ==
    ASSUME NEW S, NEW T, NEW A, S \subseteq Observations,
           A \subseteq Observations, T \subseteq Observations, T \cap A = {}
    PROVE  Cardinality(S \cap (A \cup T)) =
              Cardinality(S \cap A) + Cardinality(S \cap T)
<1> DEFINE P == S \cap A
           Q == S \cap T
           R == S \cap (A \cup T)
<1>1. P \subseteq Observations /\ Q \subseteq Observations /\ P \cap Q = {} /\ R = P \cup Q
  OBVIOUS
<1> HIDE DEF P, Q, R
<1>2. Cardinality(R) = Cardinality(P) + Cardinality(Q)
  BY <1>1, CountDisjoint
<1> QED
  BY <1>2 DEF P, Q, R

LEMMA CountDifference ==
    ASSUME NEW S, NEW T, NEW A, S \subseteq Observations,
           A \subseteq Observations, T \subseteq A
    PROVE  Cardinality(S \cap (A \ T)) =
              Cardinality(S \cap A) - Cardinality(S \cap T)
<1> DEFINE P == S \cap A
           Q == S \cap T
           R == S \cap (A \ T)
<1>1. R \subseteq Observations /\ Q \subseteq Observations /\ R \cap Q = {} /\ P = R \cup Q
  OBVIOUS
<1> HIDE DEF P, Q, R
<1>2. Cardinality(P) = Cardinality(R) + Cardinality(Q)
  BY <1>1, CountDisjoint
<1>3. Cardinality(R) \in Nat /\ Cardinality(Q) \in Nat
  BY <1>1, FinitePoints
<1>4. Cardinality(R) = Cardinality(P) - Cardinality(Q)
  BY <1>2, <1>3
<1> QED
  BY <1>4 DEF P, Q, R

(* The size of a set from what entered and what left it. *)
LEMMA CountChange ==
    ASSUME NEW A, NEW B, A \subseteq Observations, B \subseteq Observations
    PROVE  Cardinality(B) =
              Cardinality(A) + Cardinality(B \ A) - Cardinality(A \ B)
<1> DEFINE P == A \ B
           Q == B \ A
           R == A \cap B
<1>1. /\ P \subseteq Observations /\ Q \subseteq Observations /\ R \subseteq Observations
      /\ R \cap P = {} /\ A = R \cup P /\ R \cap Q = {} /\ B = R \cup Q
  OBVIOUS
<1> HIDE DEF P, Q, R
<1>2. Cardinality(A) = Cardinality(R) + Cardinality(P)
  BY <1>1, CountDisjoint
<1>3. Cardinality(B) = Cardinality(R) + Cardinality(Q)
  BY <1>1, CountDisjoint
<1>4. /\ Cardinality(P) \in Nat /\ Cardinality(Q) \in Nat /\ Cardinality(R) \in Nat
      /\ Cardinality(A) \in Nat /\ Cardinality(B) \in Nat
  BY <1>1, FinitePoints
<1>5. Cardinality(B) = Cardinality(A) + Cardinality(Q) - Cardinality(P)
  BY <1>2, <1>3, <1>4
<1> QED
  BY <1>5 DEF P, Q

-----------------------------------------------------------------------------
LEMMA InitInv == Init => IInv
<1> SUFFICES ASSUME Init PROVE IInv
  OBVIOUS
<1>1. Triangulated = {}
  BY DEF Init, Triangulated
<1>2. Typed
  BY ImagesAssumption DEF Init, Typed, ImagesAssumption
<1>3. TracksAgree
  BY NoneAssumption DEF Init, TracksAgree, NoneAssumption
<1>4. OnlyRegistered
  BY <1>1 DEF OnlyRegistered
<1>5. ImagePointsCounted
  <2>1. \A i \in Images : Of(i) \cap Triangulated = {}
    BY <1>1
  <2> QED
    BY <2>1, FS_EmptySet DEF Init, ImagePointsCounted
<1>6. MatchesCounted
  <2>1. \A o \in Observations : Matches(o, known) \cap Triangulated = {}
    BY <1>1
  <2> QED
    BY <2>1, FS_EmptySet DEF Init, MatchesCounted
<1>7. VisiblePointsCounted
  <2>1. \A i \in Images : {o \in Of(i) : Matches(o, known) \cap Triangulated # {}} = {}
    BY <1>1
  <2> QED
    BY <2>1, FS_EmptySet DEF Init, VisiblePointsCounted
<1> QED
  BY <1>2, <1>3, <1>4, <1>5, <1>6, <1>7 DEF IInv, Scene, Counted

-----------------------------------------------------------------------------
(* An image point counts for its image when one of its matches has a point.  *)
LEMMA SeenByCount ==
    ASSUME NEW n, NEW o, NEW K, NEW T, T \subseteq Observations,
           n = Cardinality(Matches(o, K) \cap T)
    PROVE  Matches(o, K) \cap T # {} <=> n > 0
<1> DEFINE M == Matches(o, K) \cap T
<1>2. IsFiniteSet(M) /\ Cardinality(M) \in Nat
  BY FinitePoints
<1>3. n = Cardinality(M)
  OBVIOUS
<1>4. Cardinality(M) = 0 <=> M = {}
  BY <1>2, FS_EmptySet
<1> HIDE DEF M
<1>5. M # {} <=> n > 0
  BY <1>2, <1>3, <1>4
<1> QED
  BY <1>5 DEF M

LEMMA CountCommutes ==
    ASSUME NEW A, NEW B
    PROVE  Cardinality(A \cap B) = Cardinality(B \cap A)
<1>1. A \cap B = B \cap A
  OBVIOUS
<1> QED
  BY <1>1, Zenon

(* Counting the crossings of zero keeps the visible points.                  *)
LEMMA CrossingsCount ==
    ASSUME MatchesCounted, MatchesCounted', VisiblePointsCounted,
           \A i \in Images : visiblePoints'[i] =
              visiblePoints[i] + Crossed(i, havePoint, havePoint')
                               - Crossed(i, havePoint', havePoint)
    PROVE  VisiblePointsCounted'
<1> SUFFICES ASSUME NEW i \in Images
             PROVE  visiblePoints'[i] =
                       Cardinality({o \in Of(i) : Matches(o, known') \cap Triangulated' # {}})
  BY DEF VisiblePointsCounted, Matches, Of
<1> DEFINE A == {o \in Of(i) : havePoint[o] > 0}
           B == {o \in Of(i) : havePoint'[o] > 0}
<1>1. {o \in Of(i) : Matches(o, known) \cap Triangulated # {}} = A
  <2> SUFFICES ASSUME NEW o \in Of(i)
               PROVE  Matches(o, known) \cap Triangulated # {} <=> havePoint[o] > 0
    BY Zenon
  <2>1. havePoint[o] = Cardinality(Matches(o, known) \cap Triangulated)
    BY OfFinite DEF MatchesCounted
  <2>2. Triangulated \subseteq Observations
    BY DEF Triangulated
  <2> QED
    BY <2>1, <2>2, SeenByCount, Zenon
<1>2. {o \in Of(i) : Matches(o, known') \cap Triangulated' # {}} = B
  <2> SUFFICES ASSUME NEW o \in Of(i)
               PROVE  Matches(o, known') \cap Triangulated' # {} <=> havePoint'[o] > 0
    BY Zenon
  <2>1. havePoint'[o] = Cardinality(Matches(o, known') \cap Triangulated')
    BY OfFinite DEF MatchesCounted, Matches
  <2>2. Triangulated' \subseteq Observations
    BY DEF Triangulated
  <2> QED
    BY <2>1, <2>2, SeenByCount, Zenon
<1>3. A \subseteq Observations /\ B \subseteq Observations
  BY OfFinite
<1>4. \A o \in Of(i) : havePoint[o] \in Nat /\ havePoint'[o] \in Nat
  <2> SUFFICES ASSUME NEW o \in Of(i) PROVE havePoint[o] \in Nat /\ havePoint'[o] \in Nat
    OBVIOUS
  <2>1. o \in Observations
    BY OfFinite
  <2>2. havePoint[o] = Cardinality(Matches(o, known) \cap Triangulated)
    BY <2>1 DEF MatchesCounted
  <2>3. havePoint'[o] = Cardinality(Matches(o, known') \cap Triangulated')
    BY <2>1 DEF MatchesCounted, Matches
  <2> QED
    BY <2>2, <2>3, MatchesFinite, FinitePoints
<1>5. Crossed(i, havePoint, havePoint') = Cardinality(B \ A)
  <2>1. {o \in Of(i) : havePoint[o] = 0 /\ havePoint'[o] > 0} = B \ A
    BY <1>4
  <2> QED
    BY <2>1 DEF Crossed
<1>6. Crossed(i, havePoint', havePoint) = Cardinality(A \ B)
  <2>1. {o \in Of(i) : havePoint'[o] = 0 /\ havePoint[o] > 0} = A \ B
    BY <1>4
  <2> QED
    BY <2>1 DEF Crossed
<1>7. visiblePoints[i] = Cardinality(A)
  BY <1>1 DEF VisiblePointsCounted
<1> HIDE DEF A, B
<1>8. Cardinality(B) = Cardinality(A) + Cardinality(B \ A) - Cardinality(A \ B)
  BY <1>3, CountChange
<1> QED
  BY <1>2, <1>5, <1>6, <1>7, <1>8

(* The image points S are given a point. *)
LEMMA GainCounts ==
    ASSUME Counted, NEW S, S \subseteq Observations, S \cap Triangulated = {},
           Triangulated' = Triangulated \cup S, known' = known,
           CountPoints(S, 1), CountMatches(S, 1)
    PROVE  Counted' /\ DOMAIN visiblePoints' = Images
<1>1. Triangulated \subseteq Observations
  BY DEF Triangulated
<1>2. ImagePointsCounted'
  <2> SUFFICES ASSUME NEW i \in Images
               PROVE  numPoints3D'[i] = Cardinality(Of(i) \cap Triangulated')
    BY DEF ImagePointsCounted, Of
  <2>1. numPoints3D'[i] = Cardinality(Of(i) \cap Triangulated) + 1 * Cardinality(S \cap Of(i))
    BY DEF CountPoints, Counted, ImagePointsCounted
  <2>2. Cardinality(Of(i) \cap (Triangulated \cup S)) =
           Cardinality(Of(i) \cap Triangulated) + Cardinality(Of(i) \cap S)
    BY <1>1, OfFinite, CountUnion
  <2>3. Cardinality(Of(i) \cap S) \in Nat
    BY OfFinite, FinitePoints
  <2>4. Cardinality(S \cap Of(i)) = Cardinality(Of(i) \cap S)
    BY CountCommutes
  <2> QED
    BY <2>1, <2>2, <2>3, <2>4
<1>3. MatchesCounted'
  <2> SUFFICES ASSUME NEW o \in Observations
               PROVE  havePoint'[o] = Cardinality(Matches(o, known) \cap Triangulated')
    BY DEF MatchesCounted, Matches
  <2>1. havePoint'[o] = Cardinality(Matches(o, known) \cap Triangulated)
                           + 1 * Cardinality(Matches(o, known) \cap S)
    BY DEF CountMatches, Counted, MatchesCounted
  <2>2. Cardinality(Matches(o, known) \cap (Triangulated \cup S)) =
           Cardinality(Matches(o, known) \cap Triangulated)
              + Cardinality(Matches(o, known) \cap S)
    BY <1>1, MatchesFinite, CountUnion
  <2>3. Cardinality(Matches(o, known) \cap S) \in Nat
    BY MatchesFinite, FinitePoints
  <2> QED
    BY <2>1, <2>2, <2>3
<1>4. VisiblePointsCounted'
  BY <1>3, CrossingsCount DEF Counted, CountMatches
<1> QED
  BY <1>2, <1>3, <1>4 DEF Counted, CountMatches

(* The image points S lose theirs. *)
LEMMA LossCounts ==
    ASSUME Counted, NEW S, S \subseteq Triangulated,
           Triangulated' = Triangulated \ S, known' = known,
           CountPoints(S, -1), CountMatches(S, -1)
    PROVE  Counted' /\ DOMAIN visiblePoints' = Images
<1>1. Triangulated \subseteq Observations
  BY DEF Triangulated
<1>2. ImagePointsCounted'
  <2> SUFFICES ASSUME NEW i \in Images
               PROVE  numPoints3D'[i] = Cardinality(Of(i) \cap Triangulated')
    BY DEF ImagePointsCounted, Of
  <2>1. numPoints3D'[i] =
           Cardinality(Of(i) \cap Triangulated) + (-1) * Cardinality(S \cap Of(i))
    BY DEF CountPoints, Counted, ImagePointsCounted
  <2>2. Cardinality(Of(i) \cap (Triangulated \ S)) =
           Cardinality(Of(i) \cap Triangulated) - Cardinality(Of(i) \cap S)
    BY <1>1, OfFinite, CountDifference
  <2>3. /\ Cardinality(Of(i) \cap S) \in Nat
        /\ Cardinality(Of(i) \cap Triangulated) \in Nat
    BY OfFinite, FinitePoints
  <2>4. Cardinality(S \cap Of(i)) = Cardinality(Of(i) \cap S)
    BY CountCommutes
  <2> QED
    BY <2>1, <2>2, <2>3, <2>4
<1>3. MatchesCounted'
  <2> SUFFICES ASSUME NEW o \in Observations
               PROVE  havePoint'[o] = Cardinality(Matches(o, known) \cap Triangulated')
    BY DEF MatchesCounted, Matches
  <2>1. havePoint'[o] = Cardinality(Matches(o, known) \cap Triangulated)
                           + (-1) * Cardinality(Matches(o, known) \cap S)
    BY DEF CountMatches, Counted, MatchesCounted
  <2>2. Cardinality(Matches(o, known) \cap (Triangulated \ S)) =
           Cardinality(Matches(o, known) \cap Triangulated)
              - Cardinality(Matches(o, known) \cap S)
    BY <1>1, MatchesFinite, CountDifference
  <2>3. /\ Cardinality(Matches(o, known) \cap S) \in Nat
        /\ Cardinality(Matches(o, known) \cap Triangulated) \in Nat
    BY MatchesFinite, FinitePoints
  <2> QED
    BY <2>1, <2>2, <2>3
<1>4. VisiblePointsCounted'
  BY <1>3, CrossingsCount DEF Counted, CountMatches
<1> QED
  BY <1>2, <1>3, <1>4 DEF Counted, CountMatches

(* Neither the points nor their counters change. *)
LEMMA SameCounts ==
    ASSUME Counted, Triangulated' = Triangulated,
           UNCHANGED <<known, numPoints3D, visiblePoints, havePoint>>
    PROVE  Counted'
<1>1. ImagePointsCounted'
  BY Zenon DEF Counted, ImagePointsCounted, Of
<1>2. MatchesCounted'
  BY Zenon DEF Counted, MatchesCounted, Matches
<1>3. VisiblePointsCounted'
  BY Zenon DEF Counted, VisiblePointsCounted, Of, Matches
<1> QED
  BY <1>1, <1>2, <1>3 DEF Counted

-----------------------------------------------------------------------------
LEMMA TrackFacts ==
    ASSUME Scene, NEW id \in DOMAIN track
    PROVE  /\ id \in PointIds /\ id # NoPoint
           /\ track[id] \subseteq Observations /\ track[id] \subseteq Triangulated
           /\ \A o \in Observations : o \in track[id] <=> point[o] = id
           /\ IsFiniteSet(track[id]) /\ Cardinality(track[id]) \in Nat
           /\ Cardinality(track[id]) >= 2
<1>1. id \in PointIds /\ id # NoPoint /\ track[id] \subseteq Observations
  BY NoneAssumption DEF Scene, Typed, NoneAssumption
<1>2. \A o \in Observations : o \in track[id] <=> point[o] = id
  BY <1>1 DEF Scene, TracksAgree
<1>3. Cardinality(track[id]) >= 2
  BY DEF Scene, TracksAgree
<1> QED
  BY <1>1, <1>2, <1>3, FinitePoints DEF Triangulated

(* The count of a track that grows. *)
LEMMA StillTwo ==
    ASSUME Scene, NEW id \in DOMAIN track, NEW T, T \subseteq Observations,
           track[id] \subseteq T
    PROVE  Cardinality(T) >= 2
<1>1. IsFiniteSet(T) /\ Cardinality(T) \in Nat
  BY FinitePoints
<1>2. Cardinality(track[id]) <= Cardinality(T)
  BY <1>1, FS_Subset
<1> QED
  BY <1>1, <1>2, TrackFacts

LEMMA AddPointInv ==
    ASSUME IInv, NEW id \in PointIds, NEW T \in SUBSET Observations, AddPoint3D(id, T)
    PROVE  IInv'
<1>1. /\ id \notin DOMAIN track /\ T \subseteq Registered /\ T \cap Triangulated = {}
      /\ Cardinality(T) >= 2 /\ id # NoPoint
  BY NoneAssumption DEF AddPoint3D, NoneAssumption
<1>2. /\ point' = [o \in Observations |-> IF o \in T THEN id ELSE point[o]]
      /\ track' = [p \in DOMAIN track \cup {id} |-> IF p = id THEN T ELSE track[p]]
      /\ reg' = reg /\ known' = known /\ removing' = removing
  BY DEF AddPoint3D, SetPoint, Track
<1>3. Triangulated' = Triangulated \cup T
  BY <1>1, <1>2 DEF Triangulated
<1>4. Counted' /\ DOMAIN visiblePoints' = Images
  BY <1>1, <1>2, <1>3, GainCounts DEF IInv, AddPoint3D
<1>5. Typed'
  BY <1>2, <1>4 DEF IInv, Scene, Typed
<1>6. TracksAgree'
  <2>1. \A o \in Observations, p \in PointIds :
           point'[o] = p <=> p \in DOMAIN track' /\ o \in track'[p]
    BY <1>1, <1>2, NoneAssumption
       DEF IInv, Scene, TracksAgree, Triangulated, NoneAssumption
  <2>2. \A p \in DOMAIN track' : Cardinality(track'[p]) >= 2
    BY <1>1, <1>2 DEF IInv, Scene, TracksAgree
  <2> QED
    BY <2>1, <2>2 DEF TracksAgree
<1>7. OnlyRegistered'
  BY <1>1, <1>2, <1>3 DEF IInv, Scene, OnlyRegistered, Registered
<1> QED
  BY <1>4, <1>5, <1>6, <1>7 DEF IInv, Scene

LEMMA AddObservationInv ==
    ASSUME IInv, NEW id \in PointIds, NEW o \in Observations, AddObservation(id, o)
    PROVE  IInv'
<1>1. id \in DOMAIN track /\ o \in Registered /\ o \notin Triangulated /\ id # NoPoint
  BY NoneAssumption DEF AddObservation, NoneAssumption
<1>2. /\ point' = [c \in Observations |-> IF c \in {o} THEN id ELSE point[c]]
      /\ track' = [track EXCEPT ![id] = @ \cup {o}]
      /\ reg' = reg /\ known' = known /\ removing' = removing
  BY DEF AddObservation, SetPoint
<1>3. Triangulated' = Triangulated \cup {o}
  BY <1>1, <1>2 DEF Triangulated
<1>4. Counted' /\ DOMAIN visiblePoints' = Images
  <2>1. {o} \subseteq Observations /\ {o} \cap Triangulated = {}
    BY <1>1
  <2> QED
    BY <1>2, <1>3, <2>1, GainCounts DEF IInv, AddObservation
<1>5. Typed'
  BY <1>1, <1>2, <1>4 DEF IInv, Scene, Typed
<1>6. TracksAgree'
  <2>1. \A c \in Observations, p \in PointIds :
           point'[c] = p <=> p \in DOMAIN track' /\ c \in track'[p]
    BY <1>1, <1>2, NoneAssumption
       DEF IInv, Scene, TracksAgree, Triangulated, NoneAssumption
  <2>2. \A p \in DOMAIN track' : Cardinality(track'[p]) >= 2
    <3>1. Cardinality(track[id] \cup {o}) >= 2
      BY <1>1, StillTwo, TrackFacts DEF IInv
    <3> QED
      BY <1>1, <1>2, <3>1 DEF IInv, Scene, TracksAgree
  <2> QED
    BY <2>1, <2>2 DEF TracksAgree
<1>7. OnlyRegistered'
  BY <1>1, <1>2, <1>3 DEF IInv, Scene, OnlyRegistered, Registered
<1> QED
  BY <1>4, <1>5, <1>6, <1>7 DEF IInv, Scene

LEMMA DeleteInv ==
    ASSUME IInv, NEW id \in DOMAIN track, Delete(id), UNCHANGED <<reg, known, removing>>
    PROVE  IInv'
<1>1. /\ track[id] \subseteq Triangulated
      /\ \A o \in Observations : o \in track[id] <=> point[o] = id
  BY TrackFacts DEF IInv
<1>2. /\ point' = [o \in Observations |-> IF o \in track[id] THEN NoPoint ELSE point[o]]
      /\ track' = [p \in DOMAIN track \ {id} |-> track[p]]
  BY DEF Delete, SetPoint, Others
<1>3. Triangulated' = Triangulated \ track[id]
  BY <1>2 DEF Triangulated
<1>4. Counted' /\ DOMAIN visiblePoints' = Images
  BY <1>1, <1>3, LossCounts DEF IInv, Delete
<1>5. Typed'
  BY <1>2, <1>4 DEF IInv, Scene, Typed
<1>6. TracksAgree'
  <2>1. \A o \in Observations, p \in PointIds :
           point'[o] = p <=> p \in DOMAIN track' /\ o \in track'[p]
    BY <1>1, <1>2, NoneAssumption DEF IInv, Scene, TracksAgree, NoneAssumption
  <2>2. \A p \in DOMAIN track' : Cardinality(track'[p]) >= 2
    BY <1>2 DEF IInv, Scene, TracksAgree
  <2> QED
    BY <2>1, <2>2 DEF TracksAgree
<1>7. OnlyRegistered'
  BY <1>3 DEF IInv, Scene, OnlyRegistered, Registered
<1> QED
  BY <1>4, <1>5, <1>6, <1>7 DEF IInv, Scene

LEMMA MergeInv ==
    ASSUME IInv, NEW id1, NEW id2, NEW id \in PointIds, MergePoints3D(id1, id2, id)
    PROVE  IInv'
<1> DEFINE T == track[id1] \cup track[id2]
<1>1. id1 \in DOMAIN track /\ id2 \in DOMAIN track /\ id \notin DOMAIN track /\ id # NoPoint
  BY NoneAssumption DEF MergePoints3D, NoneAssumption
<1>2. /\ T \subseteq Triangulated /\ T \subseteq Observations
      /\ \A o \in Observations : o \in T <=> point[o] = id1 \/ point[o] = id2
  BY <1>1, TrackFacts DEF IInv
<1>3. /\ point' = [o \in Observations |-> IF o \in T THEN id ELSE point[o]]
      /\ track' = [p \in (DOMAIN track \ {id1, id2}) \cup {id} |->
                      IF p = id THEN T ELSE track[p]]
      /\ UNCHANGED <<reg, known, removing, numPoints3D, visiblePoints, havePoint>>
  BY DEF MergePoints3D, SetPoint, Track, Others
<1>4. Cardinality(T) >= 2
  BY <1>1, <1>2, StillTwo DEF IInv
<1> HIDE DEF T
<1>5. Triangulated' = Triangulated
  BY <1>1, <1>2, <1>3 DEF Triangulated
<1>6. Counted'
  BY <1>3, <1>5, SameCounts DEF IInv
<1>7. Typed'
  BY <1>2, <1>3 DEF IInv, Scene, Typed
<1>8. TracksAgree'
  <2>1. \A o \in Observations, p \in PointIds :
           point'[o] = p <=> p \in DOMAIN track' /\ o \in track'[p]
    BY <1>1, <1>2, <1>3 DEF IInv, Scene, TracksAgree
  <2>2. \A p \in DOMAIN track' : Cardinality(track'[p]) >= 2
    BY <1>3, <1>4 DEF IInv, Scene, TracksAgree
  <2> QED
    BY <2>1, <2>2 DEF TracksAgree
<1>9. OnlyRegistered'
  BY <1>3, <1>5 DEF IInv, Scene, OnlyRegistered, Registered
<1> QED
  BY <1>6, <1>7, <1>8, <1>9 DEF IInv, Scene

(* The last two observations of a track go together, any other one alone.    *)
LEMMA DeleteObservationInv ==
    ASSUME IInv, NEW o \in Observations, DeleteObservation(o),
           UNCHANGED <<reg, known, removing>>
    PROVE  IInv'
<1> DEFINE id == point[o]
           n == Cardinality(track[id])
<1>1. id \in DOMAIN track /\ o \in track[id] /\ id \in PointIds
  BY DEF DeleteObservation, Triangulated, IInv, Scene, Typed, TracksAgree
<1>2. CASE TooShort(n)
  BY <1>1, <1>2, DeleteInv DEF DeleteObservation
<1>3. CASE ~TooShort(n)
  <2>1. /\ point' = [c \in Observations |-> IF c \in {o} THEN NoPoint ELSE point[c]]
        /\ track' = [track EXCEPT ![id] = @ \ {o}]
        /\ CountPoints({o}, -1) /\ CountMatches({o}, -1)
    BY <1>3 DEF DeleteObservation, SetPoint
  <2>2. /\ track[id] \subseteq Observations
        /\ \A c \in Observations : c \in track[id] <=> point[c] = id
        /\ IsFiniteSet(track[id]) /\ n \in Nat
    BY <1>1, TrackFacts DEF IInv
  <2>3. Triangulated' = Triangulated \ {o} /\ {o} \subseteq Triangulated
    BY <2>1 DEF Triangulated, DeleteObservation
  <2>4. Counted' /\ DOMAIN visiblePoints' = Images
    BY <2>1, <2>3, LossCounts DEF IInv
  <2>5. Typed'
    BY <1>1, <2>1, <2>2, <2>4 DEF IInv, Scene, Typed
  <2>6. TracksAgree'
    <3>1. \A c \in Observations, p \in PointIds :
             point'[c] = p <=> p \in DOMAIN track' /\ c \in track'[p]
      BY <1>1, <2>1, <2>2, NoneAssumption DEF IInv, Scene, TracksAgree, NoneAssumption
    <3>2. Cardinality(track[id] \ {o}) >= 2
      <4>1. Cardinality(track[id] \ {o}) = n - 1
        BY <1>1, <2>2, FS_RemoveElement
      <4>2. n > 2
        BY <1>3, <2>2 DEF TooShort
      <4> QED
        BY <2>2, <4>1, <4>2
    <3>3. \A p \in DOMAIN track' : Cardinality(track'[p]) >= 2
      BY <1>1, <2>1, <3>2 DEF IInv, Scene, TracksAgree
    <3> QED
      BY <3>1, <3>3 DEF TracksAgree
  <2>7. OnlyRegistered'
    BY <2>3 DEF IInv, Scene, OnlyRegistered, Registered
  <2> QED
    BY <2>4, <2>5, <2>6, <2>7 DEF IInv, Scene
<1> QED
  BY <1>2, <1>3

(* The points and their counters stay as they are. *)
LEMMA SameInv ==
    ASSUME IInv, UNCHANGED <<point, track, numPoints3D, known, visiblePoints, havePoint>>,
           OnlyRegistered',
           removing' # NoFrame => removing' \in reg',
           \A i \in Images : FrameOf[i] \in reg' => i \in known
    PROVE  IInv'
<1>1. Triangulated' = Triangulated
  BY DEF Triangulated
<1>2. Counted'
  BY <1>1, SameCounts DEF IInv
<1>3. Typed'
  BY DEF IInv, Scene, Typed
<1>4. TracksAgree'
  BY DEF IInv, Scene, TracksAgree
<1> QED
  BY <1>2, <1>3, <1>4 DEF IInv, Scene

LEMMA RegisterInv ==
    ASSUME IInv, NEW f \in Frames, RegisterFrame(f)
    PROVE  IInv'
<1>1. /\ UNCHANGED <<point, track, numPoints3D, known, visiblePoints, havePoint, removing>>
      /\ reg' = reg \cup {f} /\ \A i \in Images : FrameOf[i] = f => i \in known
  BY DEF RegisterFrame
<1>2. OnlyRegistered'
  BY <1>1 DEF IInv, Scene, OnlyRegistered, Registered, Triangulated
<1>3. /\ removing' # NoFrame => removing' \in reg'
      /\ \A i \in Images : FrameOf[i] \in reg' => i \in known
  BY <1>1 DEF IInv, Scene, Typed
<1> QED
  BY <1>1, <1>2, <1>3, SameInv

LEMMA DeRegisterInv ==
    ASSUME IInv, NEW f \in Frames, DeRegisterFrame(f)
    PROVE  IInv'
<1>1. /\ UNCHANGED <<point, track, numPoints3D, known, visiblePoints, havePoint, reg>>
      /\ removing' = f /\ f \in reg
  BY DEF DeRegisterFrame, scene
<1>2. OnlyRegistered'
  BY <1>1 DEF IInv, Scene, OnlyRegistered, Registered, Triangulated
<1>3. /\ removing' # NoFrame => removing' \in reg'
      /\ \A i \in Images : FrameOf[i] \in reg' => i \in known
  BY <1>1 DEF IInv, Scene, Typed
<1> QED
  BY <1>1, <1>2, <1>3, SameInv

(* No image point of the frame is left with a point when the frame goes.     *)
LEMMA DeRegisterEndInv ==
    ASSUME IInv, DeRegisterEnd
    PROVE  IInv'
<1>1. /\ UNCHANGED <<point, track, numPoints3D, known, visiblePoints, havePoint>>
      /\ reg' = reg \ {removing} /\ removing' = NoFrame
      /\ InFrame(removing) \cap Triangulated = {}
  BY DEF DeRegisterEnd, EmptyFirst, counters
<1>2. OnlyRegistered'
  BY <1>1 DEF IInv, Scene, OnlyRegistered, Registered, Triangulated, InFrame
<1>3. \A i \in Images : FrameOf[i] \in reg' => i \in known
  BY <1>1 DEF IInv, Scene, Typed
<1> QED
  BY <1>1, <1>2, <1>3, SameInv

-----------------------------------------------------------------------------
(* An image that arrives has no points yet, so the others gain no match that  *)
(* has one; it counts itself what it finds.                                  *)
LEMMA AddImageInv ==
    ASSUME IInv, NEW i \in Images, AddImage(i)
    PROVE  IInv'
<1> DEFINE K == known \cup {i}
<1>1. /\ UNCHANGED <<point, track, reg, numPoints3D, removing>> /\ known' = K
      /\ i \notin known
      /\ havePoint' = [o \in Observations |->
              IF ImageOf[o] = i THEN Cardinality(CaughtUp(o, K)) ELSE havePoint[o]]
      /\ visiblePoints' = [visiblePoints EXCEPT ![i] =
              Cardinality({o \in Of(i) : CaughtUp(o, K) # {}})]
  BY DEF AddImage, scene
<1>2. Triangulated' = Triangulated
  BY <1>1 DEF Triangulated
<1>3. \A c \in Triangulated : ImageOf[c] \in known
  BY ImagesAssumption
     DEF ImagesAssumption, IInv, Scene, Typed, OnlyRegistered, Registered, Triangulated
<1>4. ASSUME NEW o \in Observations, ImageOf[o] = i
      PROVE  CaughtUp(o, K) = Matches(o, K) \cap Triangulated
  BY DEF CaughtUp, IInv, Scene, OnlyRegistered
<1>5. ASSUME NEW o \in Observations, ImageOf[o] # i
      PROVE  Matches(o, K) \cap Triangulated = Matches(o, known) \cap Triangulated
  BY <1>3, <1>5 DEF Matches
<1> HIDE DEF K
<1>6. MatchesCounted'
  <2> SUFFICES ASSUME NEW o \in Observations
               PROVE  havePoint'[o] = Cardinality(Matches(o, K) \cap Triangulated)
    BY <1>1, <1>2 DEF MatchesCounted, Matches
  <2>1. CASE ImageOf[o] = i
    BY <1>1, <1>4, <2>1, Zenon
  <2>2. CASE ImageOf[o] # i
    <3>1. havePoint'[o] = Cardinality(Matches(o, known) \cap Triangulated)
      BY <1>1, <2>2 DEF IInv, Counted, MatchesCounted
    <3> QED
      BY <1>5, <2>2, <3>1, Zenon
  <2> QED
    BY <2>1, <2>2
<1>7. VisiblePointsCounted'
  <2> SUFFICES ASSUME NEW j \in Images
               PROVE  visiblePoints'[j] =
                         Cardinality({o \in Of(j) : Matches(o, K) \cap Triangulated # {}})
    BY <1>1, <1>2 DEF VisiblePointsCounted, Matches, Of
  <2>1. CASE j = i
    <3>1. \A o \in Of(i) : o \in Observations /\ ImageOf[o] = i
      BY DEF Of
    <3>2. {o \in Of(i) : Matches(o, K) \cap Triangulated # {}}
             = {o \in Of(i) : CaughtUp(o, K) # {}}
      BY <1>4, <3>1, Zenon
    <3>3. visiblePoints'[i] = Cardinality({o \in Of(i) : CaughtUp(o, K) # {}})
      BY <1>1 DEF IInv, Scene, Typed
    <3> QED
      BY <2>1, <3>2, <3>3, Zenon
  <2>2. CASE j # i
    <3>1. \A o \in Of(j) : o \in Observations /\ ImageOf[o] # i
      BY <2>2 DEF Of
    <3>2. {o \in Of(j) : Matches(o, K) \cap Triangulated # {}}
             = {o \in Of(j) : Matches(o, known) \cap Triangulated # {}}
      BY <1>5, <3>1, Zenon
    <3>3. visiblePoints'[j] = visiblePoints[j]
      BY <1>1, <2>2 DEF IInv, Scene, Typed
    <3>4. visiblePoints[j] =
             Cardinality({o \in Of(j) : Matches(o, known) \cap Triangulated # {}})
      BY DEF IInv, Counted, VisiblePointsCounted
    <3> QED
      BY <3>2, <3>3, <3>4, Zenon
  <2> QED
    BY <2>1, <2>2
<1>8. ImagePointsCounted'
  BY <1>1, <1>2, Zenon DEF IInv, Counted, ImagePointsCounted, Of
<1>9. Typed' /\ TracksAgree' /\ OnlyRegistered'
  <2>1. Typed'
    BY <1>1 DEF K, IInv, Scene, Typed
  <2>2. TracksAgree'
    BY <1>1 DEF IInv, Scene, TracksAgree
  <2>3. OnlyRegistered'
    BY <1>1, <1>2 DEF IInv, Scene, OnlyRegistered, Registered
  <2> QED
    BY <2>1, <2>2, <2>3
<1> QED
  BY <1>6, <1>7, <1>8, <1>9 DEF IInv, Scene, Counted

(* A new manager counts what the old one has. *)
LEMMA RebuildInv ==
    ASSUME IInv, Rebuild
    PROVE  IInv'
<1> DEFINE seen == Registered \cap Triangulated
<1>1. /\ UNCHANGED <<point, track, reg, numPoints3D, known, removing>>
      /\ havePoint' = [o \in Observations |-> Cardinality(Matches(o, known) \cap seen)]
      /\ visiblePoints' = [i \in Images |->
              Cardinality({o \in Of(i) : Matches(o, known) \cap seen # {}})]
  BY DEF Rebuild, Construct, scene
<1>2. seen = Triangulated
  BY DEF IInv, Scene, OnlyRegistered
<1>3. Triangulated' = Triangulated
  BY <1>1 DEF Triangulated
<1> HIDE DEF seen
<1>4. MatchesCounted'
  <2> SUFFICES ASSUME NEW o \in Observations
               PROVE  havePoint'[o] = Cardinality(Matches(o, known) \cap Triangulated)
    BY <1>1, <1>3 DEF MatchesCounted, Matches
  <2> QED
    BY <1>1, <1>2
<1>5. VisiblePointsCounted'
  <2> SUFFICES ASSUME NEW i \in Images
               PROVE  visiblePoints'[i] =
                         Cardinality({o \in Of(i) : Matches(o, known) \cap Triangulated # {}})
    <3>1. known' = known
      BY <1>1
    <3> QED
      BY <1>3, <3>1, Zenon DEF VisiblePointsCounted, Matches, Of
  <2>1. visiblePoints'[i] = Cardinality({o \in Of(i) : Matches(o, known) \cap seen # {}})
    BY <1>1, Zenon
  <2> QED
    BY <1>2, <2>1, Zenon
<1>6. ImagePointsCounted'
  BY <1>1, <1>3, Zenon DEF IInv, Counted, ImagePointsCounted, Of
<1>7. Typed' /\ TracksAgree' /\ OnlyRegistered'
  <2>1. Typed'
    BY <1>1 DEF IInv, Scene, Typed
  <2>2. TracksAgree'
    BY <1>1 DEF IInv, Scene, TracksAgree
  <2>3. OnlyRegistered'
    BY <1>1, <1>3 DEF IInv, Scene, OnlyRegistered, Registered
  <2> QED
    BY <2>1, <2>2, <2>3
<1> QED
  BY <1>4, <1>5, <1>6, <1>7 DEF IInv, Scene, Counted

(* Nothing that the invariant is about changes. *)
LEMMA StutterInv ==
    ASSUME IInv, UNCHANGED <<scene, known, removing, visiblePoints, havePoint>>
    PROVE  IInv'
<1>1. UNCHANGED <<point, track, reg, numPoints3D, known, removing, visiblePoints, havePoint>>
  BY DEF scene
<1>2. OnlyRegistered'
  BY <1>1 DEF IInv, Scene, OnlyRegistered, Registered, Triangulated
<1> QED
  BY <1>1, <1>2, SameInv DEF IInv, Scene, Typed

-----------------------------------------------------------------------------
LEMMA StepInv == IInv /\ [Next]_vars => IInv'
<1> SUFFICES ASSUME IInv, [Next]_vars PROVE IInv'
  OBVIOUS
<1>1. ASSUME NEW id \in PointIds, NEW T \in SUBSET Observations, AddPoint3D(id, T)
      PROVE  IInv'
  BY <1>1, AddPointInv
<1>2. ASSUME NEW id \in PointIds, NEW o \in Observations, AddObservation(id, o)
      PROVE  IInv'
  BY <1>2, AddObservationInv
<1>3. ASSUME NEW id \in PointIds, DeletePoint3D(id)
      PROVE  IInv'
  BY <1>3, DeleteInv DEF DeletePoint3D
<1>4. ASSUME NEW id1 \in PointIds, NEW id2 \in PointIds, NEW id \in PointIds,
             MergePoints3D(id1, id2, id)
      PROVE  IInv'
  BY <1>4, MergeInv
<1>5. ASSUME NEW o \in Observations, DeleteOne(o) \/ FilterNext(o) \/ DeRegisterNext(o)
      PROVE  IInv'
  BY <1>5, DeleteObservationInv DEF DeleteOne, FilterNext, DeRegisterNext
<1>6. ASSUME NEW id \in PointIds, NEW D \in SUBSET Observations, Filter(id, D)
      PROVE  IInv'
  <2>1. CASE TooMany(Cardinality(D), Cardinality(track[id]))
    BY <1>6, <2>1, DeleteInv DEF Filter
  <2>2. CASE ~TooMany(Cardinality(D), Cardinality(track[id]))
    <3>1. UNCHANGED <<scene, known, removing, visiblePoints, havePoint>>
      BY <1>6, <2>2 DEF Filter, counters
    <3> QED
      BY <3>1, StutterInv
  <2> QED
    BY <2>1, <2>2
<1>7. ASSUME NEW f \in Frames, RegisterFrame(f)
      PROVE  IInv'
  BY <1>7, RegisterInv
<1>8. ASSUME NEW f \in Frames, DeRegisterFrame(f)
      PROVE  IInv'
  BY <1>8, DeRegisterInv
<1>9. CASE DeRegisterEnd
  BY <1>9, DeRegisterEndInv
<1>10. CASE FilterEnd
  BY <1>10, StutterInv DEF FilterEnd, counters
<1>11. ASSUME NEW i \in Images, AddImage(i)
       PROVE  IInv'
  BY <1>11, AddImageInv
<1>12. CASE Rebuild
  BY <1>12, RebuildInv
<1>13. CASE UNCHANGED vars
  BY <1>13, StutterInv DEF vars, counters
<1> QED
  BY <1>1, <1>2, <1>3, <1>4, <1>5, <1>6, <1>7, <1>8, <1>9, <1>10, <1>11, <1>12, <1>13
     DEF Next

LEMMA SpecInv == Spec => []IInv
BY InitInv, StepInv, PTL DEF Spec

(* Image points and tracks name each other and no track has less than two     *)
(* observations, after any sequence of merges, filters and removed frames    *)
(* (scene/reconstruction.cc, sfm/observation_manager.cc).                    *)
THEOREM TracksAlwaysAgree == Spec => []TracksAgree
<1>1. IInv => TracksAgree
  BY DEF IInv, Scene
<1> QED
  BY <1>1, SpecInv, PTL

(* Only registered frames see points, so that deleting one never meets an    *)
(* image without a pose (THROW_CHECK(image.HasPose())).                      *)
THEOREM OnlyRegisteredSee == Spec => []OnlyRegistered
<1>1. IInv => OnlyRegistered
  BY DEF IInv, Scene
<1> QED
  BY <1>1, SpecInv, PTL

-----------------------------------------------------------------------------
(* The matches between two sets of image points, from image i to image j, and *)
(* those within the tracks.                                                  *)
Ends(A, B, i, j) ==
    {p \in Corrs : /\ p[1] \in A /\ p[2] \in B
                   /\ ImageOf[p[1]] = i /\ ImageOf[p[2]] = j}
Joined(i, j) ==
    {p \in Corrs : /\ p[1] \in Triangulated /\ p[2] \in Triangulated
                   /\ point[p[1]] = point[p[2]]
                   /\ ImageOf[p[1]] = i /\ ImageOf[p[2]] = j}

(* The matches are counted where a frame is registered; the frame that is     *)
(* being emptied no longer counts.                                           *)
SeenFrom(A, j) == {p \in A \X Of(j) : p[2] \in Matches(p[1], known)}
Counting == Registered \ InFrame(removing)

PairsCounted ==
    triCorrs = [p \in Images \X Images |->
        IF p[1] < p[2] THEN Cardinality(Joined(p[1], p[2])) ELSE 0]
GraphCounted ==
    numObservations = [i \in Images |-> GraphObservations(i, known)]
CorrsTyped ==
    /\ visibleCorrs \in [Images -> Nat]
    /\ (InitialImages = Images) =>
          /\ known = Images
          /\ \A j \in Images : visibleCorrs[j] = Cardinality(SeenFrom(Counting, j))

Functions ==
    /\ track = [p \in DOMAIN track |-> track[p]]
    /\ numPoints3D = [i \in Images |-> numPoints3D[i]]
    /\ visiblePoints = [i \in Images |-> visiblePoints[i]]
    /\ havePoint = [o \in Observations |-> havePoint[o]]

Shapes ==
    /\ Functions /\ reg \subseteq Frames
    /\ removing \in Frames \cup {NoFrame}
    /\ filtered \in PointIds \cup {NoPoint} /\ filtering \subseteq Observations

Exact == PairsCounted /\ GraphCounted /\ CorrsTyped /\ Shapes

-----------------------------------------------------------------------------
LEMMA CorrsFinite ==
    ASSUME NEW S, S \subseteq Observations \X Observations
    PROVE  IsFiniteSet(S) /\ Cardinality(S) \in Nat
<1>1. IsFiniteSet(Observations \X Observations)
  BY ImagesAssumption, FS_Product DEF ImagesAssumption
<1> QED
  BY <1>1, FS_Subset, FS_CardinalityType

LEMMA PairsDisjoint ==
    ASSUME NEW A, NEW B, NEW C,
           A \subseteq Observations \X Observations, B \subseteq Observations \X Observations,
           A \cap B = {}, C = A \cup B
    PROVE  Cardinality(C) = Cardinality(A) + Cardinality(B)
<1>1. Cardinality(A \cup B) = Cardinality(A) + Cardinality(B) - Cardinality(A \cap B)
  BY CorrsFinite, FS_Union
<1>2. Cardinality(A \cap B) = 0
  BY FS_EmptySet
<1>3. Cardinality(A) \in Nat /\ Cardinality(B) \in Nat
  BY CorrsFinite
<1> QED
  BY <1>1, <1>2, <1>3

LEMMA EndsFinite ==
    ASSUME NEW A, NEW B, NEW i, NEW j
    PROVE  /\ Ends(A, B, i, j) \subseteq Observations \X Observations
           /\ Cardinality(Ends(A, B, i, j)) \in Nat
<1>1. Ends(A, B, i, j) \subseteq Observations \X Observations
  BY CorrsAssumption DEF Ends, CorrsAssumption
<1> QED
  BY <1>1, CorrsFinite

LEMMA JoinedFinite ==
    ASSUME NEW i, NEW j
    PROVE  /\ Joined(i, j) \subseteq Observations \X Observations
           /\ Cardinality(Joined(i, j)) \in Nat
<1>1. Joined(i, j) \subseteq Observations \X Observations
  BY CorrsAssumption DEF Joined, CorrsAssumption
<1> QED
  BY <1>1, CorrsFinite

(* Every match turned round. *)
LEMMA EndsTurned ==
    ASSUME NEW A, NEW B, NEW i, NEW j
    PROVE  Cardinality(Ends(B, A, j, i)) = Cardinality(Ends(A, B, i, j))
<1> DEFINE E == Ends(A, B, i, j)
           F == Ends(B, A, j, i)
           turn == [p \in E |-> <<p[2], p[1]>>]
<1>1. \A p \in Corrs : /\ p[1] \in Observations /\ p[2] \in Observations
                       /\ p = <<p[1], p[2]>> /\ <<p[2], p[1]>> \in Corrs
  BY CorrsAssumption DEF CorrsAssumption
<1>2. \A p \in E : <<p[2], p[1]>> \in F
  BY <1>1 DEF Ends
<1>3. turn \in [E -> F]
  BY <1>2
<1>4. \A p, q \in E : turn[p] = turn[q] => p = q
  <2> SUFFICES ASSUME NEW p \in E, NEW q \in E, <<p[2], p[1]>> = <<q[2], q[1]>>
               PROVE  p = q
    OBVIOUS
  <2>1. p = <<p[1], p[2]>> /\ q = <<q[1], q[2]>>
    BY <1>1 DEF Ends
  <2>2. p[1] = q[1] /\ p[2] = q[2]
    OBVIOUS
  <2> QED
    BY <2>1, <2>2, Zenon
<1>5. \A r \in F : \E p \in E : turn[p] = r
  <2> SUFFICES ASSUME NEW r \in F PROVE \E p \in E : turn[p] = r
    OBVIOUS
  <2>1. <<r[2], r[1]>> \in E /\ r = <<r[1], r[2]>>
    BY <1>1 DEF Ends
  <2>2. turn[<<r[2], r[1]>>] = r
    BY <2>1
  <2> QED
    BY <2>1, <2>2
<1> HIDE DEF E, F, turn
<1>6. turn \in Bijection(E, F)
  BY <1>3, <1>4, <1>5 DEF Bijection, Injection, Surjection, IsInjective
<1>7. ExistsBijection(E, F)
  BY <1>6 DEF ExistsBijection
<1>8. IsFiniteSet(E)
  BY EndsFinite, CorrsFinite DEF E
<1> QED
  BY <1>7, <1>8, FS_Bijection DEF E, F

(* The matches between image points of images that are all known. *)
LEMMA BetweenIs ==
    ASSUME NEW A, NEW B, NEW i, NEW j, A \subseteq Observations, B \subseteq Observations,
           \A o \in A \cup B : ImageOf[o] \in known
    PROVE  Between(A, B, i, j) = Cardinality(Ends(A, B, i, j))
<1>1. {p \in A \X B : /\ p[2] \in Matches(p[1], known)
                      /\ ImageOf[p[1]] = i /\ ImageOf[p[2]] = j} = Ends(A, B, i, j)
  <2>1. \A p \in A \X B : p = <<p[1], p[2]>> /\ p[1] \in A /\ p[2] \in B
    OBVIOUS
  <2>2. \A p \in A \X B : p[2] \in Matches(p[1], known) <=> p \in Corrs
    BY <2>1 DEF Matches
  <2>3. \A p \in Corrs : p[1] \in A /\ p[2] \in B => p \in A \X B
    BY CorrsAssumption DEF CorrsAssumption
  <2> QED
    BY <2>1, <2>2, <2>3 DEF Ends
<1> QED
  BY <1>1 DEF Between

LEMMA TriangulatedKnown ==
    ASSUME IInv
    PROVE  /\ Triangulated \subseteq Registered /\ Registered \subseteq Observations
           /\ \A o \in Registered : ImageOf[o] \in known
BY ImagesAssumption
   DEF ImagesAssumption, IInv, Scene, Typed, OnlyRegistered, Registered, Triangulated

(* A step adds to the counter of a pair what its joined matches gain. *)
LEMMA PairsStep ==
    ASSUME PairsCounted, NEW n, CountPairs(n),
           \A i, j \in Images : i < j =>
              Cardinality(Joined(i, j)') = Cardinality(Joined(i, j)) + n[<<i, j>>]
    PROVE  PairsCounted'
<1>1. ASSUME NEW p \in Images \X Images
      PROVE  (IF p[1] < p[2] THEN triCorrs[p] + n[p] ELSE 0)
                = (IF p[1] < p[2] THEN Cardinality(Joined(p[1], p[2])') ELSE 0)
  <2>1. p = <<p[1], p[2]>> /\ p[1] \in Images /\ p[2] \in Images
    OBVIOUS
  <2>2. CASE p[1] < p[2]
    <3>1. triCorrs[p] = Cardinality(Joined(p[1], p[2]))
      BY <2>1, <2>2 DEF PairsCounted
    <3>2. Cardinality(Joined(p[1], p[2])') = Cardinality(Joined(p[1], p[2])) + n[p]
      BY <2>1, <2>2
    <3> QED
      BY <2>2, <3>1, <3>2
  <2> QED
    BY <2>2
<1>2. triCorrs' = [p \in Images \X Images |-> IF p[1] < p[2] THEN triCorrs[p] + n[p] ELSE 0]
  BY DEF CountPairs
<1>3. triCorrs' = [p \in Images \X Images |->
                      IF p[1] < p[2] THEN Cardinality(Joined(p[1], p[2])') ELSE 0]
  BY <1>1, <1>2, Zenon
<1> QED
  BY <1>3 DEF PairsCounted

LEMMA SamePairs ==
    ASSUME PairsCounted, triCorrs' = triCorrs, point' = point
    PROVE  PairsCounted'
BY DEF PairsCounted, Joined, Triangulated

(* Different image ids are those of different images. *)
LEMMA EndsApart ==
    ASSUME NEW i \in Images, NEW j \in Images, i < j
    PROVE  i # j
BY ImagesAssumption DEF ImagesAssumption

LEMMA AddPointPairs ==
    ASSUME IInv, PairsCounted, NEW id \in PointIds, NEW T \in SUBSET Observations,
           AddPoint3D(id, T)
    PROVE  PairsCounted'
<1>1. /\ id \notin DOMAIN track /\ T \subseteq Registered /\ T \cap Triangulated = {}
      /\ id # NoPoint
      /\ point' = [o \in Observations |-> IF o \in T THEN id ELSE point[o]]
      /\ CountPairs([p \in Images \X Images |-> Within(T, p[1], p[2])])
  BY NoneAssumption DEF AddPoint3D, SetPoint, NoneAssumption
<1>2. Triangulated' = Triangulated \cup T
  BY <1>1 DEF Triangulated
<1>3. \A o \in Triangulated : point[o] # id /\ o \in Observations
  BY <1>1 DEF IInv, Scene, TracksAgree, Triangulated
<1>4. SUFFICES ASSUME NEW i \in Images, NEW j \in Images, i < j
               PROVE  Cardinality(Joined(i, j)') = Cardinality(Joined(i, j)) + Within(T, i, j)
  BY <1>1, PairsStep
<1> DEFINE E == Ends(T, T, i, j)
           P == Joined(i, j)
           Q == Joined(i, j)'
<1>5. Within(T, i, j) = Cardinality(E)
  BY <1>1, BetweenIs, TriangulatedKnown DEF Within
<1>6. P \cap E = {} /\ Q = P \cup E
  <2>1. P \cap E = {}
    BY <1>1 DEF Joined, Ends
  <2>2. \A p \in Corrs : p[1] \in Observations /\ p[2] \in Observations
    BY CorrsAssumption DEF CorrsAssumption
  <2>3. Q = {p \in Corrs : /\ p[1] \in Triangulated \cup T /\ p[2] \in Triangulated \cup T
                           /\ point'[p[1]] = point'[p[2]]
                           /\ ImageOf[p[1]] = i /\ ImageOf[p[2]] = j}
    BY <1>2 DEF Joined
  <2>4. \A p \in Corrs : p \in Q <=> p \in P \/ p \in E
    BY <1>1, <1>3, <2>2, <2>3 DEF Joined, Ends
  <2>5. P \subseteq Corrs /\ E \subseteq Corrs /\ Q \subseteq Corrs
    BY <2>3 DEF Joined, Ends
  <2> QED
    BY <2>1, <2>4, <2>5
<1>7. P \subseteq Observations \X Observations /\ E \subseteq Observations \X Observations
  BY EndsFinite, JoinedFinite
<1> HIDE DEF E, P, Q
<1>8. Cardinality(Q) = Cardinality(P) + Cardinality(E)
  BY <1>6, <1>7, PairsDisjoint
<1> QED
  BY <1>5, <1>8 DEF P, Q

(* What a track loses with an image point, or gains: its matches with the     *)
(* rest, seen from either end.                                               *)
LEMMA WithRestIs ==
    ASSUME IInv, NEW o, o \in Registered, NEW T, T \subseteq Registered,
           NEW i \in Images, NEW j \in Images, i < j
    PROVE  /\ Ends({o}, T, i, j) \cap Ends(T, {o}, i, j) = {}
           /\ WithRest(o, T, i, j) = Cardinality(Ends({o}, T, i, j) \cup Ends(T, {o}, i, j))
<1>1. i # j
  BY EndsApart
<1>2. Between({o}, T, i, j) = Cardinality(Ends({o}, T, i, j))
  BY BetweenIs, TriangulatedKnown
<1>3. Between({o}, T, j, i) = Cardinality(Ends({o}, T, j, i))
  BY BetweenIs, TriangulatedKnown
<1>4. Cardinality(Ends({o}, T, j, i)) = Cardinality(Ends(T, {o}, i, j))
  BY EndsTurned
<1>5. Ends({o}, T, i, j) \cap Ends(T, {o}, i, j) = {}
  BY <1>1 DEF Ends
<1>6. /\ Ends({o}, T, i, j) \subseteq Observations \X Observations
      /\ Ends(T, {o}, i, j) \subseteq Observations \X Observations
  BY EndsFinite
<1>7. Cardinality(Ends({o}, T, i, j) \cup Ends(T, {o}, i, j))
         = Cardinality(Ends({o}, T, i, j)) + Cardinality(Ends(T, {o}, i, j))
  BY <1>5, <1>6, PairsDisjoint
<1> QED
  BY <1>2, <1>3, <1>4, <1>5, <1>7 DEF WithRest

LEMMA AddObservationPairs ==
    ASSUME IInv, PairsCounted, NEW id \in PointIds, NEW o \in Observations,
           AddObservation(id, o)
    PROVE  PairsCounted'
<1> DEFINE T == track[id]
<1>1. /\ id \in DOMAIN track /\ o \in Registered /\ o \notin Triangulated /\ id # NoPoint
      /\ point' = [c \in Observations |-> IF c \in {o} THEN id ELSE point[c]]
      /\ CountPairs([p \in Images \X Images |-> WithRest(o, T, p[1], p[2])])
  BY NoneAssumption DEF AddObservation, SetPoint, NoneAssumption
<1>2. /\ T \subseteq Triangulated /\ T \subseteq Observations
      /\ \A c \in Observations : c \in T <=> point[c] = id
  BY <1>1, TrackFacts DEF IInv
<1>3. Triangulated' = Triangulated \cup {o}
  BY <1>1 DEF Triangulated
<1> HIDE DEF T
<1>4. SUFFICES ASSUME NEW i \in Images, NEW j \in Images, i < j
               PROVE  Cardinality(Joined(i, j)') = Cardinality(Joined(i, j)) + WithRest(o, T, i, j)
  BY <1>1, PairsStep
<1> DEFINE E == Ends({o}, T, i, j) \cup Ends(T, {o}, i, j)
           P == Joined(i, j)
           Q == Joined(i, j)'
<1>5. WithRest(o, T, i, j) = Cardinality(E)
  <2>1. T \subseteq Registered
    BY <1>2, TriangulatedKnown
  <2> QED
    BY <1>1, <1>4, <2>1, WithRestIs
<1>6. P \cap E = {} /\ Q = P \cup E
  <2>1. P \cap E = {}
    BY <1>1 DEF Joined, Ends
  <2>2. \A p \in Corrs : p[1] \in Observations /\ p[2] \in Observations /\ p[1] # p[2]
    BY CorrsAssumption DEF CorrsAssumption
  <2>3. Q = {p \in Corrs : /\ p[1] \in Triangulated \cup {o} /\ p[2] \in Triangulated \cup {o}
                           /\ point'[p[1]] = point'[p[2]]
                           /\ ImageOf[p[1]] = i /\ ImageOf[p[2]] = j}
    BY <1>3 DEF Joined
  <2>4. \A p \in Corrs : p \in Q <=> p \in P \/ p \in E
    BY <1>1, <1>2, <2>2, <2>3 DEF Joined, Ends
  <2>5. P \subseteq Corrs /\ E \subseteq Corrs /\ Q \subseteq Corrs
    BY <2>3 DEF Joined, Ends
  <2> QED
    BY <2>1, <2>4, <2>5
<1>7. P \subseteq Observations \X Observations /\ E \subseteq Observations \X Observations
  BY EndsFinite, JoinedFinite
<1> HIDE DEF E, P, Q
<1>8. Cardinality(Q) = Cardinality(P) + Cardinality(E)
  BY <1>6, <1>7, PairsDisjoint
<1> QED
  BY <1>5, <1>8 DEF P, Q

LEMMA DeletePairs ==
    ASSUME IInv, PairsCounted, NEW id \in DOMAIN track, Delete(id), known' = known
    PROVE  PairsCounted'
<1> DEFINE T == track[id]
<1>1. /\ id # NoPoint
      /\ T \subseteq Triangulated /\ T \subseteq Observations
      /\ \A c \in Observations : c \in T <=> point[c] = id
  BY TrackFacts DEF IInv
<1>2. /\ point' = [c \in Observations |-> IF c \in T THEN NoPoint ELSE point[c]]
      /\ CountPairs([p \in Images \X Images |-> -Within(T, p[1], p[2])])
  BY DEF Delete, SetPoint
<1>3. Triangulated' = Triangulated \ T
  BY <1>2 DEF Triangulated
<1> HIDE DEF T
<1>4. SUFFICES ASSUME NEW i \in Images, NEW j \in Images, i < j
               PROVE  Cardinality(Joined(i, j)') = Cardinality(Joined(i, j)) + (-Within(T, i, j))
  BY <1>2, PairsStep
<1> DEFINE E == Ends(T, T, i, j)
           P == Joined(i, j)
           Q == Joined(i, j)'
<1>5. Within(T, i, j) = Cardinality(E)
  BY <1>1, BetweenIs, TriangulatedKnown DEF Within
<1>6. Q \cap E = {} /\ P = Q \cup E
  <2>1. \A p \in Corrs : p[1] \in Observations /\ p[2] \in Observations
    BY CorrsAssumption DEF CorrsAssumption
  <2>2. Q = {p \in Corrs : /\ p[1] \in Triangulated \ T /\ p[2] \in Triangulated \ T
                           /\ point'[p[1]] = point'[p[2]]
                           /\ ImageOf[p[1]] = i /\ ImageOf[p[2]] = j}
    BY <1>3 DEF Joined
  <2>3. Q \cap E = {}
    BY <2>2 DEF Ends
  <2>4. \A p \in Corrs : p \in P <=> p \in Q \/ p \in E
    BY <1>1, <1>2, <2>1, <2>2 DEF Joined, Ends
  <2>5. P \subseteq Corrs /\ E \subseteq Corrs /\ Q \subseteq Corrs
    BY <2>2 DEF Joined, Ends
  <2> QED
    BY <2>3, <2>4, <2>5
<1>7. /\ P \subseteq Observations \X Observations /\ E \subseteq Observations \X Observations
      /\ Cardinality(E) \in Nat
  BY EndsFinite, JoinedFinite
<1> HIDE DEF E, P, Q
<1>8. Cardinality(P) = Cardinality(Q) + Cardinality(E) /\ Cardinality(Q) \in Nat
  BY <1>6, <1>7, PairsDisjoint, CorrsFinite
<1>9. Cardinality(Q) = Cardinality(P) + (-Cardinality(E))
  BY <1>7, <1>8
<1> QED
  BY <1>5, <1>9 DEF P, Q

LEMMA MergePairs ==
    ASSUME IInv, PairsCounted, NEW id1, NEW id2, NEW id \in PointIds,
           MergePoints3D(id1, id2, id)
    PROVE  PairsCounted'
<1> DEFINE T1 == track[id1]
           T2 == track[id2]
           T == T1 \cup T2
<1>1. /\ id1 \in DOMAIN track /\ id2 \in DOMAIN track /\ id1 # id2
      /\ id \notin DOMAIN track /\ id # NoPoint
  BY NoneAssumption DEF MergePoints3D, NoneAssumption
<1>2. /\ T1 \subseteq Triangulated /\ T2 \subseteq Triangulated
      /\ \A c \in Observations : c \in T1 <=> point[c] = id1
      /\ \A c \in Observations : c \in T2 <=> point[c] = id2
  BY <1>1, TrackFacts DEF IInv
<1>3. /\ point' = [o \in Observations |-> IF o \in T THEN id ELSE point[o]]
      /\ CountPairs([p \in Images \X Images |->
            Within(T, p[1], p[2]) - Within(T1, p[1], p[2]) - Within(T2, p[1], p[2])])
  BY DEF MergePoints3D, SetPoint
<1>4. Triangulated \subseteq Observations
  BY DEF Triangulated
<1> HIDE DEF T1, T2
<1>5. Triangulated' = Triangulated
  BY <1>1, <1>2, <1>3 DEF Triangulated
<1>6. \A c \in Triangulated : point[c] # id
  BY <1>1, <1>4 DEF IInv, Scene, TracksAgree
<1>7. SUFFICES ASSUME NEW i \in Images, NEW j \in Images, i < j
               PROVE  Cardinality(Joined(i, j)')
                         = Cardinality(Joined(i, j))
                              + (Within(T, i, j) - Within(T1, i, j) - Within(T2, i, j))
  BY <1>3, PairsStep
<1> DEFINE E1 == Ends(T1, T1, i, j)
           E2 == Ends(T2, T2, i, j)
           E == Ends(T, T, i, j)
           P == Joined(i, j)
           Q == Joined(i, j)'
           R == P \ (E1 \cup E2)
<1>8. /\ Within(T1, i, j) = Cardinality(E1) /\ Within(T2, i, j) = Cardinality(E2)
      /\ Within(T, i, j) = Cardinality(E)
  <2>1. /\ T1 \subseteq Observations /\ T2 \subseteq Observations /\ T \subseteq Observations
        /\ \A o \in T : ImageOf[o] \in known
    BY <1>2, <1>4, TriangulatedKnown
  <2> HIDE DEF T
  <2>2. Within(T, i, j) = Cardinality(E)
    BY <2>1, BetweenIs DEF Within
  <2>3. Within(T1, i, j) = Cardinality(E1)
    BY <2>1, BetweenIs DEF Within, T
  <2>4. Within(T2, i, j) = Cardinality(E2)
    BY <2>1, BetweenIs DEF Within, T
  <2> QED
    BY <2>2, <2>3, <2>4
<1>9. \A p \in Corrs : p[1] \in Observations /\ p[2] \in Observations
  BY CorrsAssumption DEF CorrsAssumption
<1>10. E1 \subseteq P /\ E2 \subseteq P /\ E1 \cap E2 = {}
  <2>1. E1 \subseteq P
    BY <1>2, <1>4, <1>9 DEF Joined, Ends
  <2>2. E2 \subseteq P
    BY <1>2, <1>4, <1>9 DEF Joined, Ends
  <2>3. E1 \cap E2 = {}
    BY <1>1, <1>2, <1>9 DEF Ends
  <2> QED
    BY <2>1, <2>2, <2>3
<1>11. R \cap E = {} /\ Q = R \cup E
  <2>1. Q = {p \in Corrs : /\ p[1] \in Triangulated /\ p[2] \in Triangulated
                           /\ point'[p[1]] = point'[p[2]]
                           /\ ImageOf[p[1]] = i /\ ImageOf[p[2]] = j}
    BY <1>5 DEF Joined
  <2>2. \A p \in Corrs : p \in R => p[1] \notin T /\ p[2] \notin T
    BY <1>2, <1>9 DEF Joined, Ends
  <2>3. R \cap E = {}
    BY <2>2 DEF Ends
  <2>4. ASSUME NEW p \in Corrs PROVE p \in Q <=> p \in R \/ p \in E
    <3>1. CASE p[1] \in T /\ p[2] \in T
      BY <1>2, <1>3, <1>9, <2>1, <2>2, <3>1 DEF Ends
    <3>2. CASE p[1] \in T /\ p[2] \notin T
      BY <1>3, <1>6, <1>9, <2>1, <2>2, <3>2 DEF Ends
    <3>3. CASE p[1] \notin T /\ p[2] \in T
      BY <1>3, <1>6, <1>9, <2>1, <2>2, <3>3 DEF Ends
    <3>4. CASE p[1] \notin T /\ p[2] \notin T
      <4>1. p \notin E /\ p \notin E1 /\ p \notin E2
        BY <3>4 DEF Ends
      <4>2. p \in Q <=> p \in P
        BY <1>3, <1>9, <2>1, <3>4 DEF Joined
      <4> QED
        BY <4>1, <4>2
    <3> QED
      BY <3>1, <3>2, <3>3, <3>4
  <2>5. R \subseteq Corrs /\ E \subseteq Corrs /\ Q \subseteq Corrs
    BY <2>1 DEF Joined, Ends
  <2> QED
    BY <2>3, <2>4, <2>5
<1>12. /\ P \subseteq Observations \X Observations /\ E \subseteq Observations \X Observations
       /\ Cardinality(E) \in Nat /\ Cardinality(E1) \in Nat /\ Cardinality(E2) \in Nat
  BY EndsFinite, JoinedFinite
<1>13. R \subseteq P /\ P = R \cup (E1 \cup E2) /\ R \cap (E1 \cup E2) = {}
  BY <1>10
<1> HIDE DEF T, E, E1, E2, P, Q, R
<1>14. Cardinality(E1 \cup E2) = Cardinality(E1) + Cardinality(E2)
  BY <1>10, <1>12, PairsDisjoint
<1>15. Cardinality(P) = Cardinality(R) + Cardinality(E1 \cup E2)
  BY <1>10, <1>12, <1>13, PairsDisjoint
<1>16. Cardinality(Q) = Cardinality(R) + Cardinality(E)
  BY <1>11, <1>12, <1>13, PairsDisjoint
<1>17. Cardinality(R) \in Nat
  BY <1>12, <1>13, CorrsFinite
<1>18. Cardinality(Q) = Cardinality(P) + (Cardinality(E) - Cardinality(E1) - Cardinality(E2))
  BY <1>12, <1>14, <1>15, <1>16, <1>17
<1> QED
  BY <1>8, <1>18 DEF P, Q

LEMMA DeleteObservationPairs ==
    ASSUME IInv, PairsCounted, NEW o \in Observations, DeleteObservation(o), known' = known
    PROVE  PairsCounted'
<1> DEFINE id == point[o]
           T == track[id]
           n == Cardinality(T)
<1>1. id \in DOMAIN track /\ o \in T /\ id \in PointIds
  BY DEF DeleteObservation, Triangulated, IInv, Scene, Typed, TracksAgree
<1>2. CASE TooShort(n)
  BY <1>1, <1>2, DeletePairs DEF DeleteObservation
<1>3. CASE ~TooShort(n)
  <2>1. /\ point' = [c \in Observations |-> IF c \in {o} THEN NoPoint ELSE point[c]]
        /\ CountPairs([p \in Images \X Images |-> -WithRest(o, T, p[1], p[2])])
    BY <1>3 DEF DeleteObservation, SetPoint
  <2>2. /\ T \subseteq Triangulated /\ T \subseteq Observations
        /\ \A c \in Observations : c \in T <=> point[c] = id
    BY <1>1, TrackFacts DEF IInv
  <2>3. Triangulated' = Triangulated \ {o} /\ o \in Registered
    BY <1>1, <2>1, <2>2, TriangulatedKnown DEF Triangulated
  <2> HIDE DEF T
  <2>4. SUFFICES ASSUME NEW i \in Images, NEW j \in Images, i < j
                 PROVE  Cardinality(Joined(i, j)')
                           = Cardinality(Joined(i, j)) + (-WithRest(o, T, i, j))
    BY <2>1, PairsStep
  <2> DEFINE E == Ends({o}, T, i, j) \cup Ends(T, {o}, i, j)
             P == Joined(i, j)
             Q == Joined(i, j)'
  <2>5. WithRest(o, T, i, j) = Cardinality(E)
    <3>1. T \subseteq Registered
      BY <2>2, TriangulatedKnown
    <3> QED
      BY <2>3, <2>4, <3>1, WithRestIs
  <2>6. Q \cap E = {} /\ P = Q \cup E
    <3>1. \A p \in Corrs : p[1] \in Observations /\ p[2] \in Observations /\ p[1] # p[2]
      BY CorrsAssumption DEF CorrsAssumption
    <3>2. Q = {p \in Corrs : /\ p[1] \in Triangulated \ {o} /\ p[2] \in Triangulated \ {o}
                             /\ point'[p[1]] = point'[p[2]]
                             /\ ImageOf[p[1]] = i /\ ImageOf[p[2]] = j}
      BY <2>3 DEF Joined
    <3>3. Q \cap E = {}
      BY <3>2 DEF Ends
    <3>4. \A p \in Corrs : p \in P <=> p \in Q \/ p \in E
      BY <1>1, <2>1, <2>2, <3>1, <3>2 DEF Joined, Ends
    <3>5. P \subseteq Corrs /\ E \subseteq Corrs /\ Q \subseteq Corrs
      BY <3>2 DEF Joined, Ends
    <3> QED
      BY <3>3, <3>4, <3>5
  <2>7. P \subseteq Observations \X Observations /\ E \subseteq Observations \X Observations
    BY EndsFinite, JoinedFinite
  <2> HIDE DEF E, P, Q
  <2>8. /\ Cardinality(P) = Cardinality(Q) + Cardinality(E) /\ Cardinality(Q) \in Nat
        /\ Cardinality(E) \in Nat
    BY <2>6, <2>7, PairsDisjoint, CorrsFinite
  <2>9. Cardinality(Q) = Cardinality(P) + (-Cardinality(E))
    BY <2>8
  <2> QED
    BY <2>5, <2>9 DEF P, Q
<1> QED
  BY <1>2, <1>3

(* A new manager counts the joined matches. *)
LEMMA RebuildPairs ==
    ASSUME IInv, Rebuild
    PROVE  PairsCounted'
<1> DEFINE seen == Registered \cap Triangulated
           Counts(a, b) == {q \in seen \X Observations :
                  /\ q[2] \in Matches(q[1], known) /\ point[q[1]] = point[q[2]]
                  /\ ImageOf[q[1]] = a /\ ImageOf[q[2]] = b}
<1>1. /\ point' = point
      /\ triCorrs' = [p \in Images \X Images |->
            IF p[1] < p[2] THEN Cardinality(Counts(p[1], p[2])) ELSE 0]
  BY DEF Rebuild, Construct, scene
<1>2. ASSUME NEW a, NEW b PROVE Counts(a, b) = Joined(a, b)'
  <2>1. Joined(a, b)' = Joined(a, b)
    BY <1>1 DEF Joined, Triangulated
  <2>2. seen = Triangulated
    BY DEF IInv, Scene, OnlyRegistered
  <2>3. \A q \in seen \X Observations : q = <<q[1], q[2]>> /\ q[1] \in seen /\ q[2] \in Observations
    OBVIOUS
  <2>4. \A q \in seen \X Observations : q[2] \in Matches(q[1], known) => q \in Corrs
    BY <2>3 DEF Matches
  <2>5. \A q \in Corrs : q = <<q[1], q[2]>> /\ q[1] \in Observations /\ q[2] \in Observations
    BY CorrsAssumption DEF CorrsAssumption
  <2>6. Triangulated = {o \in Observations : point[o] # NoPoint}
    BY DEF Triangulated
  <2>7. \A q \in Corrs : q[1] \in Triangulated /\ point[q[1]] = point[q[2]] => q[2] \in Triangulated
    BY <2>5, <2>6
  <2>8. \A q \in Corrs : q[1] \in Triangulated /\ q[2] \in Triangulated =>
                            q[2] \in Matches(q[1], known)
    BY <2>5, TriangulatedKnown DEF Matches
  <2>9. \A q : q \in Counts(a, b) => q \in Joined(a, b)
    BY <2>2, <2>3, <2>4, <2>7 DEF Joined
  <2>10. \A q : q \in Joined(a, b) => q \in Counts(a, b)
    <3> SUFFICES ASSUME NEW q \in Joined(a, b) PROVE q \in Counts(a, b)
      OBVIOUS
    <3>1. q \in Corrs /\ q[1] \in Triangulated /\ q[2] \in Triangulated
      BY DEF Joined
    <3>2. q \in seen \X Observations
      BY <2>2, <2>5, <3>1
    <3> QED
      BY <2>8, <3>1, <3>2 DEF Joined
  <2> QED
    BY <2>1, <2>9, <2>10
<1> HIDE DEF Counts
<1>3. triCorrs' = [p \in Images \X Images |->
                      IF p[1] < p[2] THEN Cardinality(Joined(p[1], p[2])') ELSE 0]
  BY <1>1, <1>2, Zenon
<1> QED
  BY <1>3 DEF PairsCounted

LEMMA PairsStepAll ==
    ASSUME IInv, PairsCounted, [Next]_vars
    PROVE  PairsCounted'
<1>1. ASSUME NEW id \in PointIds, NEW T \in SUBSET Observations, AddPoint3D(id, T)
      PROVE  PairsCounted'
  BY <1>1, AddPointPairs
<1>2. ASSUME NEW id \in PointIds, NEW o \in Observations, AddObservation(id, o)
      PROVE  PairsCounted'
  BY <1>2, AddObservationPairs
<1>3. ASSUME NEW id \in PointIds, DeletePoint3D(id)
      PROVE  PairsCounted'
  BY <1>3, DeletePairs DEF DeletePoint3D
<1>4. ASSUME NEW id1 \in PointIds, NEW id2 \in PointIds, NEW id \in PointIds,
             MergePoints3D(id1, id2, id)
      PROVE  PairsCounted'
  BY <1>4, MergePairs
<1>5. ASSUME NEW o \in Observations, DeleteOne(o) \/ FilterNext(o) \/ DeRegisterNext(o)
      PROVE  PairsCounted'
  BY <1>5, DeleteObservationPairs DEF DeleteOne, FilterNext, DeRegisterNext
<1>6. ASSUME NEW id \in PointIds, NEW D \in SUBSET Observations, Filter(id, D)
      PROVE  PairsCounted'
  <2>1. CASE TooMany(Cardinality(D), Cardinality(track[id]))
    BY <1>6, <2>1, DeletePairs DEF Filter
  <2>2. CASE ~TooMany(Cardinality(D), Cardinality(track[id]))
    BY <1>6, <2>2, SamePairs DEF Filter, counters, scene
  <2> QED
    BY <2>1, <2>2
<1>7. ASSUME NEW f \in Frames, RegisterFrame(f) \/ DeRegisterFrame(f)
      PROVE  PairsCounted'
  BY <1>7, SamePairs DEF RegisterFrame, DeRegisterFrame, scene
<1>8. CASE DeRegisterEnd \/ FilterEnd
  BY <1>8, SamePairs DEF DeRegisterEnd, FilterEnd, counters, scene
<1>9. ASSUME NEW i \in Images, AddImage(i)
      PROVE  PairsCounted'
  BY <1>9, SamePairs DEF AddImage, scene
<1>10. CASE Rebuild
  BY <1>10, RebuildPairs
<1>11. CASE UNCHANGED vars
  BY <1>11, SamePairs DEF vars, counters, scene
<1> QED
  BY <1>1, <1>2, <1>3, <1>4, <1>5, <1>6, <1>7, <1>8, <1>9, <1>10, <1>11 DEF Next

-----------------------------------------------------------------------------
(* An image that arrives changes what the graph has of itself and of the       *)
(* images that it matches, and those are refreshed.                          *)
LEMMA AddImageGraph ==
    ASSUME IInv, GraphCounted, NEW i \in Images, AddImage(i)
    PROVE  GraphCounted'
<1> DEFINE K == known \cup {i}
<1>1. /\ known' = K
      /\ numObservations' = [j \in Images |->
              IF j \in Refreshed(i, K) THEN GraphObservations(j, K)
                                       ELSE numObservations[j]]
  BY DEF AddImage
<1>2. ASSUME NEW j \in Images, j \notin Refreshed(i, K)
      PROVE  numObservations[j] = GraphObservations(j, K)
  <2>1. ASSUME NEW o \in Of(j), NEW c \in Matches(o, K)
        PROVE  c \in Matches(o, known)
    <3>1. /\ o \in Observations /\ c \in Observations /\ <<o, c>> \in Corrs
          /\ ImageOf[o] = j /\ j \in K /\ ImageOf[c] \in K
      BY <2>1 DEF Of, Matches
    <3>2. <<c, o>> \in Corrs
      BY <3>1, CorrsAssumption DEF CorrsAssumption
    <3>3. o \in Matches(c, K) \cap Of(j)
      BY <3>1, <3>2 DEF Of, Matches
    <3>4. c \notin Of(i) /\ j # i
      BY <1>2, <3>1, <3>3 DEF Refreshed
    <3>5. ImageOf[c] # i
      BY <3>1, <3>4 DEF Of
    <3> QED
      BY <3>1, <3>4, <3>5 DEF Matches
  <2>2. ASSUME NEW o \in Of(j) PROVE Matches(o, K) = Matches(o, known)
    BY <2>1 DEF Matches
  <2> HIDE DEF K
  <2>3. {o \in Of(j) : Matches(o, K) # {}} = {o \in Of(j) : Matches(o, known) # {}}
    BY <2>2, Zenon
  <2>4. numObservations[j] = GraphObservations(j, known)
    BY DEF GraphCounted
  <2> QED
    BY <2>3, <2>4, Zenon DEF GraphObservations
<1> HIDE DEF K
<1>3. numObservations' = [j \in Images |-> GraphObservations(j, K)]
  BY <1>1, <1>2, Zenon
<1>4. \A j : GraphObservations(j, K) = GraphObservations(j, known)'
  BY <1>1 DEF GraphObservations, Matches, Of
<1> QED
  BY <1>1, <1>3, Zenon DEF GraphCounted, GraphObservations, Matches, Of

LEMMA SameGraph ==
    ASSUME GraphCounted, numObservations' = numObservations, known' = known
    PROVE  GraphCounted'
BY DEF GraphCounted, GraphObservations, Matches, Of

LEMMA RebuildGraph ==
    ASSUME Rebuild
    PROVE  GraphCounted'
BY Zenon DEF Rebuild, Construct, GraphCounted, GraphObservations, Matches, Of

LEMMA GraphStepAll ==
    ASSUME IInv, GraphCounted, [Next]_vars
    PROVE  GraphCounted'
<1>1. ASSUME NEW i \in Images, AddImage(i)
      PROVE  GraphCounted'
  BY <1>1, AddImageGraph
<1>2. CASE Rebuild
  BY <1>2, RebuildGraph
<1>3. CASE UNCHANGED vars
  BY <1>3, SameGraph DEF vars, counters
<1>4. ASSUME NEW id \in PointIds, NEW T \in SUBSET Observations, AddPoint3D(id, T)
      PROVE  GraphCounted'
  BY <1>4, SameGraph DEF AddPoint3D
<1>5. ASSUME NEW id \in PointIds, NEW o \in Observations, AddObservation(id, o)
      PROVE  GraphCounted'
  BY <1>5, SameGraph DEF AddObservation
<1>6. ASSUME NEW id \in PointIds, DeletePoint3D(id)
      PROVE  GraphCounted'
  BY <1>6, SameGraph DEF DeletePoint3D
<1>7. ASSUME NEW id1 \in PointIds, NEW id2 \in PointIds, NEW id \in PointIds,
             MergePoints3D(id1, id2, id)
      PROVE  GraphCounted'
  BY <1>7, SameGraph DEF MergePoints3D
<1>8. ASSUME NEW o \in Observations, DeleteOne(o) \/ FilterNext(o) \/ DeRegisterNext(o)
      PROVE  GraphCounted'
  BY <1>8, SameGraph DEF DeleteOne, FilterNext, DeRegisterNext
<1>9. ASSUME NEW id \in PointIds, NEW D \in SUBSET Observations, Filter(id, D)
      PROVE  GraphCounted'
  BY <1>9, SameGraph DEF Filter, counters
<1>10. ASSUME NEW f \in Frames, RegisterFrame(f) \/ DeRegisterFrame(f)
       PROVE  GraphCounted'
  BY <1>10, SameGraph DEF RegisterFrame, DeRegisterFrame
<1>11. CASE DeRegisterEnd \/ FilterEnd
  BY <1>11, SameGraph DEF DeRegisterEnd, FilterEnd, counters
<1> QED
  BY <1>1, <1>2, <1>3, <1>4, <1>5, <1>6, <1>7, <1>8, <1>9, <1>10, <1>11 DEF Next

-----------------------------------------------------------------------------
LEMMA SeenFinite ==
    ASSUME NEW A, NEW j, A \subseteq Observations
    PROVE  /\ SeenFrom(A, j) \subseteq Observations \X Observations
           /\ Cardinality(SeenFrom(A, j)) \in Nat
<1>1. SeenFrom(A, j) \subseteq Observations \X Observations
  BY DEF SeenFrom, Of
<1> QED
  BY <1>1, CorrsFinite

LEMMA SeenSplit ==
    ASSUME NEW A, NEW B, NEW C, A \subseteq Observations, B \subseteq Observations,
           A \cap B = {}, C = A \cup B, NEW j
    PROVE  Cardinality(SeenFrom(C, j))
              = Cardinality(SeenFrom(A, j)) + Cardinality(SeenFrom(B, j))
<1>1. SeenFrom(A, j) \cap SeenFrom(B, j) = {}
  BY DEF SeenFrom
<1>2. SeenFrom(C, j) = SeenFrom(A, j) \cup SeenFrom(B, j)
  BY DEF SeenFrom
<1> QED
  BY <1>1, <1>2, SeenFinite, PairsDisjoint

LEMMA FrameMatchesAre ==
    ASSUME NEW f, NEW j
    PROVE  FrameMatches(f, j) = Cardinality(SeenFrom(InFrame(f), j))
BY DEF FrameMatches, SeenFrom

(* No frame is being emptied: all that is registered counts. *)
LEMMA AllCount ==
    ASSUME removing = NoFrame
    PROVE  Counting = Registered
<1>1. InFrame(NoFrame) = {}
  BY ImagesAssumption, NoneAssumption DEF InFrame, ImagesAssumption, NoneAssumption
<1> QED
  BY <1>1 DEF Counting

LEMMA RegisterCorrs ==
    ASSUME CorrsTyped, NEW f \in Frames, RegisterFrame(f)
    PROVE  CorrsTyped'
<1>1. /\ f \notin reg /\ reg' = reg \cup {f} /\ known' = known
      /\ removing = NoFrame /\ removing' = NoFrame
      /\ visibleCorrs' = [j \in Images |-> visibleCorrs[j] + FrameMatches(f, j)]
  BY DEF RegisterFrame, Idle
<1>2. /\ Registered \subseteq Observations /\ InFrame(f) \subseteq Observations
      /\ Registered \cap InFrame(f) = {} /\ Registered' = Registered \cup InFrame(f)
  BY <1>1 DEF Registered, InFrame
<1>3. Counting = Registered /\ Counting' = Registered'
  <2>1. InFrame(NoFrame) = {}
    BY ImagesAssumption, NoneAssumption DEF InFrame, ImagesAssumption, NoneAssumption
  <2>2. Counting' = Registered' \ InFrame(NoFrame)
    BY <1>1 DEF Counting, InFrame
  <2> QED
    BY <1>1, <2>1, <2>2, AllCount
<1>4. \A j \in Images : FrameMatches(f, j) = Cardinality(SeenFrom(InFrame(f), j))
                        /\ FrameMatches(f, j) \in Nat
  BY <1>2, FrameMatchesAre, SeenFinite
<1>5. visibleCorrs' \in [Images -> Nat]
  BY <1>1, <1>4 DEF CorrsTyped
<1>6. ASSUME InitialImages = Images, NEW j \in Images
      PROVE  visibleCorrs'[j] = Cardinality(SeenFrom(Counting, j)')
  <2>1. visibleCorrs'[j] = Cardinality(SeenFrom(Registered, j))
                              + Cardinality(SeenFrom(InFrame(f), j))
    BY <1>1, <1>3, <1>4, <1>6 DEF CorrsTyped
  <2>2. Cardinality(SeenFrom(Registered \cup InFrame(f), j))
           = Cardinality(SeenFrom(Registered, j)) + Cardinality(SeenFrom(InFrame(f), j))
    BY <1>2, SeenSplit
  <2>3. SeenFrom(Counting, j)' = SeenFrom(Registered \cup InFrame(f), j)
    BY <1>1, <1>2, <1>3 DEF SeenFrom, Matches, Of
  <2> QED
    BY <2>1, <2>2, <2>3
<1> QED
  BY <1>1, <1>5, <1>6 DEF CorrsTyped

LEMMA DeRegisterCorrs ==
    ASSUME CorrsTyped, NEW f \in Frames, DeRegisterFrame(f)
    PROVE  CorrsTyped'
<1>1. /\ f \in reg /\ reg' = reg /\ known' = known
      /\ removing = NoFrame /\ removing' = f
      /\ \A j \in Images : visibleCorrs[j] >= FrameMatches(f, j)
      /\ visibleCorrs' = [j \in Images |-> visibleCorrs[j] - FrameMatches(f, j)]
  BY DEF DeRegisterFrame, Idle, scene
<1> DEFINE Left == Registered \ InFrame(f)
<1>2. /\ Left \subseteq Observations /\ InFrame(f) \subseteq Observations
      /\ Left \cap InFrame(f) = {} /\ Registered = Left \cup InFrame(f)
  BY <1>1 DEF Registered, InFrame
<1>3. Counting = Registered /\ Counting' = Left
  BY <1>1, AllCount DEF Counting, InFrame, Registered
<1>4. \A j \in Images : FrameMatches(f, j) = Cardinality(SeenFrom(InFrame(f), j))
                        /\ FrameMatches(f, j) \in Nat
  BY <1>2, FrameMatchesAre, SeenFinite
<1>5. visibleCorrs' \in [Images -> Nat]
  BY <1>1, <1>4 DEF CorrsTyped
<1> HIDE DEF Left
<1>6. ASSUME InitialImages = Images, NEW j \in Images
      PROVE  visibleCorrs'[j] = Cardinality(SeenFrom(Counting, j)')
  <2>1. visibleCorrs'[j] = Cardinality(SeenFrom(Registered, j))
                              - Cardinality(SeenFrom(InFrame(f), j))
    BY <1>1, <1>3, <1>4, <1>6 DEF CorrsTyped
  <2>2. Cardinality(SeenFrom(Registered, j))
           = Cardinality(SeenFrom(Left, j)) + Cardinality(SeenFrom(InFrame(f), j))
    BY <1>2, SeenSplit
  <2>3. SeenFrom(Counting, j)' = SeenFrom(Left, j)
    BY <1>1, <1>3 DEF SeenFrom, Matches, Of
  <2>4. Cardinality(SeenFrom(Left, j)) \in Nat /\ Cardinality(SeenFrom(InFrame(f), j)) \in Nat
    BY <1>2, SeenFinite
  <2> QED
    BY <2>1, <2>2, <2>3, <2>4
<1> QED
  BY <1>1, <1>5, <1>6 DEF CorrsTyped

LEMMA DeRegisterEndCorrs ==
    ASSUME CorrsTyped, DeRegisterEnd
    PROVE  CorrsTyped'
<1>1. /\ reg' = reg \ {removing} /\ removing' = NoFrame /\ known' = known
      /\ visibleCorrs' = visibleCorrs
  BY DEF DeRegisterEnd, counters
<1>2. Registered' = Registered \ InFrame(removing)
  BY <1>1 DEF Registered, InFrame
<1>3. InFrame(NoFrame) = {}
  BY ImagesAssumption, NoneAssumption DEF InFrame, ImagesAssumption, NoneAssumption
<1>4. Counting' = Registered' \ InFrame(NoFrame)
  BY <1>1 DEF Counting, InFrame
<1>5. Counting' = Counting
  BY <1>2, <1>3, <1>4 DEF Counting
<1>6. \A j : SeenFrom(Counting, j)' = SeenFrom(Counting, j)
  BY <1>1, <1>5 DEF SeenFrom, Matches, Of
<1> QED
  BY <1>1, <1>6 DEF CorrsTyped

LEMMA SameCorrs ==
    ASSUME CorrsTyped, UNCHANGED <<visibleCorrs, known, reg, removing>>
    PROVE  CorrsTyped'
BY DEF CorrsTyped, SeenFrom, Counting, Matches, Of, Registered, InFrame

(* A manager that knows all images from the start is given no other. *)
LEMMA AddImageCorrs ==
    ASSUME CorrsTyped, NEW i \in Images, AddImage(i)
    PROVE  CorrsTyped'
<1>1. i \notin known /\ visibleCorrs' = visibleCorrs
  BY DEF AddImage
<1>2. InitialImages # Images
  BY <1>1 DEF CorrsTyped
<1> QED
  BY <1>1, <1>2 DEF CorrsTyped

LEMMA RebuildCorrs ==
    ASSUME CorrsTyped, Rebuild
    PROVE  CorrsTyped'
<1>1. /\ visibleCorrs' = [j \in Images |-> Cardinality(SeenFrom(Registered, j))]
      /\ removing = NoFrame
      /\ UNCHANGED <<reg, known, removing>>
  BY DEF Rebuild, Construct, Idle, scene, SeenFrom
<1>2. Counting = Registered
  BY <1>1, AllCount
<1>3. Counting' = Counting
  BY <1>1 DEF Counting, Registered, InFrame
<1>4. \A j : SeenFrom(Counting, j)' = SeenFrom(Registered, j)
  BY <1>1, <1>2, <1>3 DEF SeenFrom, Matches, Of
<1>5. \A j \in Images : Cardinality(SeenFrom(Registered, j)) \in Nat
  BY SeenFinite DEF Registered
<1> QED
  BY <1>1, <1>4, <1>5 DEF CorrsTyped

LEMMA CorrsStepAll ==
    ASSUME CorrsTyped, [Next]_vars
    PROVE  CorrsTyped'
<1>1. ASSUME NEW i \in Images, AddImage(i)
      PROVE  CorrsTyped'
  BY <1>1, AddImageCorrs
<1>2. CASE Rebuild
  BY <1>2, RebuildCorrs
<1>3. CASE UNCHANGED vars
  BY <1>3, SameCorrs DEF vars, counters, scene
<1>4. ASSUME NEW id \in PointIds, NEW T \in SUBSET Observations, AddPoint3D(id, T)
      PROVE  CorrsTyped'
  BY <1>4, SameCorrs DEF AddPoint3D
<1>5. ASSUME NEW id \in PointIds, NEW o \in Observations, AddObservation(id, o)
      PROVE  CorrsTyped'
  BY <1>5, SameCorrs DEF AddObservation
<1>6. ASSUME NEW id \in PointIds, DeletePoint3D(id)
      PROVE  CorrsTyped'
  BY <1>6, SameCorrs DEF DeletePoint3D
<1>7. ASSUME NEW id1 \in PointIds, NEW id2 \in PointIds, NEW id \in PointIds,
             MergePoints3D(id1, id2, id)
      PROVE  CorrsTyped'
  BY <1>7, SameCorrs DEF MergePoints3D
<1>8. ASSUME NEW o \in Observations, DeleteOne(o) \/ FilterNext(o) \/ DeRegisterNext(o)
      PROVE  CorrsTyped'
  BY <1>8, SameCorrs DEF DeleteOne, FilterNext, DeRegisterNext
<1>9. ASSUME NEW id \in PointIds, NEW D \in SUBSET Observations, Filter(id, D)
      PROVE  CorrsTyped'
  BY <1>9, SameCorrs DEF Filter, counters
<1>10. ASSUME NEW f \in Frames, RegisterFrame(f)
       PROVE  CorrsTyped'
  BY <1>10, RegisterCorrs
<1>11. ASSUME NEW f \in Frames, DeRegisterFrame(f)
       PROVE  CorrsTyped'
  BY <1>11, DeRegisterCorrs
<1>12. CASE DeRegisterEnd
  BY <1>12, DeRegisterEndCorrs
<1>13. CASE FilterEnd
  BY <1>13, SameCorrs DEF FilterEnd, counters, scene
<1> QED
  BY <1>1, <1>2, <1>3, <1>4, <1>5, <1>6, <1>7, <1>8, <1>9, <1>10, <1>11, <1>12, <1>13 DEF Next

-----------------------------------------------------------------------------
LEMMA InitExact == Init => Exact
<1> SUFFICES ASSUME Init PROVE Exact
  OBVIOUS
<1>1. /\ point = [o \in Observations |-> NoPoint] /\ track = [p \in {} |-> {}]
      /\ reg = {} /\ known = InitialImages /\ removing = NoFrame
      /\ filtered = NoPoint /\ filtering = {}
      /\ visibleCorrs = [i \in Images |-> 0]
      /\ triCorrs = [p \in Images \X Images |-> 0]
      /\ numObservations = [i \in Images |-> GraphObservations(i, InitialImages)]
  BY DEF Init
<1>2. PairsCounted
  <2>1. ASSUME NEW i, NEW j PROVE Cardinality(Joined(i, j)) = 0
    <3>1. Joined(i, j) = {}
      BY <1>1 DEF Joined, Triangulated
    <3> QED
      BY <3>1, FS_EmptySet
  <2> QED
    BY <1>1, <2>1 DEF PairsCounted
<1>3. GraphCounted
  BY <1>1 DEF GraphCounted
<1>4. CorrsTyped
  <2>1. Registered = {}
    BY <1>1 DEF Registered
  <2>2. ASSUME NEW j PROVE Cardinality(SeenFrom(Counting, j)) = 0
    <3>1. SeenFrom(Counting, j) = {}
      BY <2>1 DEF SeenFrom, Counting
    <3> QED
      BY <3>1, FS_EmptySet
  <2> QED
    BY <1>1, <2>2 DEF CorrsTyped
<1>5. Shapes
  BY <1>1 DEF Init, Shapes, Functions
<1> QED
  BY <1>2, <1>3, <1>4, <1>5 DEF Exact

LEMMA CountsShaped ==
    ASSUME NEW S, NEW n, CountPoints(S, n)
    PROVE  numPoints3D' = [i \in Images |-> numPoints3D'[i]]
BY DEF CountPoints

LEMMA MatchesShaped ==
    ASSUME NEW S, NEW n, CountMatches(S, n)
    PROVE  /\ havePoint' = [o \in Observations |-> havePoint'[o]]
           /\ visiblePoints' = [i \in Images |-> visiblePoints'[i]]
BY DEF CountMatches

(* A deleted point, and a deleted observation. *)
LEMMA DeleteShaped ==
    ASSUME NEW id, Delete(id)
    PROVE  Functions'
<1>1. track' = [p \in DOMAIN track \ {id} |-> track[p]]
  BY DEF Delete, Others
<1>2. track' = [p \in DOMAIN track' |-> track'[p]]
  BY <1>1
<1> QED
  BY <1>2, CountsShaped, MatchesShaped DEF Delete, Functions

LEMMA DeleteObservationShaped ==
    ASSUME Functions, NEW o, DeleteObservation(o)
    PROVE  Functions'
<1>1. CASE TooShort(Cardinality(track[point[o]]))
  BY <1>1, DeleteShaped DEF DeleteObservation
<1>2. CASE ~TooShort(Cardinality(track[point[o]]))
  <2>1. /\ track' = [track EXCEPT ![point[o]] = @ \ {o}]
        /\ CountPoints({o}, -1) /\ CountMatches({o}, -1)
    BY <1>2 DEF DeleteObservation
  <2>2. track' = [p \in DOMAIN track' |-> track'[p]]
    BY <2>1 DEF Functions
  <2> QED
    BY <2>1, <2>2, CountsShaped, MatchesShaped DEF Functions
<1> QED
  BY <1>1, <1>2

LEMMA SameFunctions ==
    ASSUME Functions, UNCHANGED <<track, numPoints3D, havePoint, visiblePoints>>
    PROVE  Functions'
BY DEF Functions

LEMMA ShapesStepAll ==
    ASSUME Shapes, [Next]_vars
    PROVE  Shapes'
<1>1. ASSUME NEW id \in PointIds, NEW T \in SUBSET Observations, AddPoint3D(id, T)
      PROVE  Shapes'
  <2>1. /\ track' = [p \in DOMAIN track \cup {id} |-> IF p = id THEN T ELSE track[p]]
        /\ CountPoints(T, 1) /\ CountMatches(T, 1)
        /\ UNCHANGED <<reg, removing, filtered, filtering>>
    BY <1>1 DEF AddPoint3D, Track, filters
  <2>2. track' = [p \in DOMAIN track' |-> track'[p]]
    BY <2>1
  <2>3. Functions'
    BY <2>1, <2>2, CountsShaped, MatchesShaped DEF Functions
  <2> QED
    BY <2>1, <2>3 DEF Shapes
<1>2. ASSUME NEW id \in PointIds, NEW o \in Observations, AddObservation(id, o)
      PROVE  Shapes'
  <2>1. /\ track' = [track EXCEPT ![id] = @ \cup {o}]
        /\ CountPoints({o}, 1) /\ CountMatches({o}, 1)
        /\ UNCHANGED <<reg, removing, filtered, filtering>>
    BY <1>2 DEF AddObservation, filters
  <2>2. track' = [p \in DOMAIN track' |-> track'[p]]
    BY <2>1 DEF Shapes, Functions
  <2>3. Functions'
    BY <2>1, <2>2, CountsShaped, MatchesShaped DEF Functions
  <2> QED
    BY <2>1, <2>3 DEF Shapes
<1>3. ASSUME NEW id \in PointIds, DeletePoint3D(id)
      PROVE  Shapes'
  BY <1>3, DeleteShaped DEF DeletePoint3D, Shapes, filters
<1>4. ASSUME NEW id1 \in PointIds, NEW id2 \in PointIds, NEW id \in PointIds,
             MergePoints3D(id1, id2, id)
      PROVE  Shapes'
  <2>1. /\ track' = [p \in (DOMAIN track \ {id1, id2}) \cup {id} |->
                      IF p = id THEN track[id1] \cup track[id2] ELSE track[p]]
        /\ UNCHANGED <<reg, numPoints3D, havePoint, visiblePoints, removing, filtered,
                       filtering>>
    BY <1>4 DEF MergePoints3D, Track, Others, filters
  <2>2. track' = [p \in DOMAIN track' |-> track'[p]]
    BY <2>1
  <2> QED
    BY <2>1, <2>2 DEF Shapes, Functions
<1>5. ASSUME NEW o \in Observations, DeleteOne(o) \/ FilterNext(o) \/ DeRegisterNext(o)
      PROVE  Shapes'
  <2>1. DeleteObservation(o) /\ UNCHANGED <<reg, removing, filtered>> /\ filtering' \subseteq filtering
    BY <1>5 DEF DeleteOne, FilterNext, DeRegisterNext, filters
  <2>2. Functions'
    BY <2>1, DeleteObservationShaped DEF Shapes
  <2> QED
    BY <2>1, <2>2 DEF Shapes
<1>6. ASSUME NEW id \in PointIds, NEW D \in SUBSET Observations, Filter(id, D)
      PROVE  Shapes'
  <2>1. CASE TooMany(Cardinality(D), Cardinality(track[id]))
    BY <1>6, <2>1, DeleteShaped DEF Filter, Shapes, filters
  <2>2. CASE ~TooMany(Cardinality(D), Cardinality(track[id]))
    BY <1>6, <2>2, SameFunctions DEF Filter, Shapes, counters, scene
  <2> QED
    BY <2>1, <2>2
<1>7. ASSUME NEW f \in Frames, RegisterFrame(f) \/ DeRegisterFrame(f)
      PROVE  Shapes'
  BY <1>7, SameFunctions DEF RegisterFrame, DeRegisterFrame, Shapes, scene, filters
<1>8. CASE DeRegisterEnd \/ FilterEnd
  BY <1>8, SameFunctions DEF DeRegisterEnd, FilterEnd, Shapes, scene, counters, filters
<1>9. ASSUME NEW i \in Images, AddImage(i)
      PROVE  Shapes'
  BY <1>9 DEF AddImage, Shapes, Functions, scene, filters
<1>10. CASE Rebuild
  BY <1>10 DEF Rebuild, Construct, Shapes, Functions, scene, filters
<1>11. CASE UNCHANGED vars
  BY <1>11, SameFunctions DEF vars, Shapes, scene, counters, filters
<1> QED
  BY <1>1, <1>2, <1>3, <1>4, <1>5, <1>6, <1>7, <1>8, <1>9, <1>10, <1>11 DEF Next

LEMMA SpecExact == Spec => []Exact
<1>1. IInv /\ Exact /\ [Next]_vars => Exact'
  BY PairsStepAll, GraphStepAll, CorrsStepAll, ShapesStepAll DEF Exact
<1> QED
  BY <1>1, InitExact, SpecInv, PTL DEF Spec

-----------------------------------------------------------------------------
(* An image cannot see more points than it has image points with matches.    *)
LEMMA SeenWithinGraph ==
    ASSUME IInv, Exact
    PROVE  VisibleWithinGraph
<1> SUFFICES ASSUME NEW i \in Images PROVE visiblePoints[i] <= numObservations[i]
  BY DEF VisibleWithinGraph
<1> DEFINE A == {o \in Of(i) : Matches(o, known) \cap Triangulated # {}}
           B == {o \in Of(i) : Matches(o, known) # {}}
<1>1. A \subseteq B /\ B \subseteq Observations
  BY DEF Of
<1>2. visiblePoints[i] = Cardinality(A) /\ numObservations[i] = Cardinality(B)
  BY DEF IInv, Counted, VisiblePointsCounted, Exact, GraphCounted, GraphObservations
<1> HIDE DEF A, B
<1> QED
  BY <1>1, <1>2, FinitePoints, FS_Subset

LEMMA PairsAgree ==
    ASSUME IInv, Exact
    PROVE  TriCorrsCounted
<1> SUFFICES ASSUME NEW i \in Images, NEW j \in Images, i < j
             PROVE  triCorrs[<<i, j>>] =
                       Cardinality({p \in Triangulated \X Triangulated :
                           /\ p[2] \in Matches(p[1], known) /\ point[p[1]] = point[p[2]]
                           /\ ImageOf[p[1]] = i /\ ImageOf[p[2]] = j})
  BY DEF TriCorrsCounted
<1>1. triCorrs[<<i, j>>] = Cardinality(Joined(i, j))
  BY DEF Exact, PairsCounted
<1>2. \A p \in Corrs : p = <<p[1], p[2]>> /\ p[1] \in Observations /\ p[2] \in Observations
  BY CorrsAssumption DEF CorrsAssumption
<1>3. \A p \in Triangulated \X Triangulated :
         /\ p = <<p[1], p[2]>> /\ p[1] \in Triangulated /\ p[2] \in Triangulated
         /\ p[2] \in Matches(p[1], known) <=> p \in Corrs
  <2>1. \A p \in Triangulated \X Triangulated :
           p = <<p[1], p[2]>> /\ p[1] \in Triangulated /\ p[2] \in Triangulated
    OBVIOUS
  <2> QED
    BY <2>1, TriangulatedKnown DEF Matches
<1>4. Joined(i, j) = {p \in Triangulated \X Triangulated :
                           /\ p[2] \in Matches(p[1], known) /\ point[p[1]] = point[p[2]]
                           /\ ImageOf[p[1]] = i /\ ImageOf[p[2]] = j}
  BY <1>2, <1>3 DEF Joined
<1> QED
  BY <1>1, <1>4

LEMMA CountsTyped ==
    ASSUME IInv, Exact
    PROVE  TypeOK
<1>1. \E ids \in SUBSET PointIds : track \in [ids -> SUBSET Observations]
  <2>1. DOMAIN track \in SUBSET PointIds /\ track \in [DOMAIN track -> SUBSET Observations]
    BY DEF IInv, Scene, Typed, Exact, Shapes, Functions
  <2> QED
    BY <2>1
<1>2. \A o \in Observations : havePoint[o] \in Nat
  BY MatchesFinite, FinitePoints DEF IInv, Counted, MatchesCounted
<1>3. havePoint \in [Observations -> Nat]
  BY <1>2 DEF Exact, Shapes, Functions
<1>4. \A i \in Images : numPoints3D[i] \in Nat
  BY OfFinite, FinitePoints DEF IInv, Counted, ImagePointsCounted
<1>5. numPoints3D \in [Images -> Nat]
  BY <1>4 DEF Exact, Shapes, Functions
<1>6. \A i \in Images : visiblePoints[i] \in Nat
  <2> SUFFICES ASSUME NEW i \in Images PROVE visiblePoints[i] \in Nat
    OBVIOUS
  <2>1. {o \in Of(i) : Matches(o, known) \cap Triangulated # {}} \subseteq Observations
    BY DEF Of
  <2> QED
    BY <2>1, FinitePoints DEF IInv, Counted, VisiblePointsCounted
<1>7. visiblePoints \in [Images -> Nat]
  BY <1>6 DEF Exact, Shapes, Functions
<1>8. \A i : GraphObservations(i, known) \in Nat
  <2> SUFFICES ASSUME NEW i PROVE GraphObservations(i, known) \in Nat
    OBVIOUS
  <2>1. {o \in Of(i) : Matches(o, known) # {}} \subseteq Observations
    BY DEF Of
  <2> QED
    BY <2>1, FinitePoints DEF GraphObservations
<1>9. numObservations \in [Images -> Nat]
  BY <1>8 DEF Exact, GraphCounted
<1>10. triCorrs \in [Images \X Images -> Nat]
  <2>1. \A p \in Images \X Images :
           (IF p[1] < p[2] THEN Cardinality(Joined(p[1], p[2])) ELSE 0) \in Nat
    BY JoinedFinite
  <2> QED
    BY <2>1 DEF Exact, PairsCounted
<1>11. /\ point \in [Observations -> PointIds \cup {NoPoint}]
       /\ reg \subseteq Frames /\ known \subseteq Images
       /\ visibleCorrs \in [Images -> Nat]
       /\ removing \in Frames \cup {NoFrame}
       /\ filtered \in PointIds \cup {NoPoint} /\ filtering \subseteq Observations
  BY DEF IInv, Scene, Typed, Exact, Shapes, CorrsTyped
<1> QED
  BY <1>1, <1>3, <1>5, <1>7, <1>9, <1>10, <1>11 DEF TypeOK

-----------------------------------------------------------------------------
(* The counters of points, of matches that have a point, of visible points    *)
(* and of triangulated correspondences equal what counting afresh gives, and  *)
(* what an image sees stays within what the graph has of it, also while      *)
(* images arrive (sfm/observation_manager.cc:121-290).                       *)
THEOREM CountersAlwaysAgree == Spec => []CountersAgree
<1>1. IInv /\ Exact => CountersAgree
  BY SeenWithinGraph, PairsAgree DEF IInv, Counted, CountersAgree
<1> QED
  BY <1>1, SpecInv, SpecExact, PTL

(* Every counter stays a natural number, whatever the sequence of operations: *)
(* the matches and triangulated correspondences of what is deleted were      *)
(* counted before, so that the checks against underflow                      *)
(* (sfm/observation_manager.cc:202, 270) do not fire.                        *)
THEOREM ManagerTypeCorrect == Spec => []TypeOK
<1>1. IInv /\ Exact => TypeOK
  BY CountsTyped
<1> QED
  BY <1>1, SpecInv, SpecExact, PTL

(* "The sum of correspondences that have a corresponding registered image."  *)
(* (sfm/observation_manager.h:209): exact for a manager that is constructed  *)
(* with all images, and a frame can always be deregistered then: the check   *)
(* of line 618 does not fire.  (It is not for one that images are added to.) *)
THEOREM VisibleCorrsAlwaysCounted ==
    ASSUME InitialImages = Images
    PROVE  Spec => []( /\ VisibleCorrsCounted
                       /\ Idle => \A f \in reg : \A j \in Images :
                                      visibleCorrs[j] >= FrameMatches(f, j))
<1>1. ASSUME IInv, Exact PROVE VisibleCorrsCounted
  <2> SUFFICES ASSUME removing = NoFrame, NEW i \in known
               PROVE  visibleCorrs[i] = Cardinality(SeenFrom(Registered, i))
    BY DEF VisibleCorrsCounted, SeenFrom
  <2> QED
    BY <1>1, AllCount DEF Exact, CorrsTyped
<1>2. ASSUME IInv, Exact, Idle, NEW f \in reg, NEW j \in Images
      PROVE  visibleCorrs[j] >= FrameMatches(f, j)
  <2>1. visibleCorrs[j] = Cardinality(SeenFrom(Registered, j))
    BY <1>2, AllCount DEF Exact, CorrsTyped, Idle
  <2>2. InFrame(f) \subseteq Registered /\ Registered \subseteq Observations
    BY DEF InFrame, Registered
  <2>3. SeenFrom(InFrame(f), j) \subseteq SeenFrom(Registered, j)
    BY <2>2 DEF SeenFrom
  <2>4. /\ IsFiniteSet(SeenFrom(Registered, j))
        /\ Cardinality(SeenFrom(Registered, j)) \in Nat
        /\ Cardinality(SeenFrom(InFrame(f), j)) \in Nat
    BY <2>2, SeenFinite, CorrsFinite
  <2>5. Cardinality(SeenFrom(InFrame(f), j)) <= Cardinality(SeenFrom(Registered, j))
    BY <2>3, <2>4, FS_Subset
  <2> QED
    BY <2>1, <2>4, <2>5, FrameMatchesAre
<1>3. IInv /\ Exact => /\ VisibleCorrsCounted
                       /\ Idle => \A f \in reg : \A j \in Images :
                                      visibleCorrs[j] >= FrameMatches(f, j)
  BY <1>1, <1>2
<1> QED
  BY <1>3, SpecInv, SpecExact, PTL

-----------------------------------------------------------------------------
(* The triangulator. *)

Ops == {"none", "triangulate", "completeImage", "completeTracks", "mergeTracks",
        "retriangulate", "register"}
Stages == {"visit", "continue", "create", "complete", "merge"}

ImagePairs == Images \X Images
PointPairs == Observations \X Observations

TaskType ==
    [op : Ops, stage : Stages,
     todo : SUBSET (Observations \cup PointIds \cup ImagePairs \cup PointPairs),
     ref : Observations \cup {NoObs}, corrs : SUBSET Observations,
     at : PointIds \cup {NoPoint}, queue : SUBSET Observations,
     later : SUBSET Observations, visited : SUBSET Observations, level : Nat,
     bogus : SUBSET Images]

(* What a call has read before is still usable: image points whose frames are *)
(* registered, and a 3D point that exists.                                   *)
Usables ==
    /\ task.op = "none" => task.stage = "visit"
    /\ task.op \in {"triangulate", "completeImage", "register"} =>
          task.todo \subseteq Registered
    /\ task.op = "retriangulate" =>
          \A m \in task.todo \cap PointPairs : m[1] \in Registered /\ m[2] \in Registered
    /\ task.stage \in {"continue", "create"} =>
          task.ref \in Registered /\ task.corrs \subseteq Registered
    /\ task.stage = "complete" => task.at \in DOMAIN track

TaskOK == task \in TaskType /\ Usables

TriInv ==
    /\ IInv /\ TaskOK /\ ModifiedComplete /\ NothingThrows
    /\ modified \subseteq PointIds

(* What a step of a call does to the rest. *)
Harmless ==
    /\ [Next]_vars
    /\ threw' = threw /\ reg' = reg /\ modified' \subseteq PointIds /\ ModifiedComplete'

-----------------------------------------------------------------------------
LEMMA TriInitInv == TriInit => TriInv
<1> SUFFICES ASSUME TriInit PROVE TriInv
  OBVIOUS
<1>1. IInv
  BY InitInv DEF TriInit
<1>2. /\ task = Resting /\ changed = {} /\ modified = {} /\ threw = FALSE
  BY DEF TriInit, NothingDone
<1>3. task \in TaskType
  BY <1>2, SMTT(20) DEF TaskType, Resting, Ops, Stages
<1>4. Usables
  BY <1>2 DEF Usables, Resting
<1> QED
  BY <1>1, <1>2, <1>3, <1>4 DEF TriInv, TaskOK, ModifiedComplete, NothingThrows

-----------------------------------------------------------------------------
LEMMA QuietStep ==
    ASSUME TriInv, UNCHANGED <<vars, threw, modified, changed>>
    PROVE  /\ Harmless /\ Registered' = Registered /\ track' = track
<1>1. reg' = reg /\ track' = track
  BY DEF vars, scene
<1> QED
  BY <1>1 DEF Harmless, TriInv, ModifiedComplete, Registered

LEMMA NewPointStep ==
    ASSUME TriInv, NEW T, T \subseteq Registered \ Triangulated, NewPoint(T)
    PROVE  Harmless /\ Registered' = Registered
<1>1. /\ Fresh \in PointIds /\ AddPoint3D(Fresh, T) /\ Note(Fresh) /\ threw' = threw
  BY DEF NewPoint
<1>2. T \in SUBSET Observations
  BY DEF Registered
<1>3. Next
  BY <1>1, <1>2 DEF Next
<1>4. reg' = reg /\ DOMAIN track' = DOMAIN track \cup {Fresh}
  BY <1>1 DEF AddPoint3D, Track
<1> QED
  BY <1>1, <1>3, <1>4 DEF Harmless, TriInv, ModifiedComplete, Registered, Note

LEMMA ExtendStep ==
    ASSUME TriInv, NEW id \in DOMAIN track, NEW o \in Registered \ Triangulated,
           Extend(id, o)
    PROVE  /\ Harmless /\ Registered' = Registered /\ DOMAIN track' = DOMAIN track
<1>1. AddObservation(id, o) /\ Note(id) /\ threw' = threw
  BY DEF Extend
<1>2. id \in PointIds /\ o \in Observations
  BY DEF TriInv, IInv, Scene, Typed, Registered
<1>3. Next
  BY <1>1, <1>2 DEF Next
<1>4. reg' = reg /\ DOMAIN track' = DOMAIN track
  BY <1>1 DEF AddObservation
<1> QED
  BY <1>1, <1>2, <1>3, <1>4 DEF Harmless, TriInv, ModifiedComplete, Registered, Note

(* The points of triangulated image points exist. *)
LEMMA PointsExist ==
    ASSUME TriInv, NEW o \in Triangulated
    PROVE  o \in Observations /\ point[o] \in DOMAIN track /\ point[o] \in PointIds
BY DEF TriInv, IInv, Scene, Typed, TracksAgree, Triangulated

LEMMA FindUsable ==
    ASSUME NEW o
    PROVE  Find(o) \subseteq Registered /\ Find(o) \subseteq Observations
BY DEF Find, Usable, Registered

-----------------------------------------------------------------------------
(* A call begins. *)
LEMMA BeginInv ==
    ASSUME TriInv, NEW op \in Ops, NEW S, NEW B \in SUBSET Images, Begin(op, S, B),
           S \subseteq Observations \cup PointIds \cup ImagePairs,
           op \in {"triangulate", "completeImage", "register"} => S \subseteq Registered,
           op = "retriangulate" => S \subseteq ImagePairs
    PROVE  Harmless /\ TaskOK'
<1>1. /\ task' = [Resting EXCEPT !.op = op, !.todo = S, !.bogus = B]
      /\ UNCHANGED <<vars, threw, modified, changed>>
  BY DEF Begin
<1>2. Harmless /\ Registered' = Registered /\ track' = track
  BY <1>1, QuietStep
<1>3. task' \in TaskType
  BY <1>1 DEF TaskType, Resting, Ops, Stages
<1>4. task'.op = op /\ task'.todo = S /\ task'.stage = "visit"
  BY <1>1 DEF Resting
<1>5. op = "retriangulate" => S \cap PointPairs = {}
  BY IdsAssumption DEF IdsAssumption, ImagePairs, PointPairs
<1> QED
  BY <1>2, <1>3, <1>4, <1>5 DEF TaskOK, Usables

-----------------------------------------------------------------------------
(* The steps of a call that leave the points alone. *)
LEMMA TaskInv ==
    ASSUME TriInv, UNCHANGED <<vars, threw, modified, changed>>,
           task' \in TaskType, task'.op = task.op,
           task'.todo \subseteq task.todo,
           \/ task'.stage \in {"visit", "merge"}
           \/ /\ task'.stage \in {"continue", "create"}
              /\ task'.ref \in Registered /\ task'.corrs \subseteq Registered
           \/ task'.stage = "complete" /\ task'.at \in DOMAIN track,
           task.op = "none" => task'.stage = "visit"
    PROVE  Harmless /\ TaskOK'
<1>1. Harmless /\ Registered' = Registered /\ track' = track
  BY QuietStep
<1>2. Usables'
  BY <1>1 DEF TriInv, TaskOK, Usables
<1> QED
  BY <1>1, <1>2 DEF TaskOK

(* The same for those that give an image point a 3D point. *)
LEMMA PointInv ==
    ASSUME TriInv, Harmless, Registered' = Registered,
           task' \in TaskType, task'.op = task.op,
           task'.todo \subseteq task.todo,
           \/ task'.stage \in {"visit", "merge"}
           \/ /\ task'.stage \in {"continue", "create"}
              /\ task'.ref \in Registered /\ task'.corrs \subseteq Registered
           \/ task'.stage = "complete" /\ task'.at \in DOMAIN track',
           task.op = "none" => task'.stage = "visit"
    PROVE  Harmless /\ TaskOK'
<1>1. Usables'
  BY DEF TriInv, TaskOK, Usables
<1> QED
  BY <1>1 DEF TaskOK

(* Back to the loop of the call. *)
LEMMA BackTyped ==
    ASSUME TriInv
    PROVE  Back \in TaskType /\ Back.op = task.op /\ Back.todo = task.todo /\ Back.stage = "visit"
BY DEF TriInv, TaskOK, TaskType, Back, Stages

LEMMA SkipInv ==
    ASSUME TriInv, NEW x, Skip(x), task.stage = "visit"
    PROVE  Harmless /\ TaskOK'
<1>1. task' = [task EXCEPT !.todo = @ \ {x}] /\ UNCHANGED <<vars, threw, modified, changed>>
  BY DEF Skip, Rest
<1>2. /\ task' \in TaskType /\ task'.op = task.op /\ task'.todo \subseteq task.todo
      /\ task'.stage = "visit"
  BY <1>1 DEF TriInv, TaskOK, TaskType
<1> QED
  BY <1>1, <1>2, TaskInv

LEMMA GotoInv ==
    ASSUME TriInv, NEW x, NEW stage \in {"continue", "create"},
           NEW o \in Registered, NEW C, C \subseteq Registered, Goto(x, stage, o, C),
           task.op # "none"
    PROVE  Harmless /\ TaskOK'
<1>1. /\ task' = [task EXCEPT !.todo = @ \ {x}, !.stage = stage, !.ref = o, !.corrs = C]
      /\ UNCHANGED <<vars, threw, modified, changed>>
  BY DEF Goto, Rest
<1>2. o \in Observations /\ C \subseteq Observations
  BY DEF Registered
<1>3. /\ task' \in TaskType /\ task'.op = task.op /\ task'.todo \subseteq task.todo
      /\ task'.stage = stage /\ task'.ref = o /\ task'.corrs = C
  <2>1. task \in TaskType /\ stage \in Stages
    BY DEF TriInv, TaskOK, Stages
  <2> QED
    BY <1>1, <1>2, <2>1, Zenon DEF TaskType
<1> QED
  BY <1>1, <1>3, TaskInv

LEMMA SearchInv ==
    ASSUME TriInv, NEW x, NEW id \in DOMAIN track, Search(x, id), task.op # "none"
    PROVE  Harmless /\ TaskOK'
<1>1. /\ task' = [task EXCEPT !.todo = @ \ {x}, !.stage = "complete", !.at = id,
                              !.queue = track[id], !.visited = track[id], !.level = 1]
      /\ UNCHANGED <<vars, threw, modified, changed>>
  BY DEF Search, Rest
<1>2. id \in PointIds /\ track[id] \subseteq Observations
  BY DEF TriInv, IInv, Scene, Typed
<1>3. /\ task' \in TaskType /\ task'.op = task.op /\ task'.todo \subseteq task.todo
      /\ task'.stage = "complete" /\ task'.at = id
  <2>1. task \in TaskType /\ "complete" \in Stages
    BY DEF TriInv, TaskOK, Stages
  <2>2. 1 \in Nat
    OBVIOUS
  <2> QED
    BY <1>1, <1>2, <2>1, <2>2, ZenonT(30) DEF TaskType
<1> QED
  BY <1>1, <1>3, TaskInv

-----------------------------------------------------------------------------
LEMMA TriangulateNextInv ==
    ASSUME TriInv, NEW o \in Observations, TriangulateNext(o)
    PROVE  Harmless /\ TaskOK'
<1>1. /\ task.op = "triangulate" /\ task.stage = "visit" /\ o \in task.todo
      /\ IF Find(o) = {} THEN Skip(o)
         ELSE Goto(o, IF Find(o) \cap Triangulated = {} THEN "create" ELSE "continue",
                   o, Find(o))
  BY DEF TriangulateNext, In, First
<1>2. o \in Registered
  BY <1>1 DEF TriInv, TaskOK, Usables
<1>3. CASE Find(o) = {}
  BY <1>1, <1>3, SkipInv
<1>4. CASE Find(o) # {} /\ Find(o) \cap Triangulated = {}
  BY <1>1, <1>2, <1>4, FindUsable, GotoInv
<1>5. CASE Find(o) # {} /\ Find(o) \cap Triangulated # {}
  BY <1>1, <1>2, <1>5, FindUsable, GotoInv
<1> QED
  BY <1>3, <1>4, <1>5

LEMMA ContinueInv ==
    ASSUME TriInv, Continue
    PROVE  Harmless /\ TaskOK'
<1>1. /\ task.stage = "continue" /\ task.op # "none"
      /\ task.ref \in Registered /\ task.corrs \subseteq Registered
  BY DEF Continue, TriInv, TaskOK, Usables
<1>2. /\ task' \in TaskType /\ task'.op = task.op /\ task'.todo \subseteq task.todo
      /\ \/ task'.stage \in {"visit", "merge"}
         \/ /\ task'.stage \in {"continue", "create"}
            /\ task'.ref \in Registered /\ task'.corrs \subseteq Registered
  <2>1. CASE task.op = "triangulate"
    <3>1. task' = [task EXCEPT !.stage = "create"]
      BY <2>1 DEF Continue
    <3> QED
      BY <1>1, <3>1 DEF TriInv, TaskOK, TaskType, Stages
  <2>2. CASE task.op # "triangulate"
    BY <2>2, BackTyped DEF Continue
  <2> QED
    BY <2>1, <2>2
<1>3. CASE UNCHANGED vars /\ Rest
  BY <1>1, <1>2, <1>3, TaskInv DEF Rest
<1>4. ASSUME NEW c \in task.corrs \cap Triangulated, Continuable(task.ref),
             Extend(point[c], task.ref)
      PROVE  Harmless /\ TaskOK'
  <2>1. point[c] \in DOMAIN track /\ task.ref \in Registered \ Triangulated
    BY <1>1, <1>4, PointsExist DEF Continuable
  <2>2. Harmless /\ Registered' = Registered
    BY <1>4, <2>1, ExtendStep
  <2> QED
    BY <1>1, <1>2, <2>2, PointInv
<1> QED
  BY <1>3, <1>4 DEF Continue

LEMMA CreateInv ==
    ASSUME TriInv, Create
    PROVE  Harmless /\ TaskOK'
<1>1. /\ task.stage = "create" /\ task.op # "none"
      /\ task.ref \in Registered /\ task.corrs \subseteq Registered
  BY DEF Create, TriInv, TaskOK, Usables
<1>2. task \in TaskType /\ Back \in TaskType /\ Back.op = task.op /\ Back.todo = task.todo
      /\ Back.stage = "visit"
  BY BackTyped DEF TriInv, TaskOK
<1>3. CASE task' = Back /\ UNCHANGED vars /\ Rest
  BY <1>1, <1>2, <1>3, TaskInv DEF Rest
<1>4. ASSUME NEW T, T \subseteq (task.corrs \cup {task.ref}) \ Triangulated, NewPoint(T),
             task' = task \/ task' = Back
      PROVE  Harmless /\ TaskOK'
  <2>1. T \subseteq Registered \ Triangulated
    BY <1>1, <1>4
  <2>2. Harmless /\ Registered' = Registered
    BY <1>4, <2>1, NewPointStep
  <2> QED
    BY <1>1, <1>2, <1>4, <2>2, PointInv
<1> QED
  BY <1>3, <1>4 DEF Create

LEMMA CompleteNextInv ==
    ASSUME TriInv, NEW c \in Observations, CompleteNext(c)
    PROVE  Harmless /\ TaskOK'
<1> DEFINE seen == [task EXCEPT !.visited = @ \cup {c}]
           deeper == task.level < CompleteTransitivity
<1>1. task.stage = "complete" /\ task.op # "none" /\ task.at \in DOMAIN track /\ task \in TaskType
  BY DEF CompleteNext, TriInv, TaskOK, Usables
<1>2. /\ seen \in TaskType /\ seen.op = task.op /\ seen.todo = task.todo
      /\ seen.stage = "complete" /\ seen.at = task.at
  BY <1>1 DEF TaskType
<1>3. CASE task' = seen /\ UNCHANGED vars /\ Rest
  BY <1>1, <1>2, <1>3, TaskInv DEF Rest
<1>4. CASE /\ c \in Usable \ Triangulated /\ Extend(task.at, c)
           /\ task' = [seen EXCEPT !.later = @ \cup IF deeper THEN {c} ELSE {}]
  <2>1. c \in Registered \ Triangulated
    BY <1>4 DEF Usable
  <2>2. Harmless /\ Registered' = Registered /\ DOMAIN track' = DOMAIN track
    BY <1>1, <1>4, <2>1, ExtendStep
  <2> HIDE DEF seen, deeper
  <2>3. /\ task' \in TaskType /\ task'.op = task.op /\ task'.todo = task.todo
        /\ task'.stage = "complete" /\ task'.at = task.at
    BY <1>2, <1>4 DEF TaskType
  <2> QED
    BY <1>1, <2>2, <2>3, PointInv
<1> QED
  BY <1>3, <1>4 DEF CompleteNext

LEMMA CompleteLevelInv ==
    ASSUME TriInv, CompleteLevel
    PROVE  Harmless /\ TaskOK'
<1>1. /\ task.stage = "complete" /\ task.op # "none" /\ task.at \in DOMAIN track
      /\ task \in TaskType /\ UNCHANGED <<vars, threw, modified, changed>>
  BY DEF CompleteLevel, TriInv, TaskOK, Usables, Rest
<1>2. CASE task' = [Back EXCEPT !.at = NoPoint, !.queue = {}, !.later = {},
                                !.visited = {}, !.level = 0]
  <2>1. /\ Back \in TaskType /\ Back.op = task.op /\ Back.todo = task.todo
        /\ Back.stage = "visit" /\ 0 \in Nat
    BY BackTyped
  <2>2. task' \in TaskType
    BY <1>2, <2>1, ZenonT(30) DEF TaskType
  <2>3. task'.op = task.op /\ task'.todo = task.todo /\ task'.stage = "visit"
    BY <1>2, <2>1, ZenonT(30) DEF TaskType
  <2> QED
    BY <1>1, <2>2, <2>3, TaskInv
<1>3. CASE task' = [task EXCEPT !.queue = task.later, !.later = {}, !.level = @ + 1]
  <2>1. task.level \in Nat
    BY <1>1 DEF TaskType
  <2>2. task.level + 1 \in Nat
    BY <2>1
  <2>3. task' \in TaskType
    BY <1>1, <1>3, <2>2, ZenonT(30) DEF TaskType
  <2>4. /\ task'.op = task.op /\ task'.todo = task.todo
        /\ task'.stage = "complete" /\ task'.at = task.at
    BY <1>1, <1>3, ZenonT(30) DEF TaskType
  <2> QED
    BY <1>1, <2>3, <2>4, TaskInv
<1> QED
  BY <1>2, <1>3 DEF CompleteLevel

LEMMA CompleteImageNextInv ==
    ASSUME TriInv, NEW o \in Observations, CompleteImageNext(o)
    PROVE  Harmless /\ TaskOK'
<1>1. task.op = "completeImage" /\ task.stage = "visit" /\ o \in task.todo /\ task \in TaskType
  BY DEF CompleteImageNext, In, First, TriInv, TaskOK
<1>2. o \in Registered
  BY <1>1 DEF TriInv, TaskOK, Usables
<1>3. CASE o \in Triangulated
  BY <1>1, <1>3, PointsExist, SearchInv DEF CompleteImageNext
<1>4. CASE o \notin Triangulated /\ Skip(o)
  BY <1>1, <1>4, SkipInv
<1>5. ASSUME o \notin Triangulated, Find(o) \cap Triangulated = {},
             NEW T, T \subseteq Find(o) \cup {o}, NewPoint(T),
             task' = [task EXCEPT !.todo = @ \ {o}]
      PROVE  Harmless /\ TaskOK'
  <2>1. T \subseteq Registered \ Triangulated
    BY <1>2, <1>5, FindUsable
  <2>2. Harmless /\ Registered' = Registered
    BY <1>5, <2>1, NewPointStep
  <2>3. /\ task' \in TaskType /\ task'.op = task.op /\ task'.todo \subseteq task.todo
        /\ task'.stage = "visit"
    BY <1>1, <1>5 DEF TaskType
  <2> QED
    BY <1>1, <2>2, <2>3, PointInv
<1> QED
  BY <1>3, <1>4, <1>5 DEF CompleteImageNext

LEMMA CompleteTracksNextInv ==
    ASSUME TriInv, NEW id \in PointIds, CompleteTracksNext(id)
    PROVE  Harmless /\ TaskOK'
<1>1. task.op = "completeTracks" /\ task.stage = "visit"
  BY DEF CompleteTracksNext, In
<1>2. CASE id \in DOMAIN track
  BY <1>1, <1>2, SearchInv DEF CompleteTracksNext
<1>3. CASE id \notin DOMAIN track
  BY <1>1, <1>3, SkipInv DEF CompleteTracksNext
<1> QED
  BY <1>2, <1>3

LEMMA MergeTracksNextInv ==
    ASSUME TriInv, NEW id \in PointIds, MergeTracksNext(id)
    PROVE  Harmless /\ TaskOK'
<1>1. task.op = "mergeTracks" /\ task.stage = "visit" /\ task \in TaskType
  BY DEF MergeTracksNext, In, TriInv, TaskOK
<1>2. CASE id \in DOMAIN track
  <2>1. /\ task' = [task EXCEPT !.todo = @ \ {id}, !.stage = "merge", !.at = id]
        /\ UNCHANGED <<vars, threw, modified, changed>>
    BY <1>2 DEF MergeTracksNext, Rest
  <2>2. /\ task' \in TaskType /\ task'.op = task.op /\ task'.todo \subseteq task.todo
        /\ task'.stage = "merge"
    BY <1>1, <2>1 DEF TaskType, Stages
  <2> QED
    BY <1>1, <2>1, <2>2, TaskInv
<1>3. CASE id \notin DOMAIN track
  BY <1>1, <1>3, SkipInv DEF MergeTracksNext
<1> QED
  BY <1>2, <1>3

(* The merged point is new, the id of the second point that is erased from    *)
(* the modified ones is the new one already, and it is inserted after.       *)
LEMMA MergeWithInv ==
    ASSUME TriInv, NEW c \in Observations, MergeWith(c)
    PROVE  Harmless /\ TaskOK'
<1>1. /\ task.stage = "merge" /\ task.op # "none" /\ task \in TaskType /\ threw' = threw
      /\ c \in Triangulated
  <2>1. task.stage = "merge" /\ threw' = threw /\ c \in Partners
    <3>1. task.stage = "merge" /\ First(c, Partners) /\ UNCHANGED <<reTrials, threw>>
      BY Zenon DEF MergeWith
    <3> QED
      BY <3>1, Zenon DEF First
  <2>2. Partners \subseteq Triangulated
    BY Zenon DEF Partners
  <2> QED
    BY <2>1, <2>2 DEF TriInv, TaskOK, Usables
<1>2. CASE UNCHANGED <<vars, lastId, modified, task, changed>>
  <2>1. UNCHANGED <<vars, threw, modified, changed>>
    BY <1>1, <1>2
  <2> QED
    BY <1>1, <1>2, <2>1, TaskInv
<1>3. CASE /\ Fresh \in PointIds
           /\ MergePoints3D(task.at, point[c], Fresh) /\ lastId' = Fresh
           /\ modified' = AfterMerge(task.at, point'[c], Fresh)
           /\ changed' = changed \cup {Fresh}
           /\ task' = [task EXCEPT !.at = Fresh]
  <2>1. /\ task.at \in DOMAIN track /\ point[c] \in DOMAIN track /\ Fresh \notin DOMAIN track
        /\ reg' = reg
        /\ DOMAIN track' = (DOMAIN track \ {task.at, point[c]}) \cup {Fresh}
    BY <1>3 DEF MergePoints3D, Track, Others
  <2>2. task.at \in PointIds /\ point[c] \in PointIds
    BY <2>1 DEF TriInv, IInv, Scene, Typed
  <2>3. Next
    BY <1>3, <2>2 DEF Next
  <2>4. point'[c] = Fresh
    <3>1. c \in track[point[c]]
      BY <2>1, <2>2 DEF TriInv, IInv, Scene, TracksAgree
    <3> QED
      BY <1>3, <3>1 DEF MergePoints3D, SetPoint
  <2>5. modified' = (modified \ {task.at, Fresh}) \cup {Fresh}
    BY <1>3, <2>4 DEF AfterMerge
  <2>6. ModifiedComplete' /\ modified' \subseteq PointIds
    BY <1>3, <2>1, <2>5 DEF TriInv, ModifiedComplete
  <2>7. Harmless /\ Registered' = Registered
    BY <1>1, <2>1, <2>3, <2>6 DEF Harmless, Registered
  <2>8. /\ task' \in TaskType /\ task'.op = task.op /\ task'.todo = task.todo
        /\ task'.stage = "merge"
    BY <1>1, <1>3 DEF TaskType
  <2> QED
    BY <1>1, <2>7, <2>8, PointInv
<1> QED
  BY <1>2, <1>3, Zenon DEF MergeWith

LEMMA MergeEndInv ==
    ASSUME TriInv, MergeEnd
    PROVE  Harmless /\ TaskOK'
<1>1. /\ task.op # "none" /\ task' = [Back EXCEPT !.at = NoPoint]
      /\ UNCHANGED <<vars, threw, modified, changed>>
  BY DEF MergeEnd, Rest, TriInv, TaskOK, Usables
<1>2. /\ Back \in TaskType /\ Back.op = task.op /\ Back.todo = task.todo
      /\ Back.stage = "visit"
  BY BackTyped
<1>3. /\ task' \in TaskType /\ task'.op = task.op /\ task'.todo = task.todo
      /\ task'.stage = "visit"
  BY <1>1, <1>2, ZenonT(30) DEF TaskType
<1> QED
  BY <1>1, <1>3, TaskInv

LEMMA FinishInv ==
    ASSUME TriInv, Finish
    PROVE  Harmless /\ TaskOK'
<1>1. task' = Resting /\ UNCHANGED <<vars, threw, modified, changed>>
  BY DEF Finish, Rest
<1>2. Harmless
  BY <1>1, QuietStep
<1>3. task' \in TaskType
  BY <1>1 DEF TaskType, Resting, Ops, Stages
<1>4. Usables'
  BY <1>1 DEF Usables, Resting
<1> QED
  BY <1>2, <1>3, <1>4 DEF TaskOK

-----------------------------------------------------------------------------
(* Both images are registered with all their image points, so that the        *)
(* matches of the pair are.                                                  *)
LEMMA RetriangulatePairInv ==
    ASSUME TriInv, NEW p \in task.todo, RetriangulatePair(p)
    PROVE  Harmless /\ TaskOK'
<1>1. /\ task.op = "retriangulate" /\ task.stage = "visit" /\ task \in TaskType
      /\ p \in ImagePairs
  BY DEF RetriangulatePair, In, ImagePairs, TriInv, TaskOK
<1>2. CASE Skip(p)
  BY <1>1, <1>2, SkipInv
<1>3. CASE ~Skip(p)
  <2> DEFINE M == IF {p[1], p[2]} \cap task.bogus # {} THEN {}
                  ELSE {m \in Of(p[1]) \X Of(p[2]) : m[2] \in Matches(m[1], known)}
  <2>1. /\ Visited(p[1]) # {} /\ Visited(p[2]) # {}
        /\ task' = [task EXCEPT !.todo = (@ \ {p}) \cup M]
        /\ UNCHANGED <<vars, threw, modified, changed>>
    BY <1>3 DEF RetriangulatePair
  <2>2. Of(p[1]) \subseteq Registered /\ Of(p[2]) \subseteq Registered
    BY <2>1 DEF Visited, Of, Registered
  <2>3. \A m \in M : m \in PointPairs /\ m[1] \in Registered /\ m[2] \in Registered
    BY <2>2 DEF PointPairs, Registered
  <2> HIDE DEF M
  <2>4. /\ task' \in TaskType /\ task'.op = task.op /\ task'.todo = (task.todo \ {p}) \cup M
        /\ task'.stage = "visit"
    BY <1>1, <2>1, <2>3 DEF TaskType
  <2>5. Harmless /\ Registered' = Registered
    BY <2>1, QuietStep
  <2>6. Usables'
    BY <1>1, <2>3, <2>4, <2>5 DEF TriInv, TaskOK, Usables
  <2> QED
    BY <2>4, <2>5, <2>6 DEF TaskOK
<1> QED
  BY <1>2, <1>3

LEMMA RetriangulateMatchInv ==
    ASSUME TriInv, NEW m \in task.todo, RetriangulateMatch(m)
    PROVE  Harmless /\ TaskOK'
<1> DEFINE has == {m[1], m[2]} \cap Triangulated
<1>1. task.op = "retriangulate" /\ task.stage = "visit" /\ m \in PointPairs
  BY DEF RetriangulateMatch, In, PointPairs
<1>2. m[1] \in Registered /\ m[2] \in Registered
  BY <1>1 DEF TriInv, TaskOK, Usables
<1>3. \/ Skip(m)
      \/ Goto(m, "continue", m[2], {m[1]})
      \/ Goto(m, "continue", m[1], {m[2]})
      \/ Goto(m, "create", m[1], {m[2]})
  <2>1. has = {m[1], m[2]} \/ has = {m[1]} \/ has = {m[2]} \/ has = {}
    OBVIOUS
  <2> QED
    BY <2>1 DEF RetriangulateMatch
<1>4. {m[1]} \subseteq Registered /\ {m[2]} \subseteq Registered
  BY <1>2
<1>5. CASE Skip(m)
  BY <1>1, <1>5, SkipInv
<1>6. CASE Goto(m, "continue", m[2], {m[1]})
  BY <1>1, <1>2, <1>4, <1>6, GotoInv
<1>7. CASE Goto(m, "continue", m[1], {m[2]})
  BY <1>1, <1>2, <1>4, <1>7, GotoInv
<1>8. CASE Goto(m, "create", m[1], {m[2]})
  BY <1>1, <1>2, <1>4, <1>8, GotoInv
<1> QED
  BY <1>3, <1>5, <1>6, <1>7, <1>8

LEMMA RegisterNextInv ==
    ASSUME TriInv, NEW f \in Frames, RegisterNext(f)
    PROVE  /\ [Next]_vars /\ TaskOK'
           /\ NothingThrows' /\ ModifiedComplete' /\ modified' \subseteq PointIds
<1> DEFINE S == {o \in InFrame(f) : Matches(o, known) \cap Registered \cap Triangulated # {}}
<1>1. /\ RegisterFrame(f) /\ task' = [Resting EXCEPT !.op = "register", !.todo = S]
      /\ UNCHANGED <<threw, modified, changed>>
  BY DEF RegisterNext, Rest
<1>2. Next /\ reg' = reg \cup {f} /\ track' = track
  BY <1>1 DEF Next, RegisterFrame
<1>3. S \subseteq Observations /\ S \subseteq Registered'
  BY <1>2 DEF InFrame, Registered
<1> HIDE DEF S
<1>4. task' \in TaskType
  BY <1>1, <1>3 DEF TaskType, Resting, Ops, Stages
<1>5. task'.op = "register" /\ task'.todo = S /\ task'.stage = "visit"
  BY <1>1 DEF Resting
<1>6. Usables'
  BY <1>3, <1>5 DEF Usables
<1> QED
  BY <1>1, <1>2, <1>4, <1>6 DEF TriInv, TaskOK, NothingThrows, ModifiedComplete

LEMMA RegisterInlierInv ==
    ASSUME TriInv, NEW o \in Observations, RegisterInlier(o)
    PROVE  Harmless /\ TaskOK'
<1>1. task.op = "register" /\ task.stage = "visit" /\ o \in task.todo /\ task \in TaskType
  BY DEF RegisterInlier, In, First, TriInv, TaskOK
<1>2. o \in Registered
  BY <1>1 DEF TriInv, TaskOK, Usables
<1>3. CASE Skip(o)
  BY <1>1, <1>3, SkipInv
<1>4. ASSUME o \notin Triangulated, NEW c \in Matches(o, known) \cap Triangulated,
             Extend(point[c], o), task' = [task EXCEPT !.todo = @ \ {o}]
      PROVE  Harmless /\ TaskOK'
  <2>1. point[c] \in DOMAIN track
    BY PointsExist
  <2>2. Harmless /\ Registered' = Registered
    BY <1>2, <1>4, <2>1, ExtendStep
  <2>3. /\ task' \in TaskType /\ task'.op = task.op /\ task'.todo \subseteq task.todo
        /\ task'.stage = "visit"
    BY <1>1, <1>4 DEF TaskType
  <2> QED
    BY <1>1, <2>2, <2>3, PointInv
<1> QED
  BY <1>3, <1>4 DEF RegisterInlier

(* Between the calls points and frames go: nothing is under way.             *)
LEMMA FilteringInv ==
    ASSUME TriInv, Filtering
    PROVE  /\ [Next]_vars /\ TaskOK'
           /\ NothingThrows' /\ ModifiedComplete' /\ modified' \subseteq PointIds
<1>1. task.op = "none" /\ UNCHANGED <<task, threw, modified, changed>>
  BY DEF Filtering, triangulator
<1>2. Next
  BY DEF Filtering, Next
<1>3. DOMAIN track' \subseteq DOMAIN track
  <2>1. ASSUME NEW id, Delete(id) PROVE DOMAIN track' \subseteq DOMAIN track
    BY <2>1 DEF Delete, Others
  <2>2. ASSUME NEW o, DeleteObservation(o) PROVE DOMAIN track' \subseteq DOMAIN track
    <3>1. CASE TooShort(Cardinality(track[point[o]]))
      BY <2>1, <2>2, <3>1 DEF DeleteObservation
    <3>2. CASE ~TooShort(Cardinality(track[point[o]]))
      BY <2>2, <3>2 DEF DeleteObservation
    <3> QED
      BY <3>1, <3>2
  <2>3. ASSUME NEW id, DeletePoint3D(id) PROVE DOMAIN track' \subseteq DOMAIN track
    BY <2>1, <2>3 DEF DeletePoint3D
  <2>4. ASSUME NEW o, DeleteOne(o) \/ DeRegisterNext(o) PROVE DOMAIN track' \subseteq DOMAIN track
    BY <2>2, <2>4 DEF DeleteOne, DeRegisterNext
  <2>5. ASSUME NEW f, DeRegisterFrame(f) PROVE DOMAIN track' \subseteq DOMAIN track
    BY <2>5 DEF DeRegisterFrame, scene
  <2>6. CASE DeRegisterEnd
    BY <2>6 DEF DeRegisterEnd
  <2> QED
    BY <2>3, <2>4, <2>5, <2>6 DEF Filtering
<1>4. TaskOK'
  BY <1>1 DEF TriInv, TaskOK, Usables
<1> QED
  BY <1>1, <1>2, <1>3, <1>4 DEF TriInv, NothingThrows, ModifiedComplete

-----------------------------------------------------------------------------
(* One step of the mapper: it is a step of the manager or none, and keeps the *)
(* invariant of the triangulator.                                            *)
LEMMA TriStep ==
    ASSUME TriInv, [TriNext]_triVars
    PROVE  /\ [Next]_vars /\ TaskOK'
           /\ NothingThrows' /\ ModifiedComplete' /\ modified' \subseteq PointIds
<1>1. Harmless => [Next]_vars /\ NothingThrows' /\ ModifiedComplete' /\ modified' \subseteq PointIds
  BY DEF Harmless, TriInv, NothingThrows
<1>2. ASSUME NEW i \in Images, TriangulateImage(i) \/ CompleteImage(i)
      PROVE  Harmless /\ TaskOK'
  <2>1. PICK B \in Cameras : \/ Begin("triangulate", Visited(i), B)
                             \/ Begin("completeImage", Visited(i), B)
    BY <1>2 DEF TriangulateImage, CompleteImage
  <2>2. B \in SUBSET Images
    BY <2>1, IdsAssumption DEF Cameras, IdsAssumption
  <2>3. Visited(i) \subseteq Registered /\ Visited(i) \subseteq Observations
    BY DEF Visited, Registered
  <2>4. {"triangulate", "completeImage"} \subseteq Ops
    BY DEF Ops
  <2> QED
    BY <2>1, <2>2, <2>3, <2>4, BeginInv
<1>3. ASSUME CompleteTracks \/ MergeTracks PROVE Harmless /\ TaskOK'
  <2>1. PICK S \in Chosen, B \in SUBSET Images : \/ Begin("completeTracks", S, B)
                                                \/ Begin("mergeTracks", S, B)
    BY <1>3, IdsAssumption DEF CompleteTracks, MergeTracks, Cameras, IdsAssumption
  <2>2. S \subseteq PointIds
    BY <2>1 DEF Chosen, TriInv, IInv, Scene, Typed
  <2>3. {"completeTracks", "mergeTracks"} \subseteq Ops
    BY DEF Ops
  <2> QED
    BY <2>1, <2>2, <2>3, BeginInv
<1>4. ASSUME Retriangulate PROVE Harmless /\ TaskOK'
  <2> DEFINE S == {p \in Images \X Images : p[1] < p[2] /\ NumMatches(p) > 0}
  <2>1. PICK B \in SUBSET Images : Begin("retriangulate", S, B)
    BY <1>4, IdsAssumption DEF Retriangulate, Cameras, IdsAssumption
  <2>2. S \subseteq ImagePairs /\ "retriangulate" \in Ops
    BY DEF ImagePairs, Ops
  <2> HIDE DEF S
  <2> QED
    BY <2>1, <2>2, BeginInv
<1>5. ASSUME Finish PROVE Harmless /\ TaskOK'
  BY <1>5, FinishInv
<1>6. ASSUME NEW o \in Observations,
             \/ TriangulateNext(o) \/ CompleteImageNext(o) \/ CompleteNext(o)
             \/ MergeWith(o) \/ RegisterInlier(o)
      PROVE  Harmless /\ TaskOK'
  BY <1>6, TriangulateNextInv, CompleteImageNextInv, CompleteNextInv, MergeWithInv,
     RegisterInlierInv
<1>7. ASSUME Continue \/ Create \/ CompleteLevel \/ MergeEnd PROVE Harmless /\ TaskOK'
  BY <1>7, ContinueInv, CreateInv, CompleteLevelInv, MergeEndInv
<1>8. ASSUME NEW id \in PointIds, CompleteTracksNext(id) \/ MergeTracksNext(id)
      PROVE  Harmless /\ TaskOK'
  BY <1>8, CompleteTracksNextInv, MergeTracksNextInv
<1>9. ASSUME NEW p \in task.todo, RetriangulatePair(p) \/ RetriangulateMatch(p)
      PROVE  Harmless /\ TaskOK'
  BY <1>9, RetriangulatePairInv, RetriangulateMatchInv
<1>10. ASSUME GetModifiedPoints3D \/ ClearModifiedPoints3D PROVE Harmless /\ TaskOK'
  <2>1. /\ UNCHANGED <<vars, task, threw>> /\ ModifiedComplete' /\ modified' \subseteq PointIds
    BY <1>10 DEF GetModifiedPoints3D, ClearModifiedPoints3D, TriInv, ModifiedComplete, vars, scene
  <2>2. reg' = reg /\ track' = track
    BY <2>1 DEF vars, scene
  <2> QED
    BY <2>1, <2>2 DEF Harmless, TriInv, TaskOK, Usables, Registered
<1>11. CASE UNCHANGED triVars
  <2>1. UNCHANGED <<vars, task, threw, modified, changed>>
    BY <1>11 DEF triVars, triangulator
  <2>2. reg' = reg /\ track' = track
    BY <2>1 DEF vars, scene
  <2> QED
    BY <1>1, <2>1, <2>2 DEF Harmless, TriInv, TaskOK, Usables, Registered, ModifiedComplete
<1>12. CASE TriNext
  BY <1>1, <1>2, <1>3, <1>4, <1>5, <1>6, <1>7, <1>8, <1>9, <1>10, <1>12,
     RegisterNextInv, FilteringInv, Zenon DEF TriNext
<1> QED
  BY <1>11, <1>12

LEMMA TriStepInv == TriInv /\ [TriNext]_triVars => TriInv' /\ [Next]_vars
BY TriStep, StepInv DEF TriInv

LEMMA TriSpecInv == TriSpec => []TriInv
BY TriInitInv, TriStepInv, PTL DEF TriSpec

(* Whatever the triangulator does, it does with the operations of the         *)
(* observation manager, so that all that holds of any use of the manager     *)
(* holds with the triangulator (sfm/incremental_triangulator.cc).            *)
THEOREM TriangulatorUsesManager == TriSpec => Spec
<1>1. TriInit => Init
  BY DEF TriInit
<1> QED
  BY <1>1, TriSpecInv, TriStepInv, PTL DEF TriSpec, Spec

(* No call of the triangulator gives an image point a second point, or one    *)
(* without a pose, although it reads the matches before it changes them.      *)
THEOREM NothingEverThrows == TriSpec => []NothingThrows
<1>1. TriInv => NothingThrows
  BY DEF TriInv
<1> QED
  BY <1>1, TriSpecInv, PTL

(* A point that was changed since the set was cleared is in it while it       *)
(* exists, although a merge erases ids that it reads after the merge.         *)
THEOREM ModifiedAlwaysComplete == TriSpec => []ModifiedComplete
<1>1. TriInv => ModifiedComplete
  BY DEF TriInv
<1> QED
  BY <1>1, TriSpecInv, PTL

(* The counters of the manager agree whatever the triangulator makes of the  *)
(* points (sfm/incremental_triangulator.cc).                                 *)
THEOREM TriangulatorKeepsCounts == TriSpec => []CountersAgree
BY TriangulatorUsesManager, CountersAlwaysAgree, PTL

-----------------------------------------------------------------------------
(* Two-view tracks. *)

(* The smallest of a set of numbers. *)
LEMMA Least ==
    ASSUME NEW S \in SUBSET Nat, S # {}
    PROVE  \E x \in S : \A y \in S : x <= y
<1> DEFINE R == {p \in Nat \X Nat : p[1] < p[2]}
<1>1. IsWellFoundedOn(R, Nat)
  BY NatLessThanWellFounded DEF OpToRel
<1> HIDE DEF R
<1>2. PICK x \in S : \A y \in S : ~(<<y, x>> \in R)
  BY <1>1, WFMin
<1>3. ASSUME NEW y \in S PROVE x <= y
  <2>1. x \in Nat /\ y \in Nat /\ ~(<<y, x>> \in R)
    BY <1>2
  <2>2. <<y, x>> \in R <=> y < x
    BY <2>1 DEF R
  <2> QED BY <2>1, <2>2
<1> QED BY <1>3

(* Induction over a set, which stands for the property of the numbers in it. *)
LEMMA Induction ==
    ASSUME NEW S, 0 \in S, \A n \in Nat : n \in S => n + 1 \in S
    PROVE  Nat \subseteq S
<1> SUFFICES ASSUME Nat \ S # {} PROVE FALSE
  OBVIOUS
<1>1. PICK x \in Nat \ S : \A y \in Nat \ S : x <= y
  BY Least
<1>2. x # 0 /\ x - 1 \in Nat
  BY <1>1
<1>3. x - 1 \in S
  <2>1. ~(x <= x - 1)
    BY <1>1
  <2> QED BY <1>1, <1>2, <2>1
<1>4. (x - 1) + 1 = x
  BY <1>1
<1> QED BY <1>1, <1>2, <1>3, <1>4

(* One step of the search for matches of matches. *)
Wider(S) == S \cup UNION {Matches(p, known) : p \in S}
ReachedBy(f, o, n) == f = [k \in 0 .. n |-> IF k = 0 THEN {o} ELSE Wider(f[k - 1])]

(* The search ends: what is reached after each of its steps is defined.      *)
LEMMA ReachedExists ==
    ASSUME NEW o \in Observations, NEW n \in Nat
    PROVE  \E f : ReachedBy(f, o, n)
<1> DEFINE S == {m \in Nat : \E f : ReachedBy(f, o, m)}
<1>1. 0 \in S
  <2> DEFINE f == [k \in 0 .. 0 |-> {o}]
  <2>1. ReachedBy(f, o, 0)
    BY DEF ReachedBy
  <2> QED BY <2>1
<1>2. ASSUME NEW m \in Nat, m \in S PROVE m + 1 \in S
  <2>1. PICK f : ReachedBy(f, o, m)
    BY <1>2
  <2> DEFINE g == [k \in 0 .. m + 1 |-> IF k = m + 1 THEN Wider(f[m]) ELSE f[k]]
  <2>2. f[0] = {o} /\ \A k \in 1 .. m : f[k] = Wider(f[k - 1])
    BY <2>1 DEF ReachedBy
  <2>3. g[0] = {o} /\ g[m + 1] = Wider(f[m]) /\ g[m] = f[m]
    BY <2>2
  <2>4. ASSUME NEW k \in 0 .. m + 1
        PROVE  g[k] = IF k = 0 THEN {o} ELSE Wider(g[k - 1])
    <3>1. CASE k = m + 1
      <4>1. k - 1 = m /\ k # 0
        BY <3>1
      <4> HIDE DEF g
      <4> QED BY <2>3, <3>1, <4>1
    <3>2. CASE k = 0
      BY <2>3, <3>2
    <3>3. CASE k # m + 1 /\ k # 0
      <4>1. k \in 1 .. m /\ k - 1 \in 0 .. m + 1 /\ k - 1 # m + 1
        BY <3>3
      <4>2. g[k] = f[k] /\ g[k - 1] = f[k - 1]
        BY <3>3, <4>1
      <4> HIDE DEF g
      <4> QED BY <2>2, <3>3, <4>1, <4>2
    <3> QED BY <3>1, <3>2, <3>3
  <2>5. g = [k \in 0 .. m + 1 |-> g[k]]
    OBVIOUS
  <2> HIDE DEF g
  <2>6. ReachedBy(g, o, m + 1)
    <3>1. g = [k \in 0 .. m + 1 |-> IF k = 0 THEN {o} ELSE Wider(g[k - 1])]
      BY <2>4, <2>5, Zenon
    <3> QED BY <3>1 DEF ReachedBy
  <2> QED BY <2>6
<1>3. Nat \subseteq S
  <2> HIDE DEF S
  <2> QED BY <1>1, <1>2, Induction
<1> QED BY <1>3

(* What is found from an image point, if it or the point only match each      *)
(* other, matches the point.                                                 *)
Kin(o, C) ==
    \A c \in C : IsTwoViewObservation(c) \/ IsTwoViewObservation(o) =>
        c = o \/ c \in Matches(o, known)

LEMMA MatchesBack ==
    ASSUME NEW o, NEW c PROVE c \in Matches(o, known) => o \in Matches(c, known)
BY CorrsAssumption DEF Matches, CorrsAssumption

LEMMA Partner ==
    ASSUME NEW o, NEW c, IsTwoViewObservation(o), c \in Matches(o, known)
    PROVE  IsTwoViewObservation(c) /\ Matches(o, known) = {c} /\ Matches(c, known) = {o}
<1>1. PICK d \in Observations : Matches(o, known) = {d} /\ Matches(d, known) = {o}
  BY DEF IsTwoViewObservation
<1>2. d = c
  BY <1>1
<1>3. o \in Observations
  BY <1>1 DEF Matches
<1> QED BY <1>1, <1>2, <1>3 DEF IsTwoViewObservation

LEMMA KinWider ==
    ASSUME NEW o, NEW S, Kin(o, S)
    PROVE  Kin(o, Wider(S))
<1> SUFFICES ASSUME NEW p \in S, NEW c \in Matches(p, known),
                    IsTwoViewObservation(c) \/ IsTwoViewObservation(o)
             PROVE  c = o \/ c \in Matches(o, known)
  BY DEF Kin, Wider
<1>1. CASE IsTwoViewObservation(o)
  <2>1. p = o \/ p \in Matches(o, known)
    BY <1>1 DEF Kin
  <2>2. ASSUME p \in Matches(o, known) PROVE c = o
    BY <1>1, <2>2, Partner
  <2> QED BY <2>1, <2>2
<1>2. CASE IsTwoViewObservation(c)
  <2>1. p \in Matches(c, known)
    BY MatchesBack
  <2>2. IsTwoViewObservation(p) /\ Matches(p, known) = {c}
    BY <1>2, <2>1, Partner
  <2>3. p = o \/ p \in Matches(o, known)
    BY <2>2 DEF Kin
  <2>4. ASSUME p \in Matches(o, known) PROVE c = o
    BY <2>2, <2>4, MatchesBack
  <2> QED BY <2>3, <2>4
<1> QED BY <1>1, <1>2

LEMMA FoundAreKin ==
    ASSUME NEW o \in Observations
    PROVE  Kin(o, Find(o))
<1> DEFINE n == MaxTransitivity
           F == CHOOSE f : ReachedBy(f, o, n)
           S == {k \in Nat : k <= n => Kin(o, F[k])}
<1>1. n \in Nat
  BY TransitivityAssumption DEF TransitivityAssumption
<1>2. ReachedBy(F, o, n)
  BY <1>1, ReachedExists
<1>3. Transitive(o, n) = F[n] \ {o}
  BY DEF Transitive, ReachedBy, Wider
<1> HIDE DEF F, n
<1>4. F[0] = {o} /\ \A k \in 1 .. n : F[k] = Wider(F[k - 1])
  BY <1>1, <1>2 DEF ReachedBy
<1>5. 0 \in S
  BY <1>4 DEF Kin
<1>6. ASSUME NEW k \in Nat, k \in S PROVE k + 1 \in S
  <2> SUFFICES ASSUME k + 1 <= n PROVE Kin(o, F[k + 1])
    OBVIOUS
  <2>1. k + 1 \in 1 .. n /\ (k + 1) - 1 = k /\ k <= n
    BY <1>1
  <2>2. F[k + 1] = Wider(F[k]) /\ Kin(o, F[k])
    BY <1>4, <1>6, <2>1
  <2> QED BY <2>2, KinWider
<1>7. n \in S
  <2> HIDE DEF S
  <2> QED BY <1>1, <1>5, <1>6, Induction
<1>8. Kin(o, F[n])
  BY <1>1, <1>7
<1>9. Find(o) \subseteq F[n]
  BY <1>3 DEF Find, n
<1> QED BY <1>8, <1>9 DEF Kin

-----------------------------------------------------------------------------
(* What has only the match that has only it is given no point; what the calls *)
(* remember is such that they give it none.                                  *)
Pure(S) == \A o \in S : ~IsTwoViewObservation(o)

TwoViewInv ==
    /\ Pure(Triangulated) /\ Pure(task.queue) /\ Pure(task.later)
    /\ Kin(task.ref, task.corrs)
    /\ task.op = "retriangulate" =>
          \A m \in task.todo \cap PointPairs : m[2] \in Matches(m[1], known)

(* A match of an image point that has others has others too. *)
LEMMA PureMatches ==
    ASSUME NEW o, ~IsTwoViewObservation(o)
    PROVE  Pure(Matches(o, known))
<1> SUFFICES ASSUME NEW c \in Matches(o, known), IsTwoViewObservation(c) PROVE FALSE
  BY DEF Pure
<1>1. o \in Matches(c, known)
  BY MatchesBack
<1> QED BY <1>1, Partner

LEMMA TwoViewStart == TriInit => TwoViewInv
<1> SUFFICES ASSUME TriInit PROVE TwoViewInv
  OBVIOUS
<1>1. task = Resting /\ point = [o \in Observations |-> NoPoint]
  BY DEF TriInit, Init, NothingDone
<1>2. Triangulated = {}
  BY <1>1 DEF Triangulated
<1> QED BY <1>1, <1>2 DEF TwoViewInv, Resting, Pure, Kin

LEMMA TwoViewStep ==
    ASSUME TwoViewInv, known' = known,
           NEW S, Pure(S), Triangulated' \subseteq Triangulated \cup S,
           Pure(task'.queue), Pure(task'.later), Kin(task'.ref, task'.corrs),
           task'.op = "retriangulate" =>
              \A m \in task'.todo \cap PointPairs : m[2] \in Matches(m[1], known)
    PROVE  TwoViewInv'
<1>1. \A o : /\ IsTwoViewObservation(o)' <=> IsTwoViewObservation(o)
             /\ Matches(o, known)' = Matches(o, known)
  BY DEF IsTwoViewObservation, Matches
<1> QED BY <1>1 DEF TwoViewInv, Pure, Kin

(* A step that adds no point to what is no two-view track. *)
LEMMA SameTask ==
    ASSUME TwoViewInv, known' = known,
           NEW S, Pure(S), Triangulated' \subseteq Triangulated \cup S,
           task'.queue = task.queue, task'.later = task.later,
           task'.ref = task.ref, task'.corrs = task.corrs,
           task'.op = task.op, task'.todo \subseteq task.todo
    PROVE  TwoViewInv'
BY TwoViewStep DEF TwoViewInv

(* What the operations do to the image points that have a point. *)
LEMMA NothingAdded ==
    ASSUME UNCHANGED vars
    PROVE  known' = known /\ Triangulated' \subseteq Triangulated \cup {} /\ Pure({})
BY DEF vars, scene, Triangulated, Pure

LEMMA NewPointAdds ==
    ASSUME NEW T, NewPoint(T)
    PROVE  known' = known /\ Triangulated' \subseteq Triangulated \cup T
<1>1. CASE UNCHANGED vars
  BY <1>1, NothingAdded
<1>2. CASE AddPoint3D(Fresh, T)
  BY <1>2 DEF AddPoint3D, SetPoint, Triangulated
<1> QED BY <1>1, <1>2 DEF NewPoint

LEMMA ExtendAdds ==
    ASSUME NEW id, NEW o, Extend(id, o)
    PROVE  known' = known /\ Triangulated' \subseteq Triangulated \cup {o}
<1>1. CASE UNCHANGED vars
  BY <1>1, NothingAdded
<1>2. CASE AddObservation(id, o)
  BY <1>2 DEF AddObservation, SetPoint, Triangulated
<1> QED BY <1>1, <1>2 DEF Extend

LEMMA DeleteAdds ==
    ASSUME NEW o, DeleteObservation(o)
    PROVE  Triangulated' \subseteq Triangulated
<1>1. ASSUME NEW id, Delete(id) PROVE Triangulated' \subseteq Triangulated
  BY <1>1 DEF Delete, SetPoint, Triangulated
<1>2. ASSUME SetPoint({o}, NoPoint) PROVE Triangulated' \subseteq Triangulated
  BY <1>2 DEF SetPoint, Triangulated
<1> QED BY <1>1, <1>2 DEF DeleteObservation

(* Two image points that only match each other, and what was found from one   *)
(* of them: a point made of these would be theirs alone.                     *)
LEMMA CreateTwoView ==
    ASSUME NEW o, NEW C, Kin(o, C), NEW D, D \subseteq C \cup {o},
           NEW x \in D, IsTwoViewObservation(x),
           NEW T, T \subseteq D, Cardinality(T) >= 2
    PROVE  Cardinality(D) = 2
<1>1. PICK y : y \in Matches(x, known) /\ Matches(x, known) = {y}
  BY DEF IsTwoViewObservation
<1>2. IsTwoViewObservation(y) /\ Matches(y, known) = {x}
  BY <1>1, Partner
<1>3. D \subseteq {x, y}
  <2>1. CASE x = o
    BY <1>1, <2>1 DEF Kin
  <2>2. CASE x # o
    <3>1. x \in Matches(o, known)
      BY <2>2 DEF Kin
    <3>2. o = y
      BY <1>1, <3>1, MatchesBack
    <3> QED BY <1>2, <3>2 DEF Kin
  <2> QED BY <2>1, <2>2
<1>4. IsFiniteSet({x, y}) /\ Cardinality({x, y}) <= 2
  <2>1. IsFiniteSet({x}) /\ Cardinality({x}) = 1
    BY FS_Singleton
  <2>2. IsFiniteSet({x} \cup {y}) /\ Cardinality({x} \cup {y}) <= 2
    BY <2>1, FS_AddElement
  <2>3. {x} \cup {y} = {x, y}
    OBVIOUS
  <2> QED BY <2>2, <2>3
<1>5. /\ IsFiniteSet(D) /\ Cardinality(D) \in Nat /\ Cardinality({x, y}) \in Nat
      /\ Cardinality(D) <= Cardinality({x, y})
  BY <1>3, <1>4, FS_Subset, FS_CardinalityType
<1>6. Cardinality(T) \in Nat /\ Cardinality(T) <= Cardinality(D)
  BY <1>5, FS_Subset, FS_CardinalityType
<1> QED BY <1>4, <1>5, <1>6

(* The fields of the task that the steps of a call change. *)
LEMMA TaskFields ==
    ASSUME TriInv
    PROVE  /\ task \in TaskType
           /\ \A x : /\ x = Back => /\ x.op = task.op /\ x.todo = task.todo /\ x.ref = NoObs
                                    /\ x.corrs = {} /\ x.queue = task.queue /\ x.later = task.later
                     /\ [task EXCEPT !.todo = @ \ {x}] =
                            [task EXCEPT !.todo = task.todo \ {x}]
<1>1. task \in TaskType
  BY DEF TriInv, TaskOK
<1>2. /\ Back.op = task.op /\ Back.todo = task.todo /\ Back.ref = NoObs
      /\ Back.corrs = {} /\ Back.queue = task.queue /\ Back.later = task.later
  BY <1>1 DEF TaskType, Back
<1> QED BY <1>1, <1>2

LEMMA SkipTwoView ==
    ASSUME TriInv, TwoViewInv, NEW x, Skip(x) PROVE TwoViewInv'
<1>1. task' = [task EXCEPT !.todo = @ \ {x}] /\ UNCHANGED vars
  BY DEF Skip
<1>2. /\ task'.queue = task.queue /\ task'.later = task.later /\ task'.ref = task.ref
      /\ task'.corrs = task.corrs /\ task'.op = task.op /\ task'.todo \subseteq task.todo
  BY <1>1, TaskFields DEF TaskType
<1> QED BY <1>1, <1>2, NothingAdded, SameTask

LEMMA GotoTwoView ==
    ASSUME TriInv, TwoViewInv, NEW x, NEW stage, NEW o, NEW C, Kin(o, C),
           Goto(x, stage, o, C)
    PROVE  TwoViewInv'
<1>1. /\ task' = [task EXCEPT !.todo = @ \ {x}, !.stage = stage, !.ref = o, !.corrs = C]
      /\ UNCHANGED vars
  BY DEF Goto
<1>2. /\ task'.queue = task.queue /\ task'.later = task.later /\ task'.ref = o
      /\ task'.corrs = C /\ task'.op = task.op /\ task'.todo \subseteq task.todo
  BY <1>1, TaskFields DEF TaskType
<1> QED BY <1>1, <1>2, NothingAdded, TwoViewStep DEF TwoViewInv

(* The track of a point: its observations are triangulated. *)
LEMMA SearchTwoView ==
    ASSUME TriInv, TwoViewInv, NEW x, NEW id \in DOMAIN track, Search(x, id)
    PROVE  TwoViewInv'
<1>1. /\ task' = [task EXCEPT !.todo = @ \ {x}, !.stage = "complete", !.at = id,
                              !.queue = track[id], !.visited = track[id], !.level = 1]
      /\ UNCHANGED vars
  BY DEF Search
<1>2. /\ task'.queue = track[id] /\ task'.later = task.later /\ task'.ref = task.ref
      /\ task'.corrs = task.corrs /\ task'.op = task.op /\ task'.todo \subseteq task.todo
  BY <1>1, TaskFields, ZenonT(30) DEF TaskType
<1>3. track[id] \subseteq Triangulated
  BY NoneAssumption DEF TriInv, IInv, Scene, Typed, TracksAgree, Triangulated, NoneAssumption
<1>4. Pure(track[id])
  BY <1>3 DEF TwoViewInv, Pure
<1> QED BY <1>1, <1>2, <1>4, NothingAdded, TwoViewStep DEF TwoViewInv

LEMMA BeginTwoView ==
    ASSUME TwoViewInv, NEW op, NEW S, NEW B, Begin(op, S, B),
           op = "retriangulate" => S \subseteq ImagePairs
    PROVE  TwoViewInv'
<1>1. task' = [Resting EXCEPT !.op = op, !.todo = S, !.bogus = B] /\ UNCHANGED vars
  BY DEF Begin
<1>2. /\ task'.queue = {} /\ task'.later = {} /\ task'.corrs = {}
      /\ task'.op = op /\ task'.todo = S
  BY <1>1 DEF Resting
<1>3. op = "retriangulate" => S \cap PointPairs = {}
  BY IdsAssumption DEF IdsAssumption, ImagePairs, PointPairs
<1>4. Pure({}) /\ Kin(task'.ref, {})
  BY DEF Pure, Kin
<1> QED BY <1>1, <1>2, <1>3, <1>4, NothingAdded, TwoViewStep

LEMMA TriangulateNextTwoView ==
    ASSUME TriInv, TwoViewInv, NEW o \in Observations, TriangulateNext(o)
    PROVE  TwoViewInv'
<1>1. \/ Skip(o)
      \/ Goto(o, "create", o, Find(o))
      \/ Goto(o, "continue", o, Find(o))
  BY DEF TriangulateNext
<1> QED BY <1>1, SkipTwoView, GotoTwoView, FoundAreKin

(* The image point that joins has a kin with a point, which is not its only   *)
(* match.                                                                    *)
LEMMA ContinueTwoView ==
    ASSUME TriInv, TwoViewInv, Continue PROVE TwoViewInv'
<1>1. \/ task' = [task EXCEPT !.stage = "create"]
      \/ task' = Back
  BY DEF Continue
<1>2. /\ task'.queue = task.queue /\ task'.later = task.later
      /\ task'.op = task.op /\ task'.todo = task.todo
      /\ (task'.ref = task.ref /\ task'.corrs = task.corrs) \/ task'.corrs = {}
  BY <1>1, TaskFields DEF TaskType
<1>3. Kin(task'.ref, task'.corrs)
  BY <1>2 DEF TwoViewInv, Kin
<1>4. CASE UNCHANGED vars
  BY <1>2, <1>3, <1>4, NothingAdded, TwoViewStep DEF TwoViewInv
<1>5. ASSUME NEW c \in task.corrs \cap Triangulated, Extend(point[c], task.ref)
      PROVE  TwoViewInv'
  <2>1. ~IsTwoViewObservation(c)
    BY DEF TwoViewInv, Pure
  <2>2. ASSUME IsTwoViewObservation(task.ref) PROVE FALSE
    <3>1. c \in Matches(task.ref, known)
      BY <2>1, <2>2 DEF TwoViewInv, Kin
    <3> QED BY <2>1, <2>2, <3>1, Partner
  <2>3. Pure({task.ref})
    BY <2>2 DEF Pure
  <2> QED BY <1>2, <1>3, <1>5, <2>3, ExtendAdds, TwoViewStep DEF TwoViewInv
<1> QED BY <1>4, <1>5 DEF Continue

LEMMA CreateTwoViewKeeps ==
    ASSUME IgnoreTwoViewTracks, TriInv, TwoViewInv, Create PROVE TwoViewInv'
<1> DEFINE C == (task.corrs \cup {task.ref}) \ Triangulated
<1>1. task' = task \/ task' = Back
  BY DEF Create
<1>2. /\ task'.queue = task.queue /\ task'.later = task.later
      /\ task'.op = task.op /\ task'.todo = task.todo
      /\ (task'.ref = task.ref /\ task'.corrs = task.corrs) \/ task'.corrs = {}
  BY <1>1, TaskFields
<1>3. Kin(task'.ref, task'.corrs)
  BY <1>2 DEF TwoViewInv, Kin
<1>4. CASE UNCHANGED vars
  BY <1>2, <1>3, <1>4, NothingAdded, TwoViewStep DEF TwoViewInv
<1>5. ASSUME ~(IgnoreTwoViewTracks /\ Cardinality(C) = 2 /\ \E c \in C : IsTwoViewObservation(c)),
             NEW T, T \subseteq C, Cardinality(T) >= 2, NewPoint(T)
      PROVE  TwoViewInv'
  <2>1. ASSUME NEW x \in T, IsTwoViewObservation(x) PROVE FALSE
    <3>1. C \subseteq task.corrs \cup {task.ref} /\ x \in C /\ Kin(task.ref, task.corrs)
      BY <1>5, <2>1 DEF TwoViewInv
    <3> HIDE DEF C
    <3>2. Cardinality(C) = 2
      BY <1>5, <2>1, <3>1, CreateTwoView
    <3> QED BY <1>5, <2>1, <3>1, <3>2
  <2>2. Pure(T)
    BY <2>1 DEF Pure
  <2> QED BY <1>2, <1>3, <1>5, <2>2, NewPointAdds, TwoViewStep DEF TwoViewInv
<1> QED BY <1>4, <1>5 DEF Create

LEMMA CompleteNextTwoView ==
    ASSUME TriInv, TwoViewInv, NEW c \in Observations, CompleteNext(c)
    PROVE  TwoViewInv'
<1> DEFINE seen == [task EXCEPT !.visited = @ \cup {c}]
           more == IF task.level < CompleteTransitivity THEN {c} ELSE {}
<1>1. task \in TaskType /\ c \in Searched
  BY TaskFields DEF CompleteNext, First
<1>2. ~IsTwoViewObservation(c)
  <2>1. PICK o \in task.queue : c \in Matches(o, known)
    BY <1>1 DEF Searched
  <2> QED BY <2>1, PureMatches DEF TwoViewInv, Pure
<1>3. /\ seen.queue = task.queue /\ seen.later = task.later /\ seen.ref = task.ref
      /\ seen.corrs = task.corrs /\ seen.op = task.op /\ seen.todo = task.todo
  BY <1>1 DEF TaskType
<1>4. CASE task' = seen /\ UNCHANGED vars
  BY <1>3, <1>4, NothingAdded, SameTask
<1>5. CASE Extend(task.at, c) /\ task' = [seen EXCEPT !.later = @ \cup more]
  <2>1. seen \in TaskType
    BY <1>1 DEF TaskType
  <2> HIDE DEF seen
  <2>2. /\ task'.queue = task.queue /\ task'.later = task.later \cup more
        /\ task'.ref = task.ref /\ task'.corrs = task.corrs /\ task'.op = task.op
        /\ task'.todo = task.todo
    BY <1>3, <1>5, <2>1, ZenonT(30) DEF TaskType
  <2>3. Pure({c}) /\ Pure(task'.later)
    BY <1>2, <2>2 DEF TwoViewInv, Pure
  <2> QED BY <1>5, <2>2, <2>3, ExtendAdds, TwoViewStep DEF TwoViewInv
<1> QED BY <1>4, <1>5 DEF CompleteNext

LEMMA CompleteLevelTwoView ==
    ASSUME TriInv, TwoViewInv, CompleteLevel PROVE TwoViewInv'
<1>0. task \in TaskType /\ Back \in TaskType
  BY TaskFields, BackTyped
<1>1. /\ UNCHANGED vars
      /\ \/ task' = [Back EXCEPT !.at = NoPoint, !.queue = {}, !.later = {},
                                 !.visited = {}, !.level = 0]
         \/ task' = [task EXCEPT !.queue = task.later, !.later = {}, !.level = @ + 1]
  BY DEF CompleteLevel
<1>2. /\ task'.op = task.op /\ task'.todo = task.todo
      /\ task'.queue \in {{}, task.later} /\ task'.later = {}
      /\ (task'.ref = task.ref /\ task'.corrs = task.corrs) \/ task'.corrs = {}
  <2>1. CASE task' = [Back EXCEPT !.at = NoPoint, !.queue = {}, !.later = {},
                                  !.visited = {}, !.level = 0]
    <3>1. /\ task'.op = Back.op /\ task'.todo = Back.todo /\ task'.queue = {}
          /\ task'.later = {} /\ task'.corrs = Back.corrs
      BY <1>0, <2>1, ZenonT(30) DEF TaskType
    <3> QED BY <3>1, TaskFields
  <2>2. CASE task' = [task EXCEPT !.queue = task.later, !.later = {}, !.level = @ + 1]
    <3>1. /\ task'.op = task.op /\ task'.todo = task.todo /\ task'.queue = task.later
          /\ task'.later = {} /\ task'.ref = task.ref /\ task'.corrs = task.corrs
      BY <1>0, <2>2, ZenonT(30) DEF TaskType
    <3> QED BY <3>1
  <2> QED BY <1>1, <2>1, <2>2
<1>3. Kin(task'.ref, task'.corrs) /\ Pure(task'.queue) /\ Pure(task'.later)
  BY <1>2 DEF TwoViewInv, Kin, Pure
<1> QED BY <1>1, <1>2, <1>3, NothingAdded, TwoViewStep DEF TwoViewInv

LEMMA CompleteImageTwoView ==
    ASSUME IgnoreTwoViewTracks, TriInv, TwoViewInv, NEW o \in Observations,
           CompleteImageNext(o)
    PROVE  TwoViewInv'
<1>1. CASE o \in Triangulated
  BY <1>1, PointsExist, SearchTwoView DEF CompleteImageNext
<1>2. CASE Skip(o)
  BY <1>2, SkipTwoView
<1>3. ASSUME ~SkipsTwoView(o), NEW T, T \subseteq Find(o) \cup {o}, NewPoint(T),
             task' = [task EXCEPT !.todo = @ \ {o}]
      PROVE  TwoViewInv'
  <2>1. ~IsTwoViewObservation(o)
    BY <1>3 DEF SkipsTwoView
  <2>2. ASSUME NEW x \in T, IsTwoViewObservation(x) PROVE FALSE
    <3>1. x \in Find(o)
      BY <1>3, <2>1, <2>2
    <3>2. x \in Matches(o, known)
      BY <2>1, <2>2, <3>1, FoundAreKin DEF Kin
    <3> QED BY <2>1, <2>2, <3>2, PureMatches DEF Pure
  <2>3. Pure(T)
    BY <2>2 DEF Pure
  <2>4. /\ task'.queue = task.queue /\ task'.later = task.later /\ task'.ref = task.ref
        /\ task'.corrs = task.corrs /\ task'.op = task.op /\ task'.todo \subseteq task.todo
    BY <1>3, TaskFields DEF TaskType
  <2> QED BY <1>3, <2>3, <2>4, NewPointAdds, SameTask
<1> QED BY <1>1, <1>2, <1>3 DEF CompleteImageNext

LEMMA PointLoopsTwoView ==
    ASSUME TriInv, TwoViewInv, NEW id \in PointIds, CompleteTracksNext(id) \/ MergeTracksNext(id)
    PROVE  TwoViewInv'
<1>1. CASE Skip(id)
  BY <1>1, SkipTwoView
<1>2. CASE id \in DOMAIN track /\ Search(id, id)
  BY <1>2, SearchTwoView
<1>3. CASE /\ task' = [task EXCEPT !.todo = @ \ {id}, !.stage = "merge", !.at = id]
           /\ UNCHANGED vars
  <2>1. /\ task'.queue = task.queue /\ task'.later = task.later /\ task'.ref = task.ref
        /\ task'.corrs = task.corrs /\ task'.op = task.op /\ task'.todo \subseteq task.todo
    BY <1>3, TaskFields DEF TaskType
  <2> QED BY <1>3, <2>1, NothingAdded, SameTask
<1> QED BY <1>1, <1>2, <1>3 DEF CompleteTracksNext, MergeTracksNext

(* The points that are merged have their image points already. *)
LEMMA MergeTwoView ==
    ASSUME TriInv, TwoViewInv, (\E c \in Observations : MergeWith(c)) \/ MergeEnd
    PROVE  TwoViewInv'
<1>1. CASE MergeEnd
  <2>1. task' = [Back EXCEPT !.at = NoPoint] /\ UNCHANGED vars /\ Back \in TaskType
    BY <1>1, BackTyped DEF MergeEnd
  <2>2. /\ task'.op = Back.op /\ task'.todo = Back.todo /\ task'.queue = Back.queue
        /\ task'.later = Back.later /\ task'.corrs = Back.corrs
    BY <2>1, ZenonT(30) DEF TaskType
  <2>3. /\ task'.op = task.op /\ task'.todo = task.todo /\ task'.queue = task.queue
        /\ task'.later = task.later /\ task'.corrs = {}
    BY <2>2, TaskFields
  <2>4. Kin(task'.ref, task'.corrs)
    BY <2>3 DEF Kin
  <2> QED BY <2>1, <2>3, <2>4, NothingAdded, TwoViewStep DEF TwoViewInv
<1>2. ASSUME NEW c \in Observations, MergeWith(c) PROVE TwoViewInv'
  <2>1. CASE UNCHANGED <<vars, task>>
    BY <2>1, NothingAdded, SameTask
  <2>2. CASE MergePoints3D(task.at, point[c], Fresh) /\ task' = [task EXCEPT !.at = Fresh]
    <3>1. /\ task'.queue = task.queue /\ task'.later = task.later /\ task'.ref = task.ref
          /\ task'.corrs = task.corrs /\ task'.op = task.op /\ task'.todo = task.todo
      BY <2>2, TaskFields DEF TaskType
    <3>2. /\ known' = known /\ {task.at, point[c]} \subseteq DOMAIN track
          /\ SetPoint(track[task.at] \cup track[point[c]], Fresh)
      BY <2>2 DEF MergePoints3D
    <3>3. \A id \in DOMAIN track : track[id] \subseteq Triangulated
      BY NoneAssumption DEF TriInv, IInv, Scene, Typed, TracksAgree, Triangulated, NoneAssumption
    <3>4. Triangulated' \subseteq Triangulated \cup {}
      BY <3>2, <3>3 DEF SetPoint, Triangulated
    <3>5. Pure({})
      BY DEF Pure
    <3>6. task'.todo \subseteq task.todo
      BY <3>1
    <3> QED BY <3>1, <3>2, <3>4, <3>5, <3>6, SameTask
  <2> QED BY <1>2, <2>1, <2>2, Zenon DEF MergeWith
<1> QED BY <1>1, <1>2

(* The matches of a pair of images, and one of them. *)
LEMMA RetriangulateTwoView ==
    ASSUME TriInv, TwoViewInv, NEW p \in task.todo, RetriangulatePair(p) \/ RetriangulateMatch(p)
    PROVE  TwoViewInv'
<1>1. CASE Skip(p)
  BY <1>1, SkipTwoView
<1>2. CASE RetriangulatePair(p) /\ ~Skip(p)
  <2> DEFINE M == IF {p[1], p[2]} \cap task.bogus # {} THEN {}
                  ELSE {m \in Of(p[1]) \X Of(p[2]) : m[2] \in Matches(m[1], known)}
  <2>1. /\ task' = [task EXCEPT !.todo = (@ \ {p}) \cup M] /\ UNCHANGED vars
        /\ task.op = "retriangulate"
    BY <1>2 DEF RetriangulatePair, In
  <2>2. \A m \in M : m[2] \in Matches(m[1], known)
    OBVIOUS
  <2> HIDE DEF M
  <2>3. /\ task'.queue = task.queue /\ task'.later = task.later /\ task'.ref = task.ref
        /\ task'.corrs = task.corrs /\ task'.op = task.op /\ task'.todo \subseteq task.todo \cup M
    BY <2>1, TaskFields DEF TaskType
  <2>4. \A m \in task'.todo \cap PointPairs : m[2] \in Matches(m[1], known)
    BY <2>1, <2>2, <2>3 DEF TwoViewInv
  <2> QED BY <2>1, <2>3, <2>4, NothingAdded, TwoViewStep DEF TwoViewInv
<1>3. CASE RetriangulateMatch(p) /\ ~Skip(p)
  <2>1. p \in PointPairs /\ task.op = "retriangulate"
    BY <1>3 DEF RetriangulateMatch, In, PointPairs
  <2>2. p[2] \in Matches(p[1], known) /\ p[1] \in Matches(p[2], known)
    BY <2>1, MatchesBack DEF TwoViewInv
  <2>3. Kin(p[1], {p[2]}) /\ Kin(p[2], {p[1]})
    BY <2>2 DEF Kin
  <2>4. \/ Goto(p, "continue", p[2], {p[1]})
        \/ Goto(p, "continue", p[1], {p[2]})
        \/ Goto(p, "create", p[1], {p[2]})
    <3> DEFINE has == {p[1], p[2]} \cap Triangulated
    <3>1. has = {p[1], p[2]} \/ has = {p[1]} \/ has = {p[2]} \/ has = {}
      OBVIOUS
    <3> QED BY <1>3, <3>1 DEF RetriangulateMatch
  <2> QED BY <2>3, <2>4, GotoTwoView
<1> QED BY <1>1, <1>2, <1>3

LEMMA RegisterTwoView ==
    ASSUME TriInv, TwoViewInv,
           \/ \E f \in Frames : RegisterNext(f)
           \/ \E o \in Observations : RegisterInlier(o)
    PROVE  TwoViewInv'
<1>1. ASSUME NEW f \in Frames, RegisterNext(f) PROVE TwoViewInv'
  <2> DEFINE S == {o \in InFrame(f) : Matches(o, known) \cap Registered \cap Triangulated # {}}
  <2>1. RegisterFrame(f) /\ task' = [Resting EXCEPT !.op = "register", !.todo = S]
    BY <1>1 DEF RegisterNext
  <2> HIDE DEF S
  <2>2. task'.queue = {} /\ task'.later = {} /\ task'.corrs = {} /\ task'.op = "register"
    BY <2>1 DEF Resting
  <2>3. known' = known /\ Triangulated' \subseteq Triangulated \cup {}
    BY <2>1 DEF RegisterFrame, Triangulated
  <2>4. Pure({}) /\ Kin(task'.ref, {})
    BY DEF Pure, Kin
  <2> QED BY <2>2, <2>3, <2>4, TwoViewStep
<1>2. ASSUME NEW o \in Observations, RegisterInlier(o) PROVE TwoViewInv'
  <2>1. CASE Skip(o)
    BY <2>1, SkipTwoView
  <2>2. ASSUME NEW c \in Matches(o, known) \cap Triangulated, Extend(point[c], o),
               task' = [task EXCEPT !.todo = @ \ {o}]
        PROVE  TwoViewInv'
    <3>1. ~IsTwoViewObservation(c) /\ o \in Matches(c, known)
      BY MatchesBack DEF TwoViewInv, Pure
    <3>2. Pure({o})
      BY <3>1, PureMatches DEF Pure
    <3>3. /\ task'.queue = task.queue /\ task'.later = task.later /\ task'.ref = task.ref
          /\ task'.corrs = task.corrs /\ task'.op = task.op /\ task'.todo \subseteq task.todo
      BY <2>2, TaskFields DEF TaskType
    <3> QED BY <2>2, <3>2, <3>3, ExtendAdds, SameTask
  <2> QED BY <1>2, <2>1, <2>2 DEF RegisterInlier
<1> QED BY <1>1, <1>2

LEMMA FilteringTwoView ==
    ASSUME TwoViewInv, Filtering PROVE TwoViewInv'
<1>1. task' = task
  BY DEF Filtering, triangulator
<1>2. known' = known /\ Triangulated' \subseteq Triangulated
  <2>1. ASSUME NEW id, DeletePoint3D(id) PROVE known' = known /\ Triangulated' \subseteq Triangulated
    BY <2>1 DEF DeletePoint3D, Delete, SetPoint, Triangulated
  <2>2. ASSUME NEW o, DeleteOne(o) \/ DeRegisterNext(o)
        PROVE  known' = known /\ Triangulated' \subseteq Triangulated
    BY <2>2, DeleteAdds DEF DeleteOne, DeRegisterNext
  <2>3. ASSUME (\E f \in Frames : DeRegisterFrame(f)) \/ DeRegisterEnd
        PROVE  known' = known /\ Triangulated' \subseteq Triangulated
    BY <2>3 DEF DeRegisterFrame, DeRegisterEnd, scene, Triangulated
  <2> QED BY <2>1, <2>2, <2>3 DEF Filtering
<1>3. Pure({}) /\ Triangulated' \subseteq Triangulated \cup {}
  BY <1>2 DEF Pure
<1> QED BY <1>1, <1>2, <1>3, SameTask

LEMMA TwoViewKeeps ==
    ASSUME IgnoreTwoViewTracks, TriInv, TwoViewInv, [TriNext]_triVars
    PROVE  TwoViewInv'
<1>1. ASSUME NEW i \in Images, TriangulateImage(i) \/ CompleteImage(i) PROVE TwoViewInv'
  BY <1>1, BeginTwoView DEF TriangulateImage, CompleteImage
<1>2. CASE CompleteTracks \/ MergeTracks
  BY <1>2, BeginTwoView DEF CompleteTracks, MergeTracks
<1>3. CASE Retriangulate
  <2> DEFINE S == {p \in Images \X Images : p[1] < p[2] /\ NumMatches(p) > 0}
  <2>1. PICK B \in Cameras : Begin("retriangulate", S, B)
    BY <1>3 DEF Retriangulate
  <2>2. S \subseteq ImagePairs
    BY DEF ImagePairs
  <2> HIDE DEF S
  <2> QED BY <2>1, <2>2, BeginTwoView
<1>4. CASE Finish
  <2>1. task' = Resting /\ UNCHANGED vars
    BY <1>4 DEF Finish
  <2>2. Pure({}) /\ Kin(NoObs, {})
    BY DEF Pure, Kin
  <2> QED BY <2>1, <2>2, NothingAdded, TwoViewStep DEF Resting
<1>5. CASE UNCHANGED <<vars, task>>
  <2>1. task' = task /\ UNCHANGED vars
    BY <1>5
  <2> QED BY <2>1, NothingAdded, SameTask
<1>6. ASSUME NEW o \in Observations,
             TriangulateNext(o) \/ CompleteImageNext(o) \/ CompleteNext(o) \/ RegisterInlier(o)
      PROVE  TwoViewInv'
  BY <1>6, TriangulateNextTwoView, CompleteImageTwoView, CompleteNextTwoView, RegisterTwoView
<1>7. CASE UNCHANGED triVars \/ GetModifiedPoints3D \/ ClearModifiedPoints3D
  BY <1>5, <1>7 DEF triVars, triangulator, GetModifiedPoints3D, ClearModifiedPoints3D
<1>8. CASE TriNext
  BY <1>1, <1>2, <1>3, <1>4, <1>6, <1>7, <1>8, ContinueTwoView, CreateTwoViewKeeps,
     CompleteLevelTwoView, MergeTwoView, PointLoopsTwoView, RetriangulateTwoView,
     RegisterTwoView, FilteringTwoView, Zenon DEF TriNext
<1> QED BY <1>7, <1>8

(* With ignore_two_view_tracks no 3D point has an image point whose only      *)
(* match has no other match: whichever call of the triangulator finds it, by *)
(* whatever transitive matches, and whatever merges and filters come between *)
(* (incremental_triangulator.h:77).                                          *)
THEOREM TwoViewAlwaysIgnored == TriSpec => []TwoViewIgnored
<1>1. CASE IgnoreTwoViewTracks
  <2>1. TriInv /\ TwoViewInv /\ [TriNext]_triVars => TwoViewInv'
    BY <1>1, TwoViewKeeps
  <2>2. TwoViewInv => TwoViewIgnored
    BY DEF TwoViewInv, TwoViewIgnored, Pure
  <2> QED BY <2>1, <2>2, TwoViewStart, TriSpecInv, PTL DEF TriSpec
<1>2. CASE ~IgnoreTwoViewTracks
  <2>1. TwoViewIgnored
    BY <1>2 DEF TwoViewIgnored
  <2> QED BY <2>1, PTL
<1> QED BY <1>1, <1>2

===============================================================================

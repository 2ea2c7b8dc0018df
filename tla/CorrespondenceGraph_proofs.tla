----------------------- MODULE CorrespondenceGraph_proofs -----------------------
(***************************************************************************)
(* For any finite sets of images and image points and any geometries, valid *)
(* or not: the correspondences are symmetric, without duplicates and        *)
(* between different images, the counts that are kept by increments are the *)
(* numbers of them, and a geometry is handed out in the direction that is   *)
(* asked for.  For any database, options and parts of it: DatabaseCache     *)
(* fills the graph without an exception and with every match it should have. *)
(***************************************************************************)
EXTENDS DatabaseCache, FiniteSetTheorems, TLAPS

Pairs == Observations \X Observations

(* Correspondences of the table L, by the images they join. *)
Between(L, i, j) == {p \in Of(i) \X Of(j) : L[p] > 0}
From(L, i) == {p \in Of(i) \X Observations : L[p] > 0}
Seen(L, i) == {o \in Of(i) : \E c \in Observations : L[<<o, c>>] > 0}

(* The geometry that is being added is of two images, its pair is there, and *)
(* its matches are between points of them.                                   *)
AddingOK ==
    ~Idle =>
        /\ adding.image1 # adding.image2
        /\ Ends(adding) \in DOMAIN numMatches
        /\ adding.matches \in Seq((Of(adding.image1) \cup {Bogus}) \X (Of(adding.image2) \cup {Bogus}))

(* A call that has thrown leaves the count of correspondences too high.      *)
Counted ==
    /\ \A i \in Images : numObservations[i] = Cardinality(Seen(listed, i))
    /\ \A i, j \in Images : i # j /\ {i, j} \in DOMAIN numMatches =>
          numMatches[{i, j}] = Cardinality(Between(listed, i, j)) + ToGo({i, j})
    /\ \A i \in Images :
          /\ numCorrespondences[i] >= Cardinality(From(listed, i)) + ToGoOf(i)
          /\ ~thrown => numCorrespondences[i] = Cardinality(From(listed, i)) + ToGoOf(i)

IInv == TypeOK /\ AddingOK /\ Symmetric /\ Counted

-----------------------------------------------------------------------------
LEMMA OfObservations ==
    ASSUME NEW i
    PROVE  Of(i) \subseteq Observations
BY DEF Of

LEMMA FinitePoints ==
    ASSUME PointsAssumption, NEW S, S \subseteq Observations
    PROVE  IsFiniteSet(S) /\ Cardinality(S) \in Nat
BY FS_Subset, FS_CardinalityType DEF PointsAssumption

LEMMA FinitePairs ==
    ASSUME PointsAssumption, NEW S, S \subseteq Pairs
    PROVE  IsFiniteSet(S) /\ Cardinality(S) \in Nat
<1>1. IsFiniteSet(Pairs)
  BY FS_Product DEF PointsAssumption, Pairs
<1> QED
  BY <1>1, FS_Subset, FS_CardinalityType

LEMMA OneMore ==
    ASSUME PointsAssumption, NEW S, NEW T, NEW x, S \subseteq Pairs, x \notin S, T = S \cup {x}
    PROVE  Cardinality(T) = Cardinality(S) + 1
BY FinitePairs, FS_AddElement

LEMMA CountDisjoint ==
    ASSUME PointsAssumption, NEW A, NEW B, NEW C, A \subseteq Observations, B \subseteq Observations,
           A \cap B = {}, C = A \cup B
    PROVE  Cardinality(C) = Cardinality(A) + Cardinality(B)
<1>1. Cardinality(A \cup B) = Cardinality(A) + Cardinality(B) - Cardinality(A \cap B)
  BY FinitePoints, FS_Union
<1>2. Cardinality(A \cap B) = 0
  BY FS_EmptySet
<1>3. Cardinality(A) \in Nat /\ Cardinality(B) \in Nat
  BY FinitePoints
<1> QED
  BY <1>1, <1>2, <1>3

LEMMA BetweenPairs ==
    ASSUME PointsAssumption, NEW L, NEW i, NEW j
    PROVE  /\ Between(L, i, j) \subseteq Pairs /\ From(L, i) \subseteq Pairs
           /\ Seen(L, i) \subseteq Observations
           /\ Cardinality(Between(L, i, j)) \in Nat /\ Cardinality(From(L, i)) \in Nat
<1>1. Between(L, i, j) \subseteq Pairs /\ From(L, i) \subseteq Pairs
  BY OfObservations DEF Between, From, Pairs
<1>2. Seen(L, i) \subseteq Observations
  BY OfObservations DEF Seen
<1> QED
  BY <1>1, <1>2, FinitePairs

(* What the counts are about is what the queries return.                     *)
LEMMA CountedAgree == Counted => CountsAgree
<1>1. \A i : {o \in Of(i) : Listed(o) # {}} = Seen(listed, i)
  BY DEF Listed, Seen
<1> QED
  BY <1>1 DEF Counted, CountsAgree, MatchesBetween, MatchesFrom, Between, From

-----------------------------------------------------------------------------
LEMMA InitInv == Init => IInv
<1> SUFFICES ASSUME Init PROVE IInv
  OBVIOUS
<1> USE DEF Init, Empty
<1>1. TypeOK /\ AddingOK
  BY DEF TypeOK, AddingOK, Idle
<1>2. Symmetric
  BY DEF Symmetric
<1>3. Counted
  <2>1. ASSUME NEW i
        PROVE  From(listed, i) = {} /\ Seen(listed, i) = {}
    <3>1. \A p \in Of(i) \X Observations : listed[p] = 0
      BY OfObservations
    <3>2. From(listed, i) = {}
      BY <3>1 DEF From
    <3>3. \A o \in Of(i), c \in Observations : ~(listed[<<o, c>>] > 0)
      BY <3>1
    <3>4. Seen(listed, i) = {}
      BY <3>3, Zenon DEF Seen
    <3> QED
      BY <3>2, <3>4
  <2>2. \A i : ToGoOf(i) = 0
    BY DEF ToGoOf, NoGeometry
  <2>3. /\ \A i \in Images : numObservations[i] = 0 /\ numCorrespondences[i] = 0
        /\ DOMAIN numMatches = {}
    OBVIOUS
  <2>4. \A i \in Images : Cardinality(From(listed, i)) = 0 /\ Cardinality(Seen(listed, i)) = 0
    BY <2>1, FS_EmptySet
  <2> QED
    BY <2>2, <2>3, <2>4 DEF Counted
<1> QED
  BY <1>1, <1>2, <1>3 DEF IInv

(* Nothing is listed between images that are not a pair.                     *)
LEMMA NothingListed ==
    ASSUME Symmetric, NEW i \in Images, NEW j \in Images, {i, j} \notin DOMAIN numMatches
    PROVE  Between(listed, i, j) = {}
<1> SUFFICES ASSUME NEW o \in Of(i), NEW c \in Of(j), listed[<<o, c>>] > 0 PROVE FALSE
  BY DEF Between
<1>1. o \in Observations /\ c \in Observations /\ ImageOf[o] = i /\ ImageOf[c] = j
  BY DEF Of
<1> QED
  BY <1>1 DEF Symmetric

LEMMA AddInv ==
    ASSUME PointsAssumption, IInv, NEW g \in Geometry, Fits(g), AddTwoViewGeometry(g)
    PROVE  IInv'
<1> DEFINE pair == Ends(g)
           n == Len(g.matches)
<1>1. /\ g \in Geometry /\ n \in Nat /\ g.image1 \in Images /\ g.image2 \in Images
      /\ g.image1 # g.image2 /\ pair \subseteq images /\ Idle
      /\ pair = {g.image1, g.image2}
      /\ UNCHANGED <<images, listed, numObservations, finalized>>
  BY DEF Geometry, AddTwoViewGeometry, Ends
<1>2. /\ numCorrespondences \in [Images -> Nat]
      /\ numCorrespondences' =
            [i \in Images |-> numCorrespondences[i] + IF i \in pair THEN n ELSE 0]
  BY DEF AddTwoViewGeometry, Count, IInv, TypeOK
<1>3. \A i : ToGoOf(i) = 0
  BY <1>1 DEF Idle, ToGoOf, NoGeometry
<1>4. CASE pair \in DOMAIN numMatches
  <2>1. thrown' /\ UNCHANGED <<numMatches, direction, adding>>
    BY <1>4 DEF AddTwoViewGeometry
  <2>2. TypeOK'
    <3>1. numCorrespondences' \in [Images -> Nat]
      BY <1>1, <1>2
    <3> QED
      BY <1>1, <2>1, <3>1 DEF IInv, TypeOK
  <2>3. AddingOK' /\ Symmetric'
    BY <1>1, <2>1 DEF IInv, AddingOK, Symmetric, Idle, Ends
  <2>4. \A i : ToGoOf(i)' = ToGoOf(i) /\ ToGo({i})' = ToGo({i})
    BY <2>1 DEF ToGoOf, ToGo, Ends
  <2>5. Counted'
    <3>1. \A i \in Images : numCorrespondences'[i] >= Cardinality(From(listed, i)) + ToGoOf(i)
      <4> TAKE i \in Images
      <4>1. Cardinality(From(listed, i)) \in Nat
        BY BetweenPairs
      <4> QED
        BY <1>1, <1>2, <1>3, <4>1 DEF IInv, Counted
    <3> QED
      BY <1>1, <2>1, <3>1 DEF IInv, Counted, ToGoOf, ToGo, Ends
  <2> QED
    BY <2>2, <2>3, <2>5 DEF IInv
<1>5. CASE pair \notin DOMAIN numMatches
  <2>1. /\ numMatches' = Extended(numMatches, pair, n)
        /\ direction' = Extended(direction, pair, Kept(<<g.image1, g.image2>>))
        /\ adding' = g /\ thrown' = thrown
    BY <1>5 DEF AddTwoViewGeometry
  <2>2. /\ DOMAIN numMatches' = DOMAIN numMatches \cup {pair}
        /\ numMatches'[pair] = n
        /\ \A p \in DOMAIN numMatches : numMatches'[p] = numMatches[p]
    BY <1>5, <2>1 DEF Extended
  <2>3. Kept(<<g.image1, g.image2>>) \in images \X images
    BY <1>1 DEF Kept, Invert
  <2>4. TypeOK'
    <3>1. direction' \in [DOMAIN numMatches' -> images \X images]
      BY <2>1, <2>2, <2>3 DEF IInv, TypeOK, Extended
    <3>2. numMatches' \in [DOMAIN numMatches' -> Nat]
      BY <1>1, <2>1, <2>2 DEF IInv, TypeOK, Extended
    <3>3. numCorrespondences' \in [Images -> Nat]
      BY <1>1, <1>2
    <3>4. DOMAIN numMatches' \subseteq SUBSET images
      BY <1>1, <2>2 DEF IInv, TypeOK
    <3> QED
      BY <1>1, <2>1, <3>1, <3>2, <3>3, <3>4 DEF IInv, TypeOK
  <2>5. AddingOK'
    BY <1>1, <2>1, <2>2
    DEF AddingOK, Ends, Fits, Geometry
  <2>6. Symmetric'
    BY <1>1, <2>2 DEF IInv, Symmetric
  <2>7. Counted'
    <3>1. ASSUME NEW i \in Images, NEW j \in Images, i # j, {i, j} \in DOMAIN numMatches'
          PROVE  numMatches'[{i, j}] = Cardinality(Between(listed', i, j)) + ToGo({i, j})'
      <4>1. CASE {i, j} = pair
        <5>1. ToGo({i, j})' = n
          BY <2>1, <4>1 DEF ToGo
        <5>2. Cardinality(Between(listed', i, j)) = 0
          BY <1>1, <1>5, <4>1, NothingListed, FS_EmptySet DEF IInv
        <5>3. numMatches'[{i, j}] = n
          BY <2>2, <4>1, Zenon
        <5> HIDE DEF n, pair
        <5> QED
          BY <1>1, <5>1, <5>2, <5>3
      <4>2. CASE {i, j} # pair
        <5>1. ToGo({i, j})' = 0 /\ ToGo({i, j}) = 0
          BY <1>1, <2>1, <4>2 DEF ToGo, Idle, NoGeometry
        <5>2. {i, j} \in DOMAIN numMatches /\ numMatches'[{i, j}] = numMatches[{i, j}]
          BY <2>2, <3>1, <4>2
        <5>3. numMatches[{i, j}] = Cardinality(Between(listed, i, j)) + ToGo({i, j})
          BY <3>1, <5>2 DEF IInv, Counted
        <5> QED
          BY <1>1, <5>1, <5>2, <5>3
      <4> QED
        BY <4>1, <4>2
    <3>2. ASSUME NEW i \in Images
          PROVE  /\ numCorrespondences'[i] >= Cardinality(From(listed', i)) + ToGoOf(i)'
                 /\ ~thrown' => numCorrespondences'[i] = Cardinality(From(listed', i)) + ToGoOf(i)'
      <4>1. ToGoOf(i)' = IF i \in pair THEN n ELSE 0
        BY <2>1 DEF ToGoOf
      <4>2. Cardinality(From(listed, i)) \in Nat
        BY BetweenPairs
      <4> QED
        BY <1>1, <1>2, <1>3, <2>1, <4>1, <4>2 DEF IInv, Counted
    <3>3. \A i \in Images : numObservations'[i] = Cardinality(Seen(listed', i))
      BY <1>1 DEF IInv, Counted
    <3> QED
      BY <3>1, <3>2, <3>3 DEF Counted
  <2> QED
    BY <2>4, <2>5, <2>6, <2>7 DEF IInv
<1> QED
  BY <1>4, <1>5

-----------------------------------------------------------------------------
(* The match at hand, as a pair of points of the two images or an index      *)
(* that no point has.                                                        *)
LEMMA Hand ==
    ASSUME IInv, adding.matches # <<>>
    PROVE  /\ ~Idle /\ adding.image1 \in Images /\ adding.image2 \in Images
           /\ adding.image1 # adding.image2 /\ Ends(adding) \in DOMAIN numMatches
           /\ adding \in Geometry
           /\ Head(adding.matches) \in
                 (Of(adding.image1) \cup {Bogus}) \X (Of(adding.image2) \cup {Bogus})
           /\ Len(adding.matches) \in Nat \ {0}
<1>1. ~Idle /\ adding \in Geometry
  BY DEF IInv, TypeOK, Idle, NoGeometry
<1>2. adding.matches \in Seq((Of(adding.image1) \cup {Bogus}) \X (Of(adding.image2) \cup {Bogus}))
  BY <1>1 DEF IInv, AddingOK
<1>3. /\ Head(adding.matches) \in
            (Of(adding.image1) \cup {Bogus}) \X (Of(adding.image2) \cup {Bogus})
      /\ Len(adding.matches) \in Nat \ {0}
  <2> DEFINE S == (Of(adding.image1) \cup {Bogus}) \X (Of(adding.image2) \cup {Bogus})
             m == adding.matches
  <2>1. m \in Seq(S) /\ m # <<>>
    BY <1>2
  <2> HIDE DEF S, m
  <2>2. Head(m) \in S /\ Len(m) \in Nat \ {0}
    BY <2>1
  <2> QED
    BY <2>2 DEF S, m
<1> QED
  BY <1>1, <1>3 DEF IInv, AddingOK, Geometry

(* The rest of the matches, and what is counted of them.                     *)
LEMMA Gone ==
    ASSUME IInv, adding.matches # <<>>, adding' = Rest
    PROVE  /\ adding' \in Geometry /\ Ends(adding)' = Ends(adding)
           /\ adding'.image1 = adding.image1 /\ adding'.image2 = adding.image2
           /\ adding'.matches \in
                Seq((Of(adding.image1) \cup {Bogus}) \X (Of(adding.image2) \cup {Bogus}))
           /\ \A p : ToGo(p) \in Nat /\
                 ToGo(p)' = ToGo(p) - IF p = Ends(adding) THEN 1 ELSE 0
           /\ \A i : ToGoOf(i) \in Nat /\
                 ToGoOf(i)' = ToGoOf(i) - IF i \in Ends(adding) THEN 1 ELSE 0
<1>1. adding \in Geometry /\ ~Idle
  BY Hand
<1>2. adding' = [image1 |-> adding.image1, image2 |-> adding.image2,
                 matches |-> Tail(adding.matches)]
  BY <1>1 DEF Rest, Geometry
<1> DEFINE S == (Of(adding.image1) \cup {Bogus}) \X (Of(adding.image2) \cup {Bogus})
           T == (Observations \cup {Bogus}) \X (Observations \cup {Bogus})
           m == adding.matches
<1>3. m \in Seq(S) /\ m \in Seq(T) /\ m # <<>>
  BY <1>1 DEF IInv, AddingOK, Geometry
<1> HIDE DEF S, T, m
<1>4. Tail(m) \in Seq(S) /\ Tail(m) \in Seq(T) /\ Len(Tail(m)) = Len(m) - 1 /\ Len(m) \in Nat
  BY <1>3
<1> USE DEF m
<1>5. adding' \in Geometry
  BY <1>1, <1>2, <1>4 DEF Geometry, T
<1>6. Ends(adding)' = Ends(adding)
  BY <1>2 DEF Ends
<1>7. \A p : ToGo(p) \in Nat /\ ToGo(p)' = ToGo(p) - IF p = Ends(adding) THEN 1 ELSE 0
  <2> TAKE p
  <2> DEFINE e == Ends(adding)
             r == Tail(m)
  <2>1. ToGo(p) = IF e = p THEN Len(m) ELSE 0
    BY Zenon DEF ToGo
  <2>2. adding'.matches = r
    BY <1>2
  <2>3. ToGo(p)' = IF e = p THEN Len(r) ELSE 0
    BY <1>6, <2>2, Zenon DEF ToGo
  <2>4. Len(r) = Len(m) - 1 /\ Len(m) \in Nat /\ Len(r) \in Nat
    BY <1>4
  <2> HIDE DEF m, e, r
  <2> DEFINE d == IF p = e THEN 1 ELSE 0
             x == ToGo(p)
             y == ToGo(p)'
  <2>5. x \in Nat /\ y = x - d
    <3>1. CASE e = p
      <4>1. x = Len(m) /\ y = Len(r) /\ d = 1
        BY <2>1, <2>3, <3>1, Zenon
      <4> HIDE DEF x, y, d
      <4> QED
        BY <2>4, <4>1
    <3>2. CASE e # p
      <4>1. x = 0 /\ y = 0 /\ d = 0
        BY <2>1, <2>3, <3>2, Zenon
      <4> HIDE DEF x, y, d
      <4> QED
        BY <4>1
    <3> QED
      BY <3>1, <3>2
  <2> QED
    BY <2>5, Zenon DEF e
<1>8. \A i : ToGoOf(i) \in Nat /\ ToGoOf(i)' = ToGoOf(i) - IF i \in Ends(adding) THEN 1 ELSE 0
  BY <1>2, <1>4, <1>6 DEF ToGoOf
<1> QED
  BY <1>2, <1>4, <1>5, <1>6, <1>7, <1>8 DEF S

LEMMA SkipInv == ASSUME PointsAssumption, IInv, SkipMatch PROVE IInv'
<1>1. /\ adding.matches # <<>> /\ adding' = Rest
      /\ UNCHANGED <<images, listed, numObservations, direction, finalized, thrown>>
      /\ numMatches' = [numMatches EXCEPT ![Ends(adding)] = @ - 1]
      /\ numCorrespondences' =
            [i \in Images |-> numCorrespondences[i] + IF i \in Ends(adding) THEN -1 ELSE 0]
  BY DEF SkipMatch, Count
<1> DEFINE pair == Ends(adding)
<1>2. /\ pair \in DOMAIN numMatches /\ pair = {adding.image1, adding.image2}
      /\ adding.image1 \in Images /\ adding.image2 \in Images
      /\ adding.image1 # adding.image2
      /\ Len(adding.matches) \in Nat \ {0}
  BY <1>1, Hand DEF Ends
<1>3. /\ \A p : ToGo(p) \in Nat /\ ToGo(p)' = ToGo(p) - IF p = pair THEN 1 ELSE 0
      /\ \A i : ToGoOf(i) \in Nat /\ ToGoOf(i)' = ToGoOf(i) - IF i \in pair THEN 1 ELSE 0
      /\ adding' \in Geometry /\ Ends(adding)' = pair
      /\ adding'.image1 = adding.image1 /\ adding'.image2 = adding.image2
      /\ adding'.matches \in
                Seq((Of(adding.image1) \cup {Bogus}) \X (Of(adding.image2) \cup {Bogus}))
  BY <1>1, Gone
<1>4. ToGo(pair) = Len(adding.matches) /\ \A i \in pair : ToGoOf(i) = Len(adding.matches)
  BY DEF ToGo, ToGoOf
<1> HIDE DEF pair
<1>5. /\ DOMAIN numMatches' = DOMAIN numMatches
      /\ numMatches'[pair] = numMatches[pair] - 1
      /\ \A p \in DOMAIN numMatches : p # pair => numMatches'[p] = numMatches[p]
  BY <1>1, <1>2, Zenon DEF pair
<1>6. numMatches[pair] = Cardinality(Between(listed, adding.image1, adding.image2)) + ToGo(pair)
  BY <1>2, Zenon DEF IInv, Counted
<1>7. numMatches[pair] - 1 \in Nat
  BY <1>2, <1>4, <1>6, BetweenPairs
<1>8. TypeOK'
  <2>1. numMatches' \in [DOMAIN numMatches' -> Nat]
    <3>1. numMatches \in [DOMAIN numMatches -> Nat]
      BY DEF IInv, TypeOK
    <3>2. \A p \in DOMAIN numMatches : numMatches'[p] \in Nat
      <4> TAKE p \in DOMAIN numMatches
      <4>1. CASE p = pair
        BY <1>5, <1>7, <4>1, Zenon
      <4>2. CASE p # pair
        BY <1>5, <3>1, <4>2, Zenon
      <4> QED
        BY <4>1, <4>2
    <3>3. numMatches' = [p \in DOMAIN numMatches |-> numMatches'[p]]
      BY <1>1, Zenon
    <3> QED
      BY <1>5, <3>2, <3>3, Zenon
  <2>2. numCorrespondences' \in [Images -> Nat]
    <3>1. \A i \in Images : i \in pair => numCorrespondences[i] >= 1
      <4> TAKE i \in Images
      <4>1. Cardinality(From(listed, i)) \in Nat
        BY BetweenPairs
      <4> QED
        BY <1>2, <1>4, <4>1 DEF IInv, TypeOK, Counted
    <3> QED
      BY <1>1, <3>1 DEF IInv, TypeOK, pair
  <2> QED
    BY <1>1, <1>3, <1>5, <2>1, <2>2 DEF IInv, TypeOK
<1>9. AddingOK'
  BY <1>2, <1>3, <1>5 DEF AddingOK
<1>10. Symmetric'
  BY <1>1, <1>5 DEF IInv, Symmetric
<1>11. Counted'
  <2>1. ASSUME NEW i \in Images, NEW j \in Images, i # j, {i, j} \in DOMAIN numMatches'
        PROVE  numMatches'[{i, j}] = Cardinality(Between(listed', i, j)) + ToGo({i, j})'
    <3> DEFINE p == {i, j}
    <3>1. p \in DOMAIN numMatches /\ numMatches[p] = Cardinality(Between(listed, i, j)) + ToGo(p)
      BY <1>5, <2>1 DEF IInv, Counted
    <3>2. ToGo(p)' = ToGo(p) - IF p = pair THEN 1 ELSE 0
      BY <1>3, Zenon
    <3>3. ToGo(p) \in Nat /\ Cardinality(Between(listed, i, j)) \in Nat /\ listed' = listed
      BY <1>1, <1>3, BetweenPairs
    <3> HIDE DEF p
    <3>4. numMatches'[p] = Cardinality(Between(listed', i, j)) + ToGo(p)'
      <4>1. CASE p = pair
        BY <1>5, <3>1, <3>2, <3>3, <4>1
      <4>2. CASE p # pair
        BY <1>5, <3>1, <3>2, <3>3, <4>2
      <4> QED
        BY <4>1, <4>2
    <3> QED
      BY <3>4 DEF p
  <2>2. ASSUME NEW i \in Images
        PROVE  /\ numCorrespondences'[i] >= Cardinality(From(listed', i)) + ToGoOf(i)'
               /\ ~thrown' => numCorrespondences'[i] = Cardinality(From(listed', i)) + ToGoOf(i)'
    <3>1. Cardinality(From(listed, i)) \in Nat
      BY BetweenPairs
    <3>2. numCorrespondences'[i] = numCorrespondences[i] + IF i \in pair THEN -1 ELSE 0
      BY <1>1 DEF pair
    <3>3. /\ numCorrespondences[i] >= Cardinality(From(listed, i)) + ToGoOf(i)
          /\ ~thrown => numCorrespondences[i] = Cardinality(From(listed, i)) + ToGoOf(i)
          /\ numCorrespondences[i] \in Nat
      BY DEF IInv, TypeOK, Counted
    <3> QED
      BY <1>1, <1>3, <3>1, <3>2, <3>3
  <2>3. \A i \in Images : numObservations'[i] = Cardinality(Seen(listed', i))
    BY <1>1 DEF IInv, Counted
  <2> QED
    BY <2>1, <2>2, <2>3 DEF Counted
<1> QED
  BY <1>8, <1>9, <1>10, <1>11 DEF IInv

(* M lists the correspondence of a and b on top of those of L.               *)
Lists(L, M, a, b) ==
    /\ L \in [Pairs -> Nat] /\ L[<<a, b>>] = 0 /\ L[<<b, a>>] = 0
    /\ M = [p \in Pairs |-> IF p = <<a, b>> \/ p = <<b, a>> THEN 1 ELSE L[p]]

(* The table of correspondences has two entries more.                        *)
LEMMA Listing ==
    ASSUME IInv, AddMatch
    PROVE  \E a \in Of(adding.image1), b \in Of(adding.image2) :
              /\ Head(adding.matches) = <<a, b>>
              /\ listed[<<a, b>>] = 0 /\ listed[<<b, a>>] = 0
              /\ listed' \in [Pairs -> Nat]
              /\ listed' = [p \in Pairs |->
                    IF p = <<a, b>> \/ p = <<b, a>> THEN 1 ELSE listed[p]]
<1>1. /\ adding.matches # <<>> /\ New(Head(adding.matches), adding)
      /\ listed' = [p \in DOMAIN listed |-> listed[p] +
            IF p = Head(adding.matches) \/ p = Invert(Head(adding.matches)) THEN 1 ELSE 0]
  BY DEF AddMatch
<1>2. Head(adding.matches) \in (Of(adding.image1) \cup {Bogus}) \X (Of(adding.image2) \cup {Bogus})
  BY <1>1, Hand
<1> DEFINE m == Head(adding.matches)
           a == m[1]
           b == m[2]
<1>3. m = <<a, b>> /\ a \in Of(adding.image1) /\ b \in Of(adding.image2)
  BY <1>1, <1>2 DEF New, Valid, Points
<1>4. a \in Observations /\ b \in Observations
  BY <1>3, OfObservations
<1>5. ~(listed[<<a, b>>] > 0)
  BY <1>1, <1>4, Zenon DEF New, Duplicate, Listed
<1>6. listed \in [Pairs -> Nat]
  BY DEF IInv, TypeOK, Pairs
<1>7. listed[<<a, b>>] = 0 /\ listed[<<b, a>>] = 0
  <2>1. listed[<<a, b>>] \in Nat /\ listed[<<a, b>>] = listed[<<b, a>>]
    BY <1>4, <1>6 DEF IInv, Symmetric, Pairs
  <2> QED
    BY <1>5, <2>1
<1>8. listed' = [p \in Pairs |-> listed[p] + IF p = <<a, b>> \/ p = <<b, a>> THEN 1 ELSE 0]
  <2>1. m = <<a, b>> /\ Invert(m) = <<b, a>> /\ DOMAIN listed = Pairs
    BY <1>3, <1>6 DEF Invert
  <2> HIDE DEF a, b
  <2> QED
    BY <1>1, <2>1, Zenon
<1> HIDE DEF a, b
<1>9. \A p \in Pairs : listed[p] + (IF p = <<a, b>> \/ p = <<b, a>> THEN 1 ELSE 0)
                      = IF p = <<a, b>> \/ p = <<b, a>> THEN 1 ELSE listed[p]
  BY <1>6, <1>7
<1>10. listed' = [p \in Pairs |-> IF p = <<a, b>> \/ p = <<b, a>> THEN 1 ELSE listed[p]]
  BY <1>8, <1>9, Zenon
<1>11. listed' \in [Pairs -> Nat]
  BY <1>6, <1>10
<1> QED
  BY <1>3, <1>7, <1>10, <1>11

(* What two entries more, between images i and j, make of the counted sets.  *)
LEMMA Grown ==
    ASSUME PointsAssumption, NEW L, NEW M, NEW i \in Images, NEW j \in Images, i # j,
           NEW a \in Of(i), NEW b \in Of(j), Lists(L, M, a, b),
           NEW x \in Images, NEW y \in Images
    PROVE  /\ Cardinality(Between(M, x, y)) = Cardinality(Between(L, x, y)) +
                 IF (x = i /\ y = j) \/ (x = j /\ y = i) THEN 1 ELSE 0
           /\ Cardinality(From(M, x)) = Cardinality(From(L, x)) +
                 IF x = i \/ x = j THEN 1 ELSE 0
<1>1. /\ a \in Observations /\ b \in Observations
      /\ ImageOf[a] = i /\ ImageOf[b] = j /\ <<a, b>> \in Pairs /\ <<b, a>> \in Pairs
  BY DEF Of, Pairs
<1>2. \A p \in Pairs : M[p] > 0 <=> p = <<a, b>> \/ p = <<b, a>> \/ L[p] > 0
  BY DEF Lists
<1>3. \A p \in Of(x) \X Of(y) : p \in Pairs
  BY OfObservations DEF Pairs
<1>4. \A p \in Of(x) \X Observations : p \in Pairs
  BY OfObservations DEF Pairs
<1>5. /\ <<a, b>> \in Of(x) \X Of(y) <=> x = i /\ y = j
      /\ <<b, a>> \in Of(x) \X Of(y) <=> x = j /\ y = i
      /\ <<a, b>> \in Of(x) \X Observations <=> x = i
      /\ <<b, a>> \in Of(x) \X Observations <=> x = j
  BY <1>1 DEF Of
<1>6. /\ <<a, b>> \notin Between(L, x, y) /\ <<b, a>> \notin Between(L, x, y)
      /\ <<a, b>> \notin From(L, x) /\ <<b, a>> \notin From(L, x)
  BY DEF Between, From, Lists
<1>7. /\ Between(L, x, y) \subseteq Pairs /\ From(L, x) \subseteq Pairs
      /\ Cardinality(Between(L, x, y)) \in Nat /\ Cardinality(From(L, x)) \in Nat
  BY BetweenPairs
<1>8. Cardinality(Between(M, x, y)) = Cardinality(Between(L, x, y)) +
          IF (x = i /\ y = j) \/ (x = j /\ y = i) THEN 1 ELSE 0
  <2>1. CASE x = i /\ y = j
    <3>1. Between(M, x, y) = Between(L, x, y) \cup {<<a, b>>}
      BY <1>2, <1>3, <1>5, <2>1 DEF Between
    <3>2. Cardinality(Between(M, x, y)) = Cardinality(Between(L, x, y)) + 1
      BY <1>6, <1>7, <3>1, OneMore
    <3> QED
      BY <2>1, <3>2
  <2>2. CASE x = j /\ y = i
    <3>1. Between(M, x, y) = Between(L, x, y) \cup {<<b, a>>}
      BY <1>2, <1>3, <1>5, <2>2 DEF Between
    <3>2. Cardinality(Between(M, x, y)) = Cardinality(Between(L, x, y)) + 1
      BY <1>6, <1>7, <3>1, OneMore
    <3> QED
      BY <2>2, <3>2
  <2>3. CASE ~((x = i /\ y = j) \/ (x = j /\ y = i))
    <3>1. Between(M, x, y) = Between(L, x, y)
      BY <1>2, <1>3, <1>5, <2>3 DEF Between
    <3> QED
      BY <1>7, <2>3, <3>1
  <2> QED
    BY <2>1, <2>2, <2>3
<1>9. Cardinality(From(M, x)) = Cardinality(From(L, x)) + IF x = i \/ x = j THEN 1 ELSE 0
  <2>1. CASE x = i
    <3>1. From(M, x) = From(L, x) \cup {<<a, b>>}
      BY <1>2, <1>4, <1>5, <2>1 DEF From
    <3>2. Cardinality(From(M, x)) = Cardinality(From(L, x)) + 1
      BY <1>6, <1>7, <3>1, OneMore
    <3> QED
      BY <2>1, <3>2
  <2>2. CASE x = j
    <3>1. From(M, x) = From(L, x) \cup {<<b, a>>}
      BY <1>2, <1>4, <1>5, <2>2 DEF From
    <3>2. Cardinality(From(M, x)) = Cardinality(From(L, x)) + 1
      BY <1>6, <1>7, <3>1, OneMore
    <3> QED
      BY <2>2, <3>2
  <2>3. CASE x # i /\ x # j
    <3>1. From(M, x) = From(L, x)
      BY <1>2, <1>4, <1>5, <2>3 DEF From
    <3> QED
      BY <1>7, <2>3, <3>1
  <2> QED
    BY <2>1, <2>2, <2>3
<1> QED
  BY <1>8, <1>9

(* An image observes more when one of the two points had nothing listed.     *)
LEMMA SeenGrown ==
    ASSUME PointsAssumption, NEW L, NEW M, NEW a \in Observations, NEW b \in Observations, NEW x \in Images,
           Lists(L, M, a, b), NEW N, N \subseteq Of(x),
           \A o \in Of(x) : o \in N <=> o \in {a, b} /\ o \notin Seen(L, x)
    PROVE  Cardinality(Seen(M, x)) = Cardinality(Seen(L, x)) + Cardinality(N)
<1>1. \A p \in Pairs : M[p] > 0 <=> p = <<a, b>> \/ p = <<b, a>> \/ L[p] > 0
  BY DEF Lists
<1>2. \A o \in Observations, c \in Observations : <<o, c>> \in Pairs
  BY DEF Pairs
<1>3. \A o \in Of(x) : o \in Seen(L, x) <=> \E c \in Observations : L[<<o, c>>] > 0
  BY DEF Seen
<1>4. \A o \in Of(x) : o \in N <=> o \in {a, b} /\ o \notin Seen(L, x)
  OBVIOUS
<1>5. \A o \in Of(x) : o \in Seen(M, x) <=> o \in Seen(L, x) \/ o \in {a, b}
  <2> TAKE o \in Of(x)
  <2>1. o \in Observations
    BY OfObservations
  <2>2. o \in Seen(M, x) <=> \E c \in Observations : M[<<o, c>>] > 0
    BY DEF Seen
  <2>3. \A c \in Observations : M[<<o, c>>] > 0 <=> (o = a /\ c = b) \/ (o = b /\ c = a) \/ L[<<o, c>>] > 0
    BY <1>1, <1>2, <2>1
  <2> QED
    BY <1>3, <2>2, <2>3
<1>6. Seen(L, x) \subseteq Of(x) /\ Seen(M, x) \subseteq Of(x) /\ N \subseteq Of(x)
  BY DEF Seen
<1> HIDE DEF Seen
<1>7. Seen(M, x) = Seen(L, x) \cup N /\ Seen(L, x) \cap N = {}
  BY <1>4, <1>5, <1>6
<1>8. Seen(L, x) \subseteq Observations /\ N \subseteq Observations
  BY <1>6, OfObservations
<1> QED
  BY <1>7, <1>8, CountDisjoint

LEMMA AddMatchInv == ASSUME PointsAssumption, IInv, AddMatch PROVE IInv'
<1>1. /\ adding.matches # <<>> /\ adding' = Rest
      /\ UNCHANGED <<images, numCorrespondences, numMatches, direction, finalized, thrown>>
      /\ numObservations' = [i \in Images |-> numObservations[i] +
            Cardinality({o \in Of(i) : Observes(Head(adding.matches), o)})]
  BY DEF AddMatch
<1> DEFINE i1 == adding.image1
           i2 == adding.image2
           pair == Ends(adding)
<1>2. /\ pair \in DOMAIN numMatches /\ pair = {i1, i2}
      /\ i1 \in Images /\ i2 \in Images /\ i1 # i2
  BY <1>1, Hand DEF Ends
<1>3. /\ \A p : ToGo(p) \in Nat /\ ToGo(p)' = ToGo(p) - IF p = pair THEN 1 ELSE 0
      /\ \A i : ToGoOf(i) \in Nat /\ ToGoOf(i)' = ToGoOf(i) - IF i \in pair THEN 1 ELSE 0
      /\ adding' \in Geometry /\ Ends(adding)' = pair
      /\ adding'.image1 = i1 /\ adding'.image2 = i2
      /\ adding'.matches \in Seq((Of(i1) \cup {Bogus}) \X (Of(i2) \cup {Bogus}))
  BY <1>1, Gone
<1>4. PICK a \in Of(i1), b \in Of(i2) :
          /\ Head(adding.matches) = <<a, b>>
          /\ listed[<<a, b>>] = 0 /\ listed[<<b, a>>] = 0
          /\ listed' \in [Pairs -> Nat]
          /\ listed' = [p \in Pairs |->
                IF p = <<a, b>> \/ p = <<b, a>> THEN 1 ELSE listed[p]]
  BY Listing
<1>5. /\ a \in Observations /\ b \in Observations /\ ImageOf[a] = i1 /\ ImageOf[b] = i2
      /\ listed \in [Pairs -> Nat]
  BY <1>4 DEF Of, IInv, TypeOK, Pairs
<1> DEFINE L == listed
           M == listed'
           m == Head(adding.matches)
<1> HIDE DEF pair, i1, i2
<1>13. Lists(L, M, a, b) /\ m = <<a, b>>
  BY <1>4, <1>5 DEF Lists
<1>14. \A x \in Images, y \in Images :
          /\ Cardinality(Between(M, x, y)) = Cardinality(Between(L, x, y)) +
                 IF (x = i1 /\ y = i2) \/ (x = i2 /\ y = i1) THEN 1 ELSE 0
          /\ Cardinality(From(M, x)) = Cardinality(From(L, x)) +
                 IF x = i1 \/ x = i2 THEN 1 ELSE 0
  <2> HIDE DEF L, M, m
  <2> QED
    BY <1>2, <1>13, Grown
<1>6. \A i \in Images : numObservations'[i] = Cardinality(Seen(listed', i))
  <2> TAKE i \in Images
  <2> DEFINE N == {o \in Of(i) : Observes(m, o)}
  <2>1. \A o \in Of(i) : o \in N <=> o \in {a, b} /\ o \notin Seen(L, i)
    <3> TAKE o \in Of(i)
    <3>1. o \in Observations
      BY OfObservations
    <3>2. Listed(o) = {} <=> o \notin Seen(L, i)
      BY Zenon DEF Listed, Seen
    <3>3. m[1] = a /\ m[2] = b
      BY <1>13
    <3> QED
      BY <3>2, <3>3, Zenon DEF Observes
  <2>2. N \subseteq Of(i)
    OBVIOUS
  <2>3. numObservations'[i] = numObservations[i] + Cardinality(N)
    BY <1>1
  <2>4. numObservations[i] = Cardinality(Seen(L, i))
    BY DEF IInv, Counted
  <2> HIDE DEF N, L, M, m
  <2>5. Cardinality(Seen(M, i)) = Cardinality(Seen(L, i)) + Cardinality(N)
    BY <1>5, <1>13, <2>1, <2>2, SeenGrown
  <2>6. numObservations'[i] = Cardinality(Seen(M, i))
    BY <2>3, <2>4, <2>5
  <2> QED
    BY <2>6 DEF M
<1>7. ASSUME NEW i \in Images, NEW j \in Images, i # j, {i, j} \in DOMAIN numMatches'
      PROVE  numMatches'[{i, j}] = Cardinality(Between(listed', i, j)) + ToGo({i, j})'
  <2> DEFINE p == {i, j}
             x == Cardinality(Between(listed, i, j))
             y == Cardinality(Between(listed', i, j))
  <2>1. numMatches'[p] = x + ToGo(p) /\ x \in Nat /\ ToGo(p) \in Nat
    BY <1>1, <1>3, <1>7, BetweenPairs DEF IInv, Counted
  <2>2. y = x + IF (i = i1 /\ j = i2) \/ (i = i2 /\ j = i1) THEN 1 ELSE 0
    BY <1>7, <1>14, Zenon
  <2>3. p = pair <=> (i = i1 /\ j = i2) \/ (i = i2 /\ j = i1)
    BY <1>2, <1>7
  <2>4. ToGo(p)' = ToGo(p) - IF p = pair THEN 1 ELSE 0
    BY <1>3, Zenon
  <2> HIDE DEF p, x, y
  <2>5. numMatches'[p] = y + ToGo(p)'
    <3>1. CASE p = pair
      <4>1. y = x + 1 /\ ToGo(p)' = ToGo(p) - 1
        BY <2>2, <2>3, <2>4, <3>1
      <4> QED
        BY <2>1, <4>1
    <3>2. CASE p # pair
      <4>1. y = x + 0 /\ ToGo(p)' = ToGo(p) - 0
        BY <2>2, <2>3, <2>4, <3>2
      <4> QED
        BY <2>1, <4>1
    <3> QED
      BY <3>1, <3>2
  <2> QED
    BY <2>5 DEF p, y
<1>8. ASSUME NEW i \in Images
      PROVE  /\ numCorrespondences'[i] >= Cardinality(From(listed', i)) + ToGoOf(i)'
             /\ ~thrown' => numCorrespondences'[i] = Cardinality(From(listed', i)) + ToGoOf(i)'
  <2>1. Cardinality(From(listed', i)) =
            Cardinality(From(listed, i)) + IF i = i1 \/ i = i2 THEN 1 ELSE 0
    BY <1>14, Zenon
  <2>2. Cardinality(From(listed, i)) \in Nat /\ numCorrespondences[i] \in Nat
    BY BetweenPairs DEF IInv, TypeOK
  <2>3. /\ numCorrespondences[i] >= Cardinality(From(listed, i)) + ToGoOf(i)
        /\ ~thrown => numCorrespondences[i] = Cardinality(From(listed, i)) + ToGoOf(i)
    BY DEF IInv, Counted
  <2> QED
    BY <1>1, <1>2, <1>3, <2>1, <2>2, <2>3
<1>9. Counted'
  BY <1>6, <1>7, <1>8 DEF Counted
<1>10. Symmetric'
  <2> SUFFICES ASSUME NEW o \in Observations, NEW c \in Observations
               PROVE  /\ listed'[<<o, c>>] = listed'[<<c, o>>] /\ listed'[<<o, c>>] <= 1
                      /\ listed'[<<o, c>>] > 0 =>
                            ImageOf[o] # ImageOf[c] /\ {ImageOf[o], ImageOf[c]} \in DOMAIN numMatches'
    BY DEF Symmetric
  <2>1. /\ listed[<<o, c>>] = listed[<<c, o>>] /\ listed[<<o, c>>] <= 1
        /\ listed[<<o, c>>] > 0 =>
              ImageOf[o] # ImageOf[c] /\ {ImageOf[o], ImageOf[c]} \in DOMAIN numMatches
    BY DEF IInv, Symmetric
  <2>2. <<o, c>> \in Pairs /\ <<c, o>> \in Pairs
    BY DEF Pairs
  <2>3. CASE (o = a /\ c = b) \/ (o = b /\ c = a)
    <3>1. listed'[<<o, c>>] = 1 /\ listed'[<<c, o>>] = 1
      BY <1>4, <2>2, <2>3
    <3>2. {ImageOf[o], ImageOf[c]} = pair
      BY <1>2, <1>5, <2>3
    <3>3. ImageOf[o] # ImageOf[c] /\ {ImageOf[o], ImageOf[c]} \in DOMAIN numMatches'
      BY <1>1, <1>2, <1>5, <2>3, <3>2
    <3> QED
      BY <3>1, <3>3
  <2>4. CASE ~((o = a /\ c = b) \/ (o = b /\ c = a))
    <3>1. listed'[<<o, c>>] = listed[<<o, c>>] /\ listed'[<<c, o>>] = listed[<<c, o>>]
      BY <1>4, <2>2, <2>4
    <3> QED
      BY <1>1, <2>1, <3>1
  <2> QED
    BY <2>3, <2>4
<1>11. TypeOK'
  <2>1. numObservations' \in [Images -> Nat]
    <3>1. \A i \in Images : Cardinality(Seen(listed', i)) \in Nat
      BY BetweenPairs, FinitePoints
    <3>2. \A i \in Images : numObservations'[i] \in Nat
      BY <1>6, <3>1
    <3> HIDE DEF Seen
    <3> QED
      BY <1>1, <3>2
  <2> QED
    BY <1>1, <1>3, <1>4, <2>1 DEF IInv, TypeOK, Pairs
<1>12. AddingOK'
  BY <1>1, <1>2, <1>3 DEF AddingOK
<1> QED
  BY <1>9, <1>10, <1>11, <1>12 DEF IInv

(* Steps that leave the correspondences and their counts alone.              *)
LEMMA OtherInv ==
    ASSUME IInv,
           \/ \E i \in Images : AddImage(i)
           \/ MatchesAdded
           \/ Finalize
           \/ \E i, j \in Images : UpdateTwoViewGeometry(i, j)
           \/ UNCHANGED graph
    PROVE  IInv'
<1>1. UNCHANGED <<listed, numObservations, numCorrespondences, numMatches, thrown>>
  BY DEF AddImage, MatchesAdded, Finalize, UpdateTwoViewGeometry, graph
<1>2. images \subseteq images' /\ images' \subseteq Images /\ finalized' \in BOOLEAN
  BY DEF AddImage, MatchesAdded, Finalize, UpdateTwoViewGeometry, graph, IInv, TypeOK
<1>3. direction' \in [DOMAIN numMatches -> images' \X images']
  <2>1. CASE \E i, j \in Images : UpdateTwoViewGeometry(i, j)
    <3>1. PICK i \in Images, j \in Images :
            /\ {i, j} \in DOMAIN numMatches /\ images' = images
            /\ direction' = [direction EXCEPT ![{i, j}] = Kept(<<i, j>>)]
      BY <2>1 DEF UpdateTwoViewGeometry
    <3>2. Kept(<<i, j>>) \in images \X images
      BY <3>1 DEF IInv, TypeOK, Kept, Invert
    <3> QED
      BY <3>1, <3>2 DEF IInv, TypeOK
  <2>2. CASE direction' = direction
    BY <1>2, <2>2 DEF IInv, TypeOK
  <2> QED
    BY <2>1, <2>2 DEF AddImage, MatchesAdded, Finalize, graph
<1>4. \/ adding' = adding
      \/ adding.matches = <<>> /\ adding' = NoGeometry
  BY DEF AddImage, MatchesAdded, Finalize, UpdateTwoViewGeometry, graph
<1>5. /\ \A p : ToGo(p)' = ToGo(p)
      /\ \A i : ToGoOf(i)' = ToGoOf(i)
  <2>1. CASE adding' = adding
    BY <2>1 DEF ToGo, ToGoOf, Ends
  <2>2. CASE adding.matches = <<>> /\ adding' = NoGeometry
    <3>1. Len(adding.matches) = 0 /\ Len(adding'.matches) = 0
      BY <2>2 DEF NoGeometry
    <3> QED
      BY <3>1 DEF ToGo, ToGoOf
  <2> QED
    BY <1>4, <2>1, <2>2
<1>6. TypeOK'
  BY <1>1, <1>2, <1>3, <1>4 DEF IInv, TypeOK
<1>7. AddingOK'
  BY <1>1, <1>4 DEF IInv, AddingOK, Idle, Ends
<1>8. Symmetric'
  BY <1>1 DEF IInv, Symmetric
<1>9. Counted'
  BY <1>1, <1>5 DEF IInv, Counted
<1> QED
  BY <1>6, <1>7, <1>8, <1>9 DEF IInv

LEMMA NextInv ==
    ASSUME PointsAssumption, GeometriesAssumption, IInv, [Next]_graph
    PROVE  IInv'
BY AddInv, AddMatchInv, SkipInv, OtherInv DEF Next, AddStep, GeometriesAssumption

(* The facts above hold whatever geometries are added, in whatever order,    *)
(* before and after Finalize().                                              *)
THEOREM Invariance ==
    ASSUME PointsAssumption, GeometriesAssumption
    PROVE  Spec => []IInv
<1>1. Init => IInv
  BY InitInv
<1>2. IInv /\ [Next]_graph => IInv'
  BY NextInv
<1> QED
  BY <1>1, <1>2, PTL DEF Spec

(* What ObservationManager takes for granted: every correspondence is listed *)
(* at both of its ends, once, and joins two images that are a pair.          *)
THEOREM AlwaysSymmetric ==
    ASSUME PointsAssumption, GeometriesAssumption
    PROVE  Spec => []Symmetric
<1>1. IInv => Symmetric
  BY DEF IInv
<1> QED
  BY <1>1, Invariance, PTL

(* The counts that the mapper orders images by are those of what is listed,  *)
(* though they are counted before the matches are looked at and taken back   *)
(* one by one.                                                               *)
THEOREM CountsAlwaysAgree ==
    ASSUME PointsAssumption, GeometriesAssumption
    PROVE  Spec => []CountsAgree
<1>1. IInv => CountsAgree
  BY CountedAgree DEF IInv
<1> QED
  BY <1>1, Invariance, PTL

-----------------------------------------------------------------------------
(* A pair is of two images, and its geometry goes from the one to the other. *)
Oriented ==
    /\ \A p \in DOMAIN numMatches : \E i, j \in Images : i # j /\ p = {i, j}
    /\ Directed

(* A graph without matches. *)
Blank ==
    /\ listed = [p \in Observations \X Observations |-> 0]
    /\ numObservations = [i \in Images |-> 0] /\ numCorrespondences = [i \in Images |-> 0]
    /\ numMatches = [p \in {} |-> 0] /\ direction = [p \in {} |-> <<0, 0>>]
    /\ Idle

(* The matches of a sequence, either way round.                              *)
Waiting(s) == {p \in Pairs : \E k \in 1 .. Len(s) : s[k] \in {p, Invert(p)}}
ToCome == UNION {MatchesOf(g) : g \in {g \in todo : g.image1 # g.image2}}

(* The matches that the graph has or is still to be given. *)
Held == ListedPairs \cup Waiting(adding.matches) \cup ToCome

(* What is to be added can be added. *)
Addable ==
    /\ ~finalized
    /\ \A g \in todo : /\ g \in Geometry /\ Fits(g)
                       /\ Ends(g) \subseteq images /\ Ends(g) \notin DOMAIN numMatches
    /\ \A g, h \in todo : Ends(g) = Ends(h) => g = h

UsableRows == {g \in rows : Usable(Ends(g), Len(g.matches), options)}

OfDatabase ==
    /\ Held = Joined(images) \cap
                 UNION {MatchesOf(g) : g \in {g \in UsableRows : g.image1 # g.image2}}
    /\ images = InFrames(FramesOf(images))
    /\ ~options.all => \A f \in FramesOf(images) : \E g \in UsableRows : f \in FramesOf(Ends(g))

OfSource ==
    /\ Held = Joined(images) \cap {p \in DOMAIN source.listed : source.listed[p] > 0}
    /\ DOMAIN numMatches \cup {Ends(g) : g \in todo} = {p \in source.pairs : p \subseteq images}
    /\ images = source.images \cap InFrames(FramesOf(images))
    /\ \A g \in todo : g.image1 # g.image2

Places ==
    /\ at = "database" => Blank /\ ~finalized /\ todo = {}
    /\ at \in {"load", "filter"} => Addable
    /\ at \in {"loaded", "filtered"} => todo = {} /\ Idle
    /\ at \in {"load", "loaded"} => OfDatabase
    /\ at \in {"filter", "filtered"} => OfSource

CInv == CacheTypeOK /\ IInv /\ Oriented /\ NothingThrows /\ Places

(* A direction that is kept from the smaller id is handed out either way.     *)
LEMMA KeptDirection ==
    ASSUME PointsAssumption, NEW a \in Images, NEW b \in Images, a # b,
           NEW i \in Images, NEW j \in Images, {i, j} = {a, b}, i # j,
           NEW d, d = Kept(<<a, b>>)
    PROVE  (IF i > j THEN Invert(d) ELSE d) = <<i, j>>
<1>1. (i = a /\ j = b) \/ (i = b /\ j = a)
  <2>1. i \in {a, b} /\ j \in {a, b}
    OBVIOUS
  <2> QED
    BY <2>1
<1>2. a \in Nat /\ b \in Nat
  BY DEF PointsAssumption
<1>3. d = IF a > b THEN <<b, a>> ELSE <<a, b>>
  BY DEF Kept, Invert
<1>4. CASE a > b
  BY <1>1, <1>2, <1>3, <1>4 DEF Invert
<1>5. CASE b > a
  BY <1>1, <1>2, <1>3, <1>5 DEF Invert
<1> QED
  BY <1>2, <1>4, <1>5

LEMMA AddOriented ==
    ASSUME PointsAssumption, IInv, Oriented, NEW g \in Geometry, AddTwoViewGeometry(g)
    PROVE  Oriented'
<1>1. g.image1 \in Images /\ g.image2 \in Images /\ g.image1 # g.image2
      /\ Ends(g) = {g.image1, g.image2}
  BY DEF AddTwoViewGeometry, Geometry, Ends
<1>2. CASE Ends(g) \in DOMAIN numMatches
  BY <1>2 DEF AddTwoViewGeometry, Oriented, Directed, DirectionOf
<1>3. CASE Ends(g) \notin DOMAIN numMatches
  <2>1. /\ numMatches' = Extended(numMatches, Ends(g), Len(g.matches))
        /\ direction' = Extended(direction, Ends(g), Kept(<<g.image1, g.image2>>))
    BY <1>3 DEF AddTwoViewGeometry
  <2>2. DOMAIN direction = DOMAIN numMatches
    BY DEF IInv, TypeOK
  <2>3. /\ DOMAIN numMatches' = DOMAIN numMatches \cup {Ends(g)}
        /\ direction'[Ends(g)] = Kept(<<g.image1, g.image2>>)
        /\ \A p \in DOMAIN numMatches : direction'[p] = direction[p]
    BY <1>3, <2>1, <2>2 DEF Extended
  <2>4. \A p \in DOMAIN numMatches' : \E i, j \in Images : i # j /\ p = {i, j}
    BY <1>1, <2>3 DEF Oriented
  <2>5. ASSUME NEW i \in Images, NEW j \in Images, i # j, {i, j} \in DOMAIN numMatches'
        PROVE  DirectionOf(i, j)' = <<i, j>>
    <3>1. DirectionOf(i, j)' = IF i > j THEN Invert(direction'[{i, j}]) ELSE direction'[{i, j}]
      BY DEF DirectionOf, Invert
    <3>2. CASE {i, j} = Ends(g)
      <4>1. direction'[{i, j}] = Kept(<<g.image1, g.image2>>)
        BY <2>3, <3>2
      <4>2. PICK d : d = direction'[{i, j}]
        OBVIOUS
      <4>3. (IF i > j THEN Invert(d) ELSE d) = <<i, j>>
        BY <1>1, <2>5, <3>2, <4>1, <4>2, KeptDirection
      <4> QED
        BY <3>1, <4>2, <4>3
    <3>3. CASE {i, j} # Ends(g)
      <4>1. {i, j} \in DOMAIN numMatches /\ direction'[{i, j}] = direction[{i, j}]
        BY <2>3, <2>5, <3>3
      <4>2. DirectionOf(i, j) = <<i, j>>
        BY <2>5, <4>1 DEF Oriented, Directed
      <4> QED
        BY <3>1, <4>1, <4>2 DEF DirectionOf
    <3> QED
      BY <3>2, <3>3
  <2> QED
    BY <2>4, <2>5 DEF Oriented, Directed
<1> QED
  BY <1>2, <1>3

LEMMA UpdateOriented ==
    ASSUME PointsAssumption, IInv, Oriented, NEW a \in Images, NEW b \in Images,
           UpdateTwoViewGeometry(a, b)
    PROVE  Oriented'
<1>1. /\ {a, b} \in DOMAIN numMatches /\ a # b /\ numMatches' = numMatches
      /\ direction' = [direction EXCEPT ![{a, b}] = Kept(<<a, b>>)]
      /\ DOMAIN direction = DOMAIN numMatches
  BY DEF UpdateTwoViewGeometry, IInv, TypeOK
<1>2. ASSUME NEW i \in Images, NEW j \in Images, i # j, {i, j} \in DOMAIN numMatches
      PROVE  DirectionOf(i, j)' = <<i, j>>
  <2>1. DirectionOf(i, j)' = IF i > j THEN Invert(direction'[{i, j}]) ELSE direction'[{i, j}]
    BY DEF DirectionOf, Invert
  <2>2. CASE {i, j} = {a, b}
    <3>1. direction'[{i, j}] = Kept(<<a, b>>)
      BY <1>1, <2>2
    <3>2. PICK d : d = direction'[{i, j}]
      OBVIOUS
    <3>3. (IF i > j THEN Invert(d) ELSE d) = <<i, j>>
      BY <1>1, <1>2, <2>2, <3>1, <3>2, KeptDirection
    <3> QED
      BY <2>1, <3>2, <3>3
  <2>3. CASE {i, j} # {a, b}
    <3>1. direction'[{i, j}] = direction[{i, j}]
      BY <1>1, <1>2, <2>3
    <3>2. DirectionOf(i, j) = <<i, j>>
      BY <1>2 DEF Oriented, Directed
    <3> QED
      BY <2>1, <3>1, <3>2 DEF DirectionOf
  <2> QED
    BY <2>2, <2>3
<1> QED
  BY <1>1, <1>2 DEF Oriented, Directed

(* A match less, or none, to go: the pairs and their directions stay. *)
LEMMA SameOriented ==
    ASSUME Oriented, DOMAIN numMatches' = DOMAIN numMatches, direction' = direction
    PROVE  Oriented'
BY DEF Oriented, Directed, DirectionOf, Invert

LEMMA StepOriented ==
    ASSUME PointsAssumption, IInv, Oriented, AddStep
    PROVE  Oriented'
<1>1. DOMAIN numMatches' = DOMAIN numMatches /\ direction' = direction
  <2>1. CASE AddMatch
    BY <2>1 DEF AddMatch
  <2>2. CASE SkipMatch
    BY <2>2 DEF SkipMatch
  <2>3. CASE MatchesAdded
    BY <2>3 DEF MatchesAdded
  <2> QED
    BY <2>1, <2>2, <2>3 DEF AddStep
<1> QED
  BY <1>1, SameOriented

LEMMA NextOriented ==
    ASSUME PointsAssumption, GeometriesAssumption, IInv, Oriented, [Next]_graph
    PROVE  Oriented'
<1>1. CASE \E i \in Images : AddImage(i)
  BY <1>1, SameOriented DEF AddImage
<1>2. CASE \E g \in Geometries : AddTwoViewGeometry(g)
  BY <1>2, AddOriented DEF GeometriesAssumption
<1>3. CASE AddStep
  BY <1>3, StepOriented
<1>4. CASE Finalize
  BY <1>4, SameOriented DEF Finalize
<1>5. CASE \E i, j \in Images : UpdateTwoViewGeometry(i, j)
  BY <1>5, UpdateOriented
<1>6. CASE UNCHANGED graph
  BY <1>6, SameOriented DEF graph
<1> QED
  BY <1>1, <1>2, <1>3, <1>4, <1>5, <1>6 DEF Next

(* A geometry is handed out in the direction that is asked for, however it    *)
(* was added or updated (correspondence_graph.cc:112, 270-300).              *)
THEOREM AlwaysDirected ==
    ASSUME PointsAssumption, GeometriesAssumption
    PROVE  Spec => []Directed
<1>1. Init => Oriented
  BY DEF Init, Empty, Oriented, Directed
<1>2. IInv /\ Oriented /\ [Next]_graph => Oriented'
  BY NextOriented
<1>3. Oriented => Directed
  BY DEF Oriented
<1> QED
  BY <1>1, <1>2, <1>3, Invariance, PTL DEF Spec

-----------------------------------------------------------------------------
LEMMA WaitingNone == Waiting(<<>>) = {}
BY DEF Waiting

LEMMA WaitingHead ==
    ASSUME NEW S, NEW s \in Seq(S), s # <<>>
    PROVE  Waiting(s) = {p \in Pairs : Head(s) \in {p, Invert(p)}} \cup Waiting(Tail(s))
<1>1. /\ Len(s) \in Nat \ {0} /\ Head(s) = s[1]
      /\ Len(Tail(s)) = Len(s) - 1
      /\ \A k \in 1 .. Len(s) - 1 : Tail(s)[k] = s[k + 1]
  OBVIOUS
<1>2. ASSUME NEW p \in Pairs
      PROVE  (\E k \in 1 .. Len(s) : s[k] \in {p, Invert(p)})
                <=> \/ Head(s) \in {p, Invert(p)}
                    \/ \E k \in 1 .. Len(Tail(s)) : Tail(s)[k] \in {p, Invert(p)}
  <2> DEFINE Is(m) == m \in {p, Invert(p)}
  <2> HIDE DEF Is
  <2>1. ASSUME NEW k \in 1 .. Len(s), Is(s[k]), ~Is(Head(s))
        PROVE  \E l \in 1 .. Len(Tail(s)) : Is(Tail(s)[l])
    <3>1. k - 1 \in 1 .. Len(s) - 1
      BY <1>1, <2>1
    <3>2. Tail(s)[k - 1] = s[k]
      BY <1>1, <3>1
    <3> QED
      BY <1>1, <2>1, <3>1, <3>2
  <2>2. ASSUME NEW k \in 1 .. Len(Tail(s)), Is(Tail(s)[k])
        PROVE  \E l \in 1 .. Len(s) : Is(s[l])
    <3>1. k + 1 \in 1 .. Len(s) /\ Tail(s)[k] = s[k + 1]
      BY <1>1
    <3> QED
      BY <2>2, <3>1
  <2>3. Is(Head(s)) => \E l \in 1 .. Len(s) : Is(s[l])
    BY <1>1
  <2> QED
    BY <2>1, <2>2, <2>3 DEF Is
<1> QED
  BY <1>2 DEF Waiting

LEMMA MatchesWait ==
    ASSUME NEW g
    PROVE  MatchesOf(g) = Waiting(g.matches)
BY DEF MatchesOf, Waiting, Pairs

(* The match at hand is listed, or was, or is of no two points. *)
LEMMA AddMatchHeld ==
    ASSUME PointsAssumption, IInv, AddMatch, todo' = todo
    PROVE  Held' = Held
<1> DEFINE m == Head(adding.matches)
           S == (Of(adding.image1) \cup {Bogus}) \X (Of(adding.image2) \cup {Bogus})
<1>1. /\ adding.matches \in Seq(S) /\ adding.matches # <<>> /\ m \in Pairs
  BY Hand, OfObservations DEF AddMatch, New, Valid, Points, IInv, AddingOK, Pairs
<1>2. /\ adding'.matches = Tail(adding.matches)
      /\ listed' = [p \in DOMAIN listed |->
                       listed[p] + IF p = m \/ p = Invert(m) THEN 1 ELSE 0]
      /\ listed \in [Pairs -> Nat]
  BY Hand DEF AddMatch, Rest, Geometry, IInv, TypeOK, Pairs
<1>3. ListedPairs' = ListedPairs \cup {p \in Pairs : p = m \/ p = Invert(m)}
  BY <1>2 DEF ListedPairs, Pairs
<1>4. Waiting(adding.matches) = {p \in Pairs : m \in {p, Invert(p)}} \cup Waiting(Tail(adding.matches))
  BY <1>1, WaitingHead
<1>5. \A p \in Pairs : Invert(p) = m <=> p = Invert(m)
  <2>1. \A p \in Pairs : p = <<p[1], p[2]>>
    BY DEF Pairs
  <2> QED
    BY <1>1, <2>1 DEF Invert
<1> HIDE DEF m
<1>6. {p \in Pairs : m \in {p, Invert(p)}} = {p \in Pairs : p = m \/ p = Invert(m)}
  BY <1>5
<1>7. Held' = ListedPairs' \cup Waiting(Tail(adding.matches)) \cup ToCome
  BY <1>2 DEF Held, ToCome, MatchesOf, Waiting, Invert, Pairs
<1> QED
  BY <1>3, <1>4, <1>6, <1>7 DEF Held

LEMMA SkipMatchHeld ==
    ASSUME PointsAssumption, IInv, SkipMatch, ~finalized, todo' = todo
    PROVE  Held' = Held
<1> DEFINE m == Head(adding.matches)
           S == (Of(adding.image1) \cup {Bogus}) \X (Of(adding.image2) \cup {Bogus})
<1>1. /\ adding.matches \in Seq(S) /\ adding.matches # <<>> /\ m \in S /\ ~New(m, adding)
  BY Hand DEF SkipMatch, IInv, AddingOK
<1>2. adding'.matches = Tail(adding.matches) /\ listed' = listed
  BY Hand DEF SkipMatch, Rest, Geometry
<1>3. Waiting(adding.matches) = {p \in Pairs : m \in {p, Invert(p)}} \cup Waiting(Tail(adding.matches))
  BY <1>1, WaitingHead
<1>4. ASSUME NEW p \in Pairs, m \in {p, Invert(p)}
      PROVE  p \in ListedPairs
  <2>1. /\ p = <<p[1], p[2]>> /\ p[1] \in Observations /\ p[2] \in Observations
        /\ Invert(p) = <<p[2], p[1]>>
    BY DEF Pairs, Invert
  <2>2. m = <<m[1], m[2]>> /\ m[1] \in Observations /\ m[2] \in Observations
    BY <1>4, <2>1
  <2>3. Valid(m, adding)
    BY <1>1, <2>2 DEF Valid, Points, PointsAssumption
  <2>4. listed[<<m[1], m[2]>>] > 0
    BY <1>1, <2>3 DEF New, Duplicate, Listed
  <2>5. listed[<<m[2], m[1]>>] > 0
    BY <2>2, <2>4 DEF IInv, Symmetric
  <2>6. CASE m = p
    BY <2>1, <2>2, <2>4, <2>6 DEF ListedPairs, Pairs
  <2>7. CASE m = Invert(p)
    <3>1. m[1] = p[2] /\ m[2] = p[1]
      BY <2>1, <2>7
    <3> QED
      BY <2>1, <2>5, <3>1 DEF ListedPairs, Pairs
  <2> QED
    BY <1>4, <2>6, <2>7
<1> HIDE DEF m
<1>5. Held' = ListedPairs \cup Waiting(Tail(adding.matches)) \cup ToCome
  BY <1>2 DEF Held, ToCome, MatchesOf, Waiting, ListedPairs, Invert, Pairs
<1> QED
  BY <1>3, <1>4, <1>5 DEF Held

LEMMA StepHeld ==
    ASSUME PointsAssumption, IInv, AddStep, ~finalized, todo' = todo
    PROVE  Held' = Held
<1>1. CASE MatchesAdded
  <2>1. adding.matches = <<>> /\ adding'.matches = <<>> /\ listed' = listed
    BY <1>1 DEF MatchesAdded, NoGeometry
  <2> QED
    BY <2>1 DEF Held, ToCome, MatchesOf, Waiting, ListedPairs, Invert, Pairs
<1> QED
  BY <1>1, AddMatchHeld, SkipMatchHeld DEF AddStep

(* A geometry that begins to be added is no longer to come, but waiting.      *)
LEMMA BeginHeld ==
    ASSUME NEW g \in todo, g.image1 # g.image2, Idle, todo' = todo \ {g}, adding' = g,
           listed' = listed
    PROVE  Held' = Held
<1>1. Held = ListedPairs \cup ToCome
  BY WaitingNone DEF Held, Idle, NoGeometry
<1>2. Held' = ListedPairs \cup Waiting(g.matches) \cup ToCome'
  BY DEF Held, ListedPairs, Waiting, Invert, Pairs
<1>3. ToCome' = UNION {MatchesOf(h) : h \in {h \in todo \ {g} : h.image1 # h.image2}}
  BY DEF ToCome, MatchesOf, Invert
<1>4. ToCome = ToCome' \cup MatchesOf(g)
  BY <1>3 DEF ToCome
<1> QED
  BY <1>1, <1>2, <1>4, MatchesWait

LEMMA DropHeld ==
    ASSUME NEW g \in todo, g.image1 = g.image2, todo' = todo \ {g}, adding' = adding,
           listed' = listed
    PROVE  Held' = Held
<1>1. {h \in todo \ {g} : h.image1 # h.image2} = {h \in todo : h.image1 # h.image2}
  OBVIOUS
<1>2. ToCome' = UNION {MatchesOf(h) : h \in {h \in todo \ {g} : h.image1 # h.image2}}
  BY DEF ToCome, MatchesOf, Invert
<1>3. ToCome' = ToCome
  BY <1>1, <1>2 DEF ToCome
<1> QED
  BY <1>3 DEF Held, ListedPairs, Waiting, Invert, Pairs

-----------------------------------------------------------------------------
(* A match of a geometry joins its two images. *)
LEMMA MatchesJoin ==
    ASSUME NEW g \in Geometry, Fits(g), PointsAssumption, NEW p \in MatchesOf(g)
    PROVE  /\ p \in Pairs /\ p = <<p[1], p[2]>> /\ Invert(p) = <<p[2], p[1]>>
           /\ {ImageOf[p[1]], ImageOf[p[2]]} = Ends(g)
<1>1. /\ p \in Pairs /\ p[1] \in Observations /\ p[2] \in Observations
      /\ p = <<p[1], p[2]>> /\ Invert(p) = <<p[2], p[1]>>
  BY DEF MatchesOf, Pairs, Invert
<1>2. PICK k \in 1 .. Len(g.matches) : g.matches[k] \in {p, Invert(p)}
  BY DEF MatchesOf
<1>3. PICK m : m = g.matches[k]
  OBVIOUS
<1>4. m \in (Of(g.image1) \cup {Bogus}) \X (Of(g.image2) \cup {Bogus})
  BY <1>2, <1>3 DEF Fits
<1>5. m[1] \in Of(g.image1) \cup {Bogus} /\ m[2] \in Of(g.image2) \cup {Bogus}
  BY <1>4
<1>6. CASE m = p
  <2>1. p[1] \in Of(g.image1) /\ p[2] \in Of(g.image2)
    BY <1>1, <1>5, <1>6 DEF PointsAssumption
  <2> QED
    BY <1>1, <2>1 DEF Of, Ends
<1>7. CASE m = Invert(p)
  <2>1. m[1] = p[2] /\ m[2] = p[1]
    BY <1>1, <1>7
  <2>2. p[2] \in Of(g.image1) /\ p[1] \in Of(g.image2)
    BY <1>1, <1>5, <2>1 DEF PointsAssumption
  <2> QED
    BY <1>1, <2>2 DEF Of, Ends
<1> QED
  BY <1>2, <1>3, <1>6, <1>7

LEMMA FramesClosed ==
    ASSUME NEW F
    PROVE  /\ FramesOf(InFrames(F)) \subseteq F
           /\ InFrames(FramesOf(InFrames(F))) = InFrames(F)
BY DEF FramesOf, InFrames

(* A graph without matches, whatever images it has. *)
LEMMA BlankInv ==
    ASSUME Blank', images' \subseteq Images, finalized' \in BOOLEAN, thrown' = FALSE
    PROVE  IInv' /\ Oriented' /\ ListedPairs' = {} /\ Waiting(adding.matches)' = {}
<1>1. /\ listed' = [p \in Observations \X Observations |-> 0]
      /\ numObservations' = [i \in Images |-> 0] /\ numCorrespondences' = [i \in Images |-> 0]
      /\ numMatches' = [p \in {} |-> 0] /\ direction' = [p \in {} |-> <<0, 0>>]
      /\ adding' = NoGeometry
  BY DEF Blank, Idle, NoGeometry
<1>2. TypeOK'
  BY <1>1 DEF TypeOK, Geometry, NoGeometry
<1>3. AddingOK' /\ Symmetric'
  BY <1>1 DEF AddingOK, Symmetric, Idle, NoGeometry
<1>4. Counted'
  <2>1. ASSUME NEW i
        PROVE  From(listed', i) = {} /\ Seen(listed', i) = {}
    <3>1. \A p \in Of(i) \X Observations : listed'[p] = 0
      BY <1>1, OfObservations
    <3>2. From(listed', i) = {}
      BY <3>1 DEF From
    <3>3. \A o \in Of(i), c \in Observations : ~(listed'[<<o, c>>] > 0)
      BY <3>1
    <3>4. Seen(listed', i) = {}
      BY <3>3, Zenon DEF Seen
    <3> QED
      BY <3>2, <3>4
  <2>2. \A i : ToGoOf(i)' = 0
    BY <1>1 DEF ToGoOf, NoGeometry
  <2>3. \A i \in Images : /\ Cardinality(From(listed', i)) = 0
                          /\ Cardinality(Seen(listed', i)) = 0
    BY <2>1, FS_EmptySet
  <2> QED
    BY <1>1, <2>2, <2>3 DEF Counted
<1>5. Oriented'
  BY <1>1 DEF Oriented, Directed
<1>6. ListedPairs' = {}
  BY <1>1 DEF ListedPairs
<1>7. Waiting(adding.matches)' = {}
  BY <1>1 DEF Waiting, NoGeometry
<1> QED
  BY <1>2, <1>3, <1>4, <1>5, <1>6, <1>7 DEF IInv

LEMMA CacheInitInv ==
    ASSUME RowsAssumption, CacheInit
    PROVE  CInv
<1>1. IInv /\ Oriented
  BY InitInv DEF CacheInit, Init, Empty, Oriented, Directed
<1>2. Blank /\ ~finalized /\ ~thrown /\ todo = {} /\ at = "database"
  BY DEF CacheInit, Init, Empty, Blank, Idle
<1>3. Places
  BY <1>2 DEF Places
<1>4. CacheTypeOK
  <2>1. marked \subseteq SUBSET Images
    <3>1. \A g \in rows : Ends(g) \in SUBSET Images
      BY DEF CacheInit, RowsAssumption, Ends, Geometry
    <3> QED
      BY <3>1 DEF CacheInit
  <2> QED
    BY <1>1, <1>2, <2>1 DEF CacheInit, CacheTypeOK, IInv, NoSource
<1> QED
  BY <1>1, <1>2, <1>3, <1>4 DEF CInv, NothingThrows

-----------------------------------------------------------------------------
(* The chosen rows are of frames that are loaded, and any usable row between   *)
(* images that are loaded is chosen.                                         *)
LEMMA LoadInv ==
    ASSUME PointsAssumption, RowsAssumption, CInv, Load
    PROVE  CInv'
<1> DEFINE candidates == FramesOf(Named(Images, options))
           selected == {g \in rows : /\ Usable(Ends(g), Len(g.matches), options)
                                     /\ Selected(g, candidates)}
           connected == UNION {FramesOf(Ends(g)) : g \in selected}
           F == IF options.all THEN candidates ELSE connected
<1>1. /\ at = "database" /\ at' = "load" /\ images' = InFrames(F) /\ todo' = selected
      /\ UNCHANGED <<listed, numObservations, numCorrespondences, numMatches, direction,
                     adding, finalized, thrown, rows, marked, options, source>>
  BY DEF Load
<1>2. Blank /\ ~finalized /\ ~thrown
  BY <1>1 DEF CInv, Places, NothingThrows
<1>3. Blank'
  BY <1>1, <1>2 DEF Blank, Idle, NoGeometry
<1>4. /\ rows \in Databases
      /\ \A g, h \in rows : /\ g \in Geometry /\ Fits(g) /\ g.image1 \in Images
                            /\ g.image2 \in Images
                            /\ Ends(g) = Ends(h) => g = h
  BY DEF RowsAssumption, CInv, CacheTypeOK, Geometry
<1>5. \A g \in selected : /\ g \in rows /\ FramesOf(Ends(g)) \subseteq candidates
                          /\ FramesOf(Ends(g)) \subseteq F
  BY DEF Selected
<1>6. F \subseteq candidates
  BY <1>5
<1> HIDE DEF F, selected, connected, candidates
<1>7. images' \subseteq Images /\ finalized' \in BOOLEAN /\ thrown' = FALSE
  BY <1>1, <1>2 DEF InFrames, CInv, IInv, TypeOK
<1>8. IInv' /\ Oriented' /\ ListedPairs' = {} /\ Waiting(adding.matches)' = {}
  BY <1>3, <1>7, BlankInv
<1>9. \A g \in selected : Ends(g) \subseteq images'
  <2> SUFFICES ASSUME NEW g \in selected, NEW i \in Ends(g)
               PROVE  i \in images'
    OBVIOUS
  <2>1. i \in Images /\ FrameOf[i] \in FramesOf(Ends(g))
    BY <1>4, <1>5 DEF Ends, FramesOf
  <2> QED
    BY <1>1, <1>5, <2>1 DEF InFrames
<1>10. Addable'
  <2>1. DOMAIN numMatches' = {}
    BY <1>3 DEF Blank
  <2>2. \A g \in todo' : g \in Geometry /\ Fits(g) /\ Ends(g) \subseteq images'
    BY <1>1, <1>4, <1>5, <1>9
  <2>3. \A g, h \in todo' : Ends(g) = Ends(h) => g = h
    BY <1>1, <1>4, <1>5
  <2> QED
    BY <1>1, <1>2, <2>1, <2>2, <2>3 DEF Addable
<1>11. UsableRows' = UsableRows
  BY <1>1 DEF UsableRows, Usable
<1>12. UsableRows = {g \in rows : Usable(Ends(g), Len(g.matches), options)}
  BY DEF UsableRows
<1>13. selected = {g \in UsableRows : FramesOf(Ends(g)) \subseteq candidates}
  BY <1>12 DEF selected, Selected
<1>14. Held' = UNION {MatchesOf(g) : g \in {g \in selected : g.image1 # g.image2}}
  <2>1. ToCome' = UNION {MatchesOf(g) : g \in {g \in todo' : g.image1 # g.image2}}
    BY DEF ToCome, MatchesOf, Invert
  <2>2. Held' = ToCome'
    BY <1>8 DEF Held
  <2> QED
    BY <1>1, <2>1, <2>2
<1>15. ASSUME NEW g \in UsableRows, g.image1 # g.image2, NEW p \in MatchesOf(g)
       PROVE  p \in Joined(images') <=> g \in selected
  <2>1. /\ g \in rows /\ g \in Geometry /\ Fits(g) /\ Ends(g) \subseteq Images
        /\ Ends(g) = {g.image1, g.image2}
    BY <1>4, <1>12 DEF Ends
  <2>2. p \in Observations \X Observations /\ {ImageOf[p[1]], ImageOf[p[2]]} = Ends(g)
    BY <2>1, MatchesJoin DEF Pairs
  <2>3. p \in Joined(images') <=> Ends(g) \subseteq images'
    BY <2>2 DEF Joined
  <2>4. ASSUME Ends(g) \subseteq images' PROVE FramesOf(Ends(g)) \subseteq candidates
    BY <1>1, <1>6, <2>4 DEF InFrames, FramesOf
  <2> QED
    BY <1>9, <1>13, <2>3, <2>4
<1>16. Held' = Joined(images') \cap
                  UNION {MatchesOf(g) : g \in {g \in UsableRows : g.image1 # g.image2}}
  <2>1. ASSUME NEW p, p \in Held'
        PROVE  /\ p \in Joined(images')
               /\ p \in UNION {MatchesOf(g) : g \in {g \in UsableRows : g.image1 # g.image2}}
    BY <1>13, <1>14, <1>15, <2>1
  <2>2. ASSUME NEW p \in Joined(images'),
               p \in UNION {MatchesOf(g) : g \in {g \in UsableRows : g.image1 # g.image2}}
        PROVE  p \in Held'
    BY <1>14, <1>15, <2>2
  <2> QED
    BY <2>1, <2>2
<1>17. images' = InFrames(FramesOf(images'))
  BY <1>1, FramesClosed
<1>18. ASSUME ~options.all, NEW f \in FramesOf(images')
       PROVE  \E g \in UsableRows : f \in FramesOf(Ends(g))
  <2>1. f \in F
    BY <1>1, <1>18, FramesClosed
  <2> QED
    BY <1>13, <1>18, <2>1 DEF F, connected
<1>19. OfDatabase'
  <2>1. \A S : FramesOf(S)' = FramesOf(S)
    BY DEF FramesOf
  <2> QED
    BY <1>1, <1>11, <1>16, <1>17, <1>18
       DEF OfDatabase, FramesOf, InFrames, Joined, MatchesOf, Invert, Ends
<1>20. CacheTypeOK'
  BY <1>1, <1>8 DEF CInv, CacheTypeOK, IInv
<1>21. NothingThrows' /\ Places'
  BY <1>1, <1>2, <1>10, <1>19 DEF NothingThrows, Places
<1> QED
  BY <1>8, <1>20, <1>21 DEF CInv

-----------------------------------------------------------------------------
(* A finite set in any order: its elements, each at some place. *)
LEMMA InOrder ==
    ASSUME NEW S, IsFiniteSet(S)
    PROVE  /\ Cardinality(S) \in Nat
           /\ SetToSeq(S) \in [1 .. Cardinality(S) -> S]
           /\ SetToSeq(S) \in Seq(S) /\ Len(SetToSeq(S)) = Cardinality(S)
           /\ \A x \in S : \E k \in 1 .. Cardinality(S) : SetToSeq(S)[k] = x
<1> DEFINE n == Cardinality(S)
           f == SetToSeq(S)
<1>1. n \in Nat /\ ExistsBijection(1 .. n, S)
  BY FS_CardinalityType
<1>2. \E g \in [1 .. n -> S] : IsInjective(g)
  BY <1>1 DEF ExistsBijection, Bijection, Injection
<1>3. f \in [1 .. n -> S] /\ IsInjective(f)
  BY <1>2 DEF SetToSeq
<1> HIDE DEF f
<1>4. f \in Injection(1 .. n, S)
  BY <1>3 DEF Injection
<1>5. IsFiniteSet(1 .. n) /\ Cardinality(1 .. n) = n
  BY <1>1, FS_Interval
<1>6. f \in Surjection(1 .. n, S)
  BY <1>4, <1>5, FS_Injection
<1>7. \A x \in S : \E k \in 1 .. n : f[k] = x
  BY <1>6 DEF Surjection
<1>8. f \in Seq(S) /\ Len(f) = n
  BY <1>1, <1>3
<1> QED
  BY <1>1, <1>3, <1>7, <1>8 DEF f

LEMMA ExtractedIs ==
    ASSUME PointsAssumption, NEW i \in Images, NEW j \in Images
    PROVE  /\ Extracted(i, j).image1 = i /\ Extracted(i, j).image2 = j
           /\ Extracted(i, j) \in Geometry /\ Fits(Extracted(i, j))
           /\ Ends(Extracted(i, j)) = {i, j}
           /\ \A p : p \in MatchesOf(Extracted(i, j)) <=>
                 /\ p \in Pairs
                 /\ p \in MatchesBetween(i, j) \/ Invert(p) \in MatchesBetween(i, j)
<1> DEFINE S == MatchesBetween(i, j)
           s == SetToSeq(S)
           g == Extracted(i, j)
<1>1. S \subseteq Pairs /\ S \subseteq Of(i) \X Of(j)
  BY DEF MatchesBetween, Of, Pairs
<1>2. IsFiniteSet(S)
  BY <1>1, FinitePairs
<1> HIDE DEF S
<1>3. /\ Len(s) \in Nat /\ s \in Seq(S) /\ \A k \in 1 .. Len(s) : s[k] \in S
      /\ \A x \in S : \E k \in 1 .. Len(s) : s[k] = x
  BY <1>2, InOrder
<1> HIDE DEF s
<1>4. g = [image1 |-> i, image2 |-> j, matches |-> s]
  BY DEF Extracted, s, S
<1> HIDE DEF g
<1>5. s \in Seq((Observations \cup {Bogus}) \X (Observations \cup {Bogus}))
  BY <1>1, <1>3 DEF Pairs
<1>6. g \in Geometry
  BY <1>4, <1>5 DEF Geometry
<1>7. Fits(g)
  BY <1>1, <1>3, <1>4 DEF Fits
<1>8. Ends(g) = {i, j}
  BY <1>4 DEF Ends
<1>9. MatchesOf(g) = {p \in Pairs : p \in S \/ Invert(p) \in S}
  <2>1. MatchesOf(g) = {p \in Pairs : \E k \in 1 .. Len(s) : s[k] \in {p, Invert(p)}}
    BY <1>4 DEF MatchesOf, Pairs
  <2>2. ASSUME NEW p \in Pairs
        PROVE  (\E k \in 1 .. Len(s) : s[k] \in {p, Invert(p)}) <=> p \in S \/ Invert(p) \in S
    BY <1>3
  <2> QED
    BY <2>1, <2>2
<1> QED
  BY <1>4, <1>6, <1>7, <1>8, <1>9 DEF g, S

(* Every pair between images of the part, from the smaller id. *)
LEMMA CreateInv ==
    ASSUME PointsAssumption, CInv, NEW o \in OptionSets, CreateFromCache(o)
    PROVE  CInv'
<1> DEFINE candidates == Named(images, o)
           connected == UNION {p \in DOMAIN numMatches :
                                  p \subseteq candidates /\ Usable(p, numMatches[p], o)}
           chosen == IF o.all THEN candidates ELSE connected
           loaded == Loaded(chosen, FramesOf(chosen))
           parts == {d \in loaded \X loaded : d[1] < d[2] /\ {d[1], d[2]} \in DOMAIN numMatches}
<1>1. /\ at = "loaded" /\ at' = "filter" /\ images' = loaded
      /\ todo' = {Extracted(d[1], d[2]) : d \in parts}
      /\ source' = [images |-> images, listed |-> listed, pairs |-> DOMAIN numMatches]
      /\ listed' = [p \in DOMAIN listed |-> 0]
      /\ numObservations' = [i \in Images |-> 0] /\ numCorrespondences' = [i \in Images |-> 0]
      /\ numMatches' = [p \in {} |-> 0] /\ direction' = [p \in {} |-> <<0, 0>>]
      /\ finalized' = FALSE /\ options' = o
      /\ UNCHANGED <<adding, thrown, rows, marked>>
  BY DEF CreateFromCache
<1>2. /\ Idle /\ ~thrown /\ DOMAIN listed = Observations \X Observations
      /\ images \subseteq Images /\ DOMAIN numMatches \subseteq SUBSET images
      /\ \A p \in DOMAIN numMatches : \E i, j \in Images : i # j /\ p = {i, j}
  BY <1>1 DEF CInv, Places, NothingThrows, IInv, TypeOK, Oriented
<1>3. chosen \subseteq images
  <2>1. candidates \subseteq images
    BY DEF Named
  <2>2. connected \subseteq candidates
    OBVIOUS
  <2> HIDE DEF candidates, connected
  <2> QED
    BY <2>1, <2>2
<1> HIDE DEF chosen
<1>4. /\ loaded \subseteq images /\ chosen \subseteq loaded
      /\ loaded = images \cap InFrames(FramesOf(loaded))
  <2>1. loaded = images \cap InFrames(FramesOf(chosen))
    BY DEF Loaded
  <2>2. chosen \subseteq loaded
    BY <1>2, <1>3, <2>1 DEF InFrames, FramesOf
  <2>3. FramesOf(loaded) = FramesOf(chosen)
    BY <1>3, <2>1, <2>2 DEF InFrames, FramesOf
  <2> QED
    BY <2>1, <2>2, <2>3
<1> HIDE DEF loaded
<1>5. Blank'
  BY <1>1, <1>2 DEF Blank, Idle, NoGeometry
<1>6. images' \subseteq Images /\ finalized' \in BOOLEAN /\ thrown' = FALSE
  BY <1>1, <1>2, <1>4 DEF CInv, IInv, TypeOK
<1>7. IInv' /\ Oriented' /\ ListedPairs' = {} /\ Waiting(adding.matches)' = {}
  BY <1>5, <1>6, BlankInv
<1>8. \A d \in parts : /\ d = <<d[1], d[2]>> /\ d[1] \in loaded /\ d[2] \in loaded
                       /\ d[1] \in Images /\ d[2] \in Images /\ d[1] < d[2]
                       /\ d[1] \in Nat /\ d[2] \in Nat /\ {d[1], d[2]} \in DOMAIN numMatches
  BY <1>2, <1>4 DEF PointsAssumption
<1>9. ASSUME NEW i \in loaded, NEW j \in loaded, {i, j} \in DOMAIN numMatches, i < j
      PROVE  <<i, j>> \in parts
  BY <1>9
<1> HIDE DEF parts
<1>10. Addable'
  <2>1. ASSUME NEW g \in todo'
        PROVE  g \in Geometry /\ Fits(g) /\ Ends(g) \subseteq images'
    <3>1. PICK d \in parts : g = Extracted(d[1], d[2])
      BY <1>1
    <3>2. Ends(g) = {d[1], d[2]} /\ g \in Geometry /\ Fits(g)
      BY <1>8, <3>1, ExtractedIs
    <3> QED
      BY <1>1, <1>8, <3>2
  <2>2. ASSUME NEW g \in todo', NEW h \in todo', Ends(g) = Ends(h)
        PROVE  g = h
    <3>1. PICK d \in parts : g = Extracted(d[1], d[2])
      BY <1>1
    <3>2. PICK e \in parts : h = Extracted(e[1], e[2])
      BY <1>1
    <3>3. {d[1], d[2]} = {e[1], e[2]}
      <4>1. Ends(g) = {d[1], d[2]}
        BY <1>8, <3>1, ExtractedIs
      <4>2. Ends(h) = {e[1], e[2]}
        BY <1>8, <3>2, ExtractedIs
      <4> QED
        BY <2>2, <4>1, <4>2
    <3>4. d[1] \in {e[1], e[2]} /\ d[2] \in {e[1], e[2]}
      BY <3>3
    <3>5. /\ d[1] < d[2] /\ d[1] \in Nat /\ d[2] \in Nat
          /\ e[1] < e[2] /\ e[1] \in Nat /\ e[2] \in Nat
      BY <1>8
    <3>6. d[1] = e[1] /\ d[2] = e[2]
      BY <3>4, <3>5
    <3> QED
      BY <3>1, <3>2, <3>6
  <2>3. DOMAIN numMatches' = {}
    BY <1>1
  <2> QED
    BY <1>1, <2>1, <2>2, <2>3 DEF Addable
<1>11. Held' = Joined(images') \cap {p \in DOMAIN source'.listed : source'.listed[p] > 0}
  <2>1. Held' = UNION {MatchesOf(g) : g \in {g \in todo' : g.image1 # g.image2}}
    <3>1. ToCome' = UNION {MatchesOf(g) : g \in {g \in todo' : g.image1 # g.image2}}
      BY DEF ToCome, MatchesOf, Invert
    <3> QED
      BY <1>7, <3>1 DEF Held
  <2>2. \A p \in Pairs : /\ p = <<p[1], p[2]>> /\ Invert(p) = <<p[2], p[1]>>
                         /\ p[1] \in Observations /\ p[2] \in Observations
    BY DEF Pairs, Invert
  <2>3. source'.listed = listed /\ DOMAIN listed = Pairs
    BY <1>1, <1>2 DEF Pairs
  <2>4. ASSUME NEW p, p \in Held'
        PROVE  p \in Pairs /\ p \in Joined(loaded) /\ listed[p] > 0
    <3>1. PICK g \in todo' : p \in MatchesOf(g)
      BY <2>1, <2>4
    <3>2. PICK d \in parts : g = Extracted(d[1], d[2])
      BY <1>1
    <3>3. /\ p \in Pairs
          /\ p \in MatchesBetween(d[1], d[2]) \/ Invert(p) \in MatchesBetween(d[1], d[2])
      BY <1>8, <3>1, <3>2, ExtractedIs
    <3>4. CASE p \in MatchesBetween(d[1], d[2])
      BY <1>8, <2>2, <3>3, <3>4 DEF MatchesBetween, Of, Joined, Pairs
    <3>5. CASE Invert(p) \in MatchesBetween(d[1], d[2])
      <4>1. /\ listed[<<p[2], p[1]>>] > 0 /\ ImageOf[p[2]] = d[1] /\ ImageOf[p[1]] = d[2]
        BY <2>2, <3>3, <3>5 DEF MatchesBetween, Of
      <4>2. listed[<<p[1], p[2]>>] > 0
        BY <2>2, <3>3, <4>1 DEF CInv, IInv, Symmetric
      <4> QED
        BY <1>8, <2>2, <3>3, <4>1, <4>2 DEF Joined, Pairs
    <3> QED
      BY <3>3, <3>4, <3>5
  <2>5. ASSUME NEW p \in Joined(loaded), listed[p] > 0
        PROVE  p \in Held'
    <3>1. /\ p \in Pairs /\ ImageOf[p[1]] \in loaded /\ ImageOf[p[2]] \in loaded
      BY DEF Joined, Pairs
    <3> DEFINE i == ImageOf[p[1]]
               j == ImageOf[p[2]]
    <3>2. /\ i # j /\ {i, j} \in DOMAIN numMatches
          /\ listed[<<p[2], p[1]>>] > 0 /\ listed[<<p[1], p[2]>>] > 0
      BY <2>2, <2>5, <3>1 DEF CInv, IInv, Symmetric
    <3>3. i \in Nat /\ j \in Nat /\ i \in Images /\ j \in Images
      BY <1>2, <1>4, <3>1 DEF PointsAssumption
    <3>4. p \in MatchesBetween(i, j) /\ Invert(p) \in MatchesBetween(j, i)
      BY <2>2, <3>1, <3>2 DEF MatchesBetween, Of
    <3>5. CASE i < j
      <4>1. Extracted(i, j) \in todo'
        <5>1. <<i, j>> \in parts
          BY <1>9, <3>1, <3>2, <3>5
        <5> QED
          BY <1>1, <5>1
      <4>2. p \in MatchesOf(Extracted(i, j)) /\ Extracted(i, j).image1 # Extracted(i, j).image2
        BY <3>1, <3>2, <3>3, <3>4, ExtractedIs
      <4> QED
        BY <2>1, <4>1, <4>2
    <3>6. CASE j < i
      <4>1. Extracted(j, i) \in todo'
        <5>1. <<j, i>> \in parts
          <6>1. {j, i} = {i, j}
            OBVIOUS
          <6> QED
            BY <1>9, <3>1, <3>2, <3>6, <6>1
        <5> QED
          BY <1>1, <5>1
      <4>2. p \in MatchesOf(Extracted(j, i)) /\ Extracted(j, i).image1 # Extracted(j, i).image2
        BY <3>1, <3>2, <3>3, <3>4, ExtractedIs
      <4> QED
        BY <2>1, <4>1, <4>2
    <3> QED
      BY <3>2, <3>3, <3>5, <3>6
  <2> QED
    BY <1>1, <2>3, <2>4, <2>5
<1>12. DOMAIN numMatches' \cup {Ends(g) : g \in todo'} = {p \in source'.pairs : p \subseteq images'}
  <2>1. DOMAIN numMatches' = {} /\ source'.pairs = DOMAIN numMatches
    BY <1>1
  <2>2. ASSUME NEW g \in todo'
        PROVE  Ends(g) \in DOMAIN numMatches /\ Ends(g) \subseteq loaded
    <3>1. PICK d \in parts : g = Extracted(d[1], d[2])
      BY <1>1
    <3>2. Ends(g) = {d[1], d[2]}
      BY <1>8, <3>1, ExtractedIs
    <3> QED
      BY <1>8, <3>2
  <2>3. ASSUME NEW p \in DOMAIN numMatches, p \subseteq loaded
        PROVE  \E g \in todo' : Ends(g) = p
    <3>1. PICK i \in Images, j \in Images : i # j /\ p = {i, j}
      BY <1>2
    <3>2. i \in Nat /\ j \in Nat /\ i \in loaded /\ j \in loaded /\ p = {j, i}
      BY <2>3, <3>1 DEF PointsAssumption
    <3>3. CASE i < j
      <4>1. Extracted(i, j) \in todo'
        <5>1. <<i, j>> \in parts
          BY <1>9, <3>1, <3>2, <3>3
        <5> QED
          BY <1>1, <5>1
      <4> QED
        BY <3>1, <4>1, ExtractedIs
    <3>4. CASE j < i
      <4>1. Extracted(j, i) \in todo'
        <5>1. <<j, i>> \in parts
          BY <1>9, <3>2, <3>4
        <5> QED
          BY <1>1, <5>1
      <4> QED
        BY <3>2, <4>1, ExtractedIs
    <3> QED
      BY <3>1, <3>2, <3>3, <3>4
  <2> QED
    BY <1>1, <2>1, <2>2, <2>3
<1>13. images' = source'.images \cap InFrames(FramesOf(images'))
  BY <1>1, <1>4
<1>14. OfSource'
  <2>1. ASSUME NEW g \in todo' PROVE g.image1 # g.image2
    <3>1. PICK d \in parts : g = Extracted(d[1], d[2])
      BY <1>1
    <3>2. Extracted(d[1], d[2]).image1 = d[1] /\ Extracted(d[1], d[2]).image2 = d[2]
      BY DEF Extracted
    <3>3. d[1] < d[2] /\ d[1] \in Nat /\ d[2] \in Nat
      BY <1>8
    <3> QED
      BY <3>1, <3>2, <3>3
  <2> QED
    BY <1>1, <1>11, <1>12, <1>13, <2>1 DEF OfSource, FramesOf, InFrames, Joined, Ends
<1>15. CacheTypeOK'
  BY <1>1, <1>2, <1>7 DEF CInv, CacheTypeOK, IInv
<1>16. NothingThrows' /\ Places'
  BY <1>1, <1>2, <1>10, <1>14 DEF NothingThrows, Places
<1> QED
  BY <1>7, <1>15, <1>16 DEF CInv

-----------------------------------------------------------------------------
(* What was chosen does not change while the graph is filled. *)
LEMMA ChoiceKept ==
    ASSUME at \in {"load", "filter"}, Places, Held' = Held,
           UNCHANGED <<images, rows, marked, options, source>>, todo' \subseteq todo,
           DOMAIN numMatches' \cup {Ends(g) : g \in todo'}
              = DOMAIN numMatches \cup {Ends(g) : g \in todo}
              \/ at = "load"
    PROVE  (at = "load" => OfDatabase') /\ (at = "filter" => OfSource')
<1>1. ASSUME at = "load" PROVE OfDatabase'
  <2>1. OfDatabase
    BY <1>1 DEF Places
  <2>2. UsableRows' = UsableRows
    BY DEF UsableRows, Usable
  <2>3. FramesOf(images') = FramesOf(images) /\ Joined(images') = Joined(images)
    OBVIOUS
  <2> QED
    BY <2>1, <2>2, <2>3 DEF OfDatabase, FramesOf, InFrames, Joined, MatchesOf, Invert, Ends
<1>2. ASSUME at = "filter" PROVE OfSource'
  <2>1. OfSource
    BY <1>2 DEF Places
  <2>2. DOMAIN numMatches' \cup {Ends(g) : g \in todo'}
           = DOMAIN numMatches \cup {Ends(g) : g \in todo}
    BY <1>2
  <2> QED
    BY <2>1, <2>2 DEF OfSource, FramesOf, InFrames, Joined, Ends
<1> QED
  BY <1>1, <1>2

LEMMA AddNextInv ==
    ASSUME PointsAssumption, CInv, AddNext
    PROVE  CInv'
<1>1. PICK g \in todo :
         /\ at \in {"load", "filter"} /\ Idle /\ todo' = todo \ {g}
         /\ UNCHANGED <<rows, marked, options, source>>
         /\ \/ AddTwoViewGeometry(g) /\ UNCHANGED at
            \/ g.image1 = g.image2 /\ UNCHANGED <<graph, at>>
            \/ g.image1 # g.image2 /\ ~(Ends(g) \subseteq images) /\ at' = "threw" /\ UNCHANGED graph
  BY DEF AddNext
<1>2. /\ Addable /\ g \in Geometry /\ Fits(g) /\ Ends(g) \subseteq images
      /\ Ends(g) \notin DOMAIN numMatches /\ ~thrown
  BY <1>1 DEF CInv, Places, Addable, NothingThrows
<1>3. CASE AddTwoViewGeometry(g) /\ UNCHANGED at
  <2>1. /\ g.image1 # g.image2 /\ adding' = g /\ UNCHANGED <<images, listed, finalized, thrown>>
        /\ numMatches' = Extended(numMatches, Ends(g), Len(g.matches))
    BY <1>2, <1>3 DEF AddTwoViewGeometry
  <2>2. DOMAIN numMatches' = DOMAIN numMatches \cup {Ends(g)}
    BY <2>1 DEF Extended
  <2>3. IInv' /\ Oriented'
    BY <1>2, <1>3, AddInv, AddOriented DEF CInv
  <2>4. Held' = Held
    BY <1>1, <2>1, BeginHeld
  <2>5. Addable'
    <3>1. \A h \in todo' : h \in todo /\ h # g
      BY <1>1
    <3>2. \A h \in todo' : Ends(h) # Ends(g)
      BY <1>2, <3>1 DEF Addable
    <3>3. \A h \in todo' : Ends(h) \notin DOMAIN numMatches'
      BY <1>2, <2>2, <3>1, <3>2 DEF Addable
    <3>4. \A h, k \in todo' : Ends(h) = Ends(k) => h = k
      BY <1>2, <3>1 DEF Addable
    <3>5. \A h \in todo' : h \in Geometry /\ Fits(h) /\ Ends(h) \subseteq images'
      BY <1>2, <2>1, <3>1 DEF Addable
    <3>6. ~finalized'
      BY <1>2, <2>1 DEF Addable
    <3> QED
      BY <3>3, <3>4, <3>5, <3>6 DEF Addable
  <2>6. DOMAIN numMatches' \cup {Ends(h) : h \in todo'}
           = DOMAIN numMatches \cup {Ends(h) : h \in todo}
    <3>1. {Ends(h) : h \in todo} = {Ends(h) : h \in todo \ {g}} \cup {Ends(g)}
      OBVIOUS
    <3> QED
      BY <1>1, <2>2, <3>1
  <2>7. (at = "load" => OfDatabase') /\ (at = "filter" => OfSource')
    BY <1>1, <2>1, <2>4, <2>6, ChoiceKept DEF CInv
  <2>8. CacheTypeOK'
    BY <1>1, <1>3, <2>3 DEF CInv, CacheTypeOK, IInv
  <2>9. NothingThrows' /\ Places'
    BY <1>1, <1>3, <2>1, <2>5, <2>7 DEF CInv, NothingThrows, Places
  <2> QED
    BY <2>3, <2>8, <2>9 DEF CInv
<1>4. CASE g.image1 = g.image2 /\ UNCHANGED <<graph, at>>
  <2>1. UNCHANGED <<images, listed, numObservations, numCorrespondences, numMatches,
                    direction, adding, finalized, thrown, at>>
    BY <1>4 DEF graph
  <2>2. IInv' /\ Oriented'
    BY <1>4, OtherInv, SameOriented DEF CInv, graph
  <2>3. Held' = Held
    BY <1>1, <1>4, <2>1, DropHeld
  <2>4. Addable'
    BY <1>1, <1>2, <2>1 DEF Addable, Fits, Ends, Of
  <2>5. CASE at = "load"
    <3>1. OfDatabase'
      BY <1>1, <2>1, <2>3, <2>5, ChoiceKept DEF CInv
    <3>2. CacheTypeOK'
      BY <1>1, <2>1, <2>2 DEF CInv, CacheTypeOK, IInv
    <3>3. NothingThrows' /\ Places'
      BY <1>1, <2>1, <2>4, <2>5, <3>1 DEF CInv, NothingThrows, Places
    <3> QED
      BY <2>2, <3>2, <3>3 DEF CInv
  <2>6. CASE at = "filter"
    <3>1. FALSE
      BY <1>4, <2>6 DEF CInv, Places, OfSource
    <3> QED
      BY <3>1
  <2> QED
    BY <1>1, <2>5, <2>6
<1>5. ~(g.image1 # g.image2 /\ ~(Ends(g) \subseteq images))
  BY <1>2
<1> QED
  BY <1>1, <1>3, <1>4, <1>5

-----------------------------------------------------------------------------
LEMMA BuildInv ==
    ASSUME PointsAssumption, CInv, Build
    PROVE  CInv'
<1>1. /\ at \in {"load", "filter"} /\ AddStep
      /\ UNCHANGED <<rows, marked, options, todo, source, at>>
  BY DEF Build, cache
<1>2. Addable /\ ~finalized /\ ~thrown /\ IInv /\ Oriented
  BY <1>1 DEF CInv, Places, Addable, NothingThrows
<1>3. IInv'
  BY <1>1, <1>2, AddMatchInv, SkipInv, OtherInv DEF AddStep
<1>4. Oriented'
  BY <1>1, <1>2, StepOriented
<1>5. Held' = Held
  BY <1>1, <1>2, StepHeld
<1>6. /\ DOMAIN numMatches' = DOMAIN numMatches
      /\ UNCHANGED <<images, finalized, thrown>>
  BY <1>1 DEF AddStep, AddMatch, SkipMatch, MatchesAdded
<1>7. Addable'
  BY <1>1, <1>2, <1>6 DEF Addable, Fits, Ends, Of
<1>8. DOMAIN numMatches' \cup {Ends(g) : g \in todo'}
         = DOMAIN numMatches \cup {Ends(g) : g \in todo}
  BY <1>1, <1>6
<1>9. (at = "load" => OfDatabase') /\ (at = "filter" => OfSource')
  BY <1>1, <1>5, <1>6, <1>8, ChoiceKept DEF CInv
<1>10. CacheTypeOK'
  BY <1>1, <1>3 DEF CInv, CacheTypeOK, IInv
<1>11. NothingThrows' /\ Places'
  BY <1>1, <1>2, <1>6, <1>7, <1>9 DEF NothingThrows, Places
<1> QED
  BY <1>3, <1>4, <1>10, <1>11 DEF CInv

LEMMA FinishInv ==
    ASSUME PointsAssumption, CInv, Finish
    PROVE  CInv'
<1>1. /\ at \in {"load", "filter"} /\ todo = {} /\ Finalize /\ Idle
      /\ at' = (IF at = "load" THEN "loaded" ELSE "filtered")
      /\ UNCHANGED <<rows, marked, options, todo, source, images, listed, numMatches,
                     direction, adding, thrown>>
  BY DEF Finish, Finalize
<1>2. IInv'
  BY <1>1, OtherInv DEF CInv
<1>3. Oriented'
  BY <1>1, SameOriented DEF CInv
<1>4. Held' = Held
  BY <1>1 DEF Held, ListedPairs, ToCome, MatchesOf, Waiting, Invert, Pairs
<1>5. (at = "load" => OfDatabase') /\ (at = "filter" => OfSource')
  BY <1>1, <1>4, ChoiceKept DEF CInv
<1>6. CacheTypeOK'
  BY <1>1, <1>2 DEF CInv, CacheTypeOK, IInv
<1>7. NothingThrows'
  BY <1>1 DEF CInv, NothingThrows
<1>8. Places'
  BY <1>1, <1>5 DEF Places, Idle, NoGeometry
<1> QED
  BY <1>2, <1>3, <1>6, <1>7, <1>8 DEF CInv

LEMMA SameInv ==
    ASSUME CInv, UNCHANGED <<graph, cache>>
    PROVE  CInv'
<1>1. UNCHANGED <<images, listed, numObservations, numCorrespondences, numMatches,
                  direction, adding, finalized, thrown, rows, marked, options, todo,
                  source, at>>
  BY DEF graph, cache
<1>2. IInv' /\ Oriented'
  BY OtherInv, SameOriented DEF CInv, graph
<1>3. Held' = Held
  BY <1>1 DEF Held, ListedPairs, ToCome, MatchesOf, Waiting, Invert, Pairs
<1>4. (Blank => Blank') /\ (Addable => Addable') /\ (Idle => Idle')
  BY <1>1 DEF Blank, Addable, Fits, Ends, Of, Idle, NoGeometry
<1>5. UsableRows' = UsableRows
  BY <1>1 DEF UsableRows, Usable
<1>6. OfDatabase => OfDatabase'
  BY <1>1, <1>3, <1>5 DEF OfDatabase, FramesOf, InFrames, Joined, MatchesOf, Invert, Ends
<1>7. OfSource => OfSource'
  BY <1>1, <1>3 DEF OfSource, FramesOf, InFrames, Joined, Ends
<1>8. CacheTypeOK' /\ NothingThrows'
  BY <1>1, <1>2 DEF CInv, CacheTypeOK, IInv, NothingThrows
<1>9. Places'
  BY <1>1, <1>4, <1>6, <1>7 DEF CInv, Places
<1> QED
  BY <1>2, <1>8, <1>9 DEF CInv

LEMMA CacheInvariance ==
    ASSUME PointsAssumption, RowsAssumption
    PROVE  CacheSpec => []CInv
<1>1. CacheInit => CInv
  BY CacheInitInv
<1>2. CInv /\ [CacheNext]_<<graph, cache>> => CInv'
  BY LoadInv, CreateInv, AddNextInv, BuildInv, FinishInv, SameInv DEF CacheNext
<1> QED
  BY <1>1, <1>2, PTL DEF CacheSpec

(* Whatever is selected: images_.at() finds both images of every pair, and no  *)
(* pair is added twice (scene/database_cache.cc:239-300, 327-408,            *)
(* scene/correspondence_graph.cc:112-126).                                   *)
THEOREM CacheNeverThrows ==
    ASSUME PointsAssumption, RowsAssumption
    PROVE  CacheSpec => []NothingThrows
BY CacheInvariance, PTL DEF CInv

(* The cache, its graph and the work that is left are what the code declares   *)
(* them to be (scene/database_cache.h, scene/correspondence_graph.h).        *)
THEOREM CacheTypeCorrect ==
    ASSUME PointsAssumption, RowsAssumption
    PROVE  CacheSpec => []CacheTypeOK
BY CacheInvariance, PTL DEF CInv

(* The graph of a cache is symmetric, counted and directed as any graph is,   *)
(* also when it is made anew from a part of another.                         *)
THEOREM CacheGraphSound ==
    ASSUME PointsAssumption, RowsAssumption
    PROVE  CacheSpec => [](Symmetric /\ CountsAgree /\ Directed)
<1>1. CInv => Symmetric /\ CountsAgree /\ Directed
  BY CountedAgree DEF CInv, IInv, Oriented
<1> QED
  BY <1>1, CacheInvariance, PTL

(* When nothing is left to come, what is held is what is listed. *)
LEMMA AllListed ==
    ASSUME CInv, at \in {"loaded", "filtered"}
    PROVE  Held = ListedPairs
<1>1. todo = {} /\ adding = NoGeometry
  BY DEF CInv, Places, Idle
<1>2. ToCome = {}
  BY <1>1 DEF ToCome
<1>3. Waiting(adding.matches) = {}
  BY <1>1, WaitingNone DEF NoGeometry
<1> QED
  BY <1>2, <1>3 DEF Held

(* A loaded graph is the database restricted to the images that are loaded,  *)
(* these come with all others of their frames and, unless all are asked for,  *)
(* with a usable pair; a smaller cache has every match of its source between  *)
(* its images (scene/database_cache.cc:60-300, 327-408).                     *)
THEOREM CacheAlwaysDatabase ==
    ASSUME PointsAssumption, RowsAssumption
    PROVE  CacheSpec => []CacheIsDatabase
<1>1. ASSUME CInv PROVE GraphIsDatabase
  <2> SUFFICES ASSUME at = "loaded" PROVE GraphIsDatabase
    BY DEF GraphIsDatabase
  <2>1. OfDatabase /\ Held = ListedPairs
    BY <1>1, AllListed DEF CInv, Places
  <2>2. {g \in UsableRows : g.image1 # g.image2}
           = {g \in rows : g.image1 # g.image2 /\ Usable(Ends(g), Len(g.matches), options)}
    BY DEF UsableRows
  <2> QED
    BY <2>1, <2>2 DEF OfDatabase, GraphIsDatabase
<1>2. ASSUME CInv PROVE FramesWhole
  <2>1. ASSUME at = "loaded"
        PROVE  /\ images = InFrames(FramesOf(images))
               /\ ~options.all => \A f \in FramesOf(images) : \E g \in rows :
                     f \in FramesOf(Ends(g)) /\ Usable(Ends(g), Len(g.matches), options)
    BY <1>2, <2>1 DEF CInv, Places, OfDatabase, UsableRows
  <2>2. at = "filtered" => images = source.images \cap InFrames(FramesOf(images))
    BY <1>2 DEF CInv, Places, OfSource
  <2> QED
    BY <2>1, <2>2 DEF FramesWhole
<1>3. ASSUME CInv PROVE FilterKeeps
  <2> SUFFICES ASSUME at = "filtered" PROVE FilterKeeps
    BY DEF FilterKeeps
  <2>1. OfSource /\ Held = ListedPairs /\ todo = {}
    BY <1>3, AllListed DEF CInv, Places
  <2>2. DOMAIN numMatches = {p \in source.pairs : p \subseteq images}
    BY <2>1 DEF OfSource
  <2> QED
    BY <2>1, <2>2 DEF OfSource, FilterKeeps
<1>4. CInv => CacheIsDatabase
  BY <1>1, <1>2, <1>3 DEF CacheIsDatabase
<1> QED
  BY <1>4, CacheInvariance, PTL
==============================================================================

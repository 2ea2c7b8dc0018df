------------------------- MODULE FeatureMatching_proofs -------------------------
(***************************************************************************)
(* For any threads, any lists of pairs, any rows that are there at the      *)
(* start and any number of runs: none of the checks of Match() fires, every *)
(* listed pair has both its rows when the generator has finished, and no    *)
(* geometry appears without its matches, wherever a run is killed.          *)
(*                                                                         *)
(* For any number of images, any options and any pairs that matched: what   *)
(* the generators of pairs return; and for any threads and any queries that *)
(* throw, that the vocabulary tree's generator answers every query once.    *)
(***************************************************************************)
EXTENDS PairMatching, FiniteSetTheorems, SequenceTheorems, WellFoundedInduction,
        NaturalsInduction, TLAPS

(* What the lists hold: an image with itself, or a pair to match. *)
Entries == {ip \in Nat \X Nat : ip[1] = ip[2] \/ PairId(ip) \in Pairs}
Typed == TypeOK /\ todo \in Seq(Seq(Entries)) /\ batch \in Seq(Entries)

Matching == mode # "verification"

(* The thread is in Match() or Verify(), and has a pair in hand. *)
Writing == {"reuse", "write matches", "clear geometry", "write geometry"}
InMatch == {"prepare", "collect"} \cup Writing

(* The pairs that are on their way: in a queue, with a worker, or with the   *)
(* matching thread.                                                          *)
Queued == {p \in Pairs : \E q \in Queues : \E k \in 1 .. Len(queue[q]) : queue[q][k].pair = p}
Held == {p \in Pairs : \E w \in Workers : hand[w].pair = p}
Moving == Queued \cup Held
Flying == Moving \cup ({output.pair} \cap Pairs)

(* Each of them is in one place. *)
QueuedOnce ==
    \A q, r \in Queues : \A k \in 1 .. Len(queue[q]), l \in 1 .. Len(queue[r]) :
        queue[q][k].pair = queue[r][l].pair => q = r /\ k = l
HeldOnce == \A w, x \in Workers : hand[w].pair = hand[x].pair => w = x \/ hand[w] = NoData
OnePlace == QueuedOnce /\ HeldOnce /\ Queued \cap Held = {} /\ output.pair \notin Moving

(* There are as many as Match() still waits for, and all were listed in this *)
(* call.                                                                     *)
Counted ==
    /\ due = Cardinality(Flying)
    /\ Flying \subseteq seen
    /\ pc \notin InMatch => Flying = {}
    /\ output = NoData <=> pc \notin Writing
    /\ pc = "setup" => seen = {}
    /\ pc \notin {"prepare", "reuse"} => batch = <<>>
    /\ pc # "rig" => rig = {} /\ replacing = {}

(* Their rows are such that what is written next is not there, and that a    *)
(* geometry is written where the matches are.                                *)
RowsReady ==
    /\ Matching => \A p \in Moving : matches[p] = "none" /\ geometry[p] = "none"
    /\ pc = "reuse" /\ Matching => geometry[output.pair] = "none"
    /\ pc = "write matches" =>
          Matching /\ matches[output.pair] = "none" /\ geometry[output.pair] = "none"
    /\ pc = "clear geometry" => ~Matching
    /\ pc = "write geometry" => geometry[output.pair] = "none"
    /\ pc \in {"reuse", "clear geometry", "write geometry"} => matches[output.pair] # "none"

(* The pairs of a list, and of the lists to come. *)
IdsOf(b) == {PairId(b[k]) : k \in 1 .. Len(b)} \cap Pairs
ListedIn(t) == UNION {IdsOf(t[k]) : k \in 1 .. Len(t)}
Ahead == IdsOf(batch) \cup ListedIn(todo)

(* Verify() and the verification of rigs work on pairs that have matches. *)
VerifiedHasMatches ==
    /\ ~Matching => \A p \in Moving \cup Ahead : matches[p] # "none"
    /\ \A p \in rig \cup replacing : matches[p] # "none"

(* No pair is forgotten, and one that was seen in this call is done or on    *)
(* its way.                                                                  *)
NoneForgotten ==
    Matching /\ (pc = "next" \/ pc \in InMatch) =>
        \A p \in Wanted :
            /\ p \in seen => Both(p) \/ p \in Flying
            /\ Both(p) \/ p \in Flying \cup Ahead

IInv ==
    /\ Typed /\ OnePlace /\ Counted /\ RowsReady
    /\ VerifiedHasMatches /\ NoneForgotten /\ NoAbort

-----------------------------------------------------------------------------
(* Pairs and lists. *)

LEMMA FunctionIsList ==
    ASSUME NEW S, NEW n \in Nat, NEW f \in [1 .. n -> S]
    PROVE  f \in Seq(S)
OBVIOUS

LEMMA TwoElements == \A x, y : x # y => Cardinality({x, y}) = 2
<1> SUFFICES ASSUME NEW x, NEW y, x # y PROVE Cardinality({x, y}) = 2
  OBVIOUS
<1>1. Cardinality({x}) = 1 /\ IsFiniteSet({x})
  BY FS_Singleton
<1>2. Cardinality({x} \cup {y}) = Cardinality({x}) + 1
  BY <1>1, FS_AddElement
<1>3. {x} \cup {y} = {x, y}
  OBVIOUS
<1>4. Cardinality({x} \cup {y}) = 2
  BY <1>1, <1>2
<1> QED BY <1>3, <1>4

LEMMA BatchesType ==
    /\ Len(Batches) \in Nat /\ Range(Batches) = {Batches[k] : k \in 1 .. Len(Batches)}
    /\ \A k \in 1 .. Len(Batches) :
          Batches[k] \in Seq(Nat \X Nat) /\ Len(Batches[k]) \in Nat
<1>1. Len(Batches) \in Nat /\ DOMAIN Batches = 1 .. Len(Batches)
  BY BatchesAssumption, LenProperties
<1>2. \A k \in 1 .. Len(Batches) : Batches[k] \in Seq(Nat \X Nat)
  BY BatchesAssumption, ElementOfSeq
<1>3. Range(Batches) = {Batches[k] : k \in 1 .. Len(Batches)}
  BY <1>1 DEF Range
<1> QED BY <1>1, <1>2, <1>3, LenProperties

LEMMA ListedIds ==
    \A p : p \in Listed <=>
        \E k \in 1 .. Len(Batches) : \E l \in 1 .. Len(Batches[k]) : p = PairId(Batches[k][l])
<1> DEFINE M(b) == {PairId(b[l]) : l \in 1 .. Len(b)}
<1>1. Listed = UNION {M(b) : b \in Range(Batches)}
  BY DEF Listed
<1>2. ASSUME NEW p
      PROVE  p \in Listed <=> \E k \in 1 .. Len(Batches) : p \in M(Batches[k])
  <2> HIDE DEF M
  <2> QED BY <1>1, BatchesType
<1> QED BY <1>2

LEMMA ListedType ==
    /\ \A p \in Pairs : \E x, y \in Nat : x < y /\ p = {x, y}
    /\ IsFiniteSet(Pairs)
<1> DEFINE Ks == 1 .. Len(Batches)
           L(k) == {PairId(Batches[k][l]) : l \in 1 .. Len(Batches[k])}
<1>0. Len(Batches) \in Nat /\ \A k \in Ks : Batches[k] \in Seq(Nat \X Nat)
  BY BatchesType
<1>1. Listed = UNION {L(k) : k \in Ks}
  BY ListedIds
<1>2. ASSUME NEW k \in Ks PROVE IsFiniteSet(L(k))
  <2> DEFINE f == [l \in 1 .. Len(Batches[k]) |-> PairId(Batches[k][l])]
  <2>1. f \in Surjection(1 .. Len(Batches[k]), L(k))
    BY DEF Surjection
  <2>2. IsFiniteSet(1 .. Len(Batches[k]))
    <3>1. Len(Batches[k]) \in Nat
      BY BatchesType
    <3> QED BY <3>1, FS_Interval
  <2> QED
    BY <2>1, <2>2, FS_Surjection DEF ExistsSurjection
<1>3. IsFiniteSet({L(k) : k \in Ks})
  <2> DEFINE f == [k \in Ks |-> L(k)]
  <2>1. f \in Surjection(Ks, {L(k) : k \in Ks})
    BY DEF Surjection
  <2>2. IsFiniteSet(Ks)
    BY <1>0, FS_Interval
  <2> HIDE DEF L
  <2> QED
    BY <2>1, <2>2, FS_Surjection DEF ExistsSurjection
<1>4. IsFiniteSet(Listed)
  <2> HIDE DEF L, Ks
  <2> QED BY <1>1, <1>2, <1>3, FS_UNION
<1>5. IsFiniteSet(Pairs)
  BY <1>4, FS_Subset DEF Pairs
<1>6. ASSUME NEW p \in Pairs PROVE \E x, y \in Nat : x < y /\ p = {x, y}
  <2>1. PICK k \in Ks : p \in L(k)
    BY <1>1 DEF Pairs
  <2>2. PICK l \in 1 .. Len(Batches[k]) : p = PairId(Batches[k][l])
    BY <2>1
  <2>3. Batches[k][l] \in Nat \X Nat
    BY <1>0, <2>2, ElementOfSeq
  <2>4. PICK x, y \in Nat : p = {x, y}
    BY <2>2, <2>3 DEF PairId
  <2>5. x # y
    <3> SUFFICES ASSUME x = y PROVE FALSE
      OBVIOUS
    <3>1. Cardinality({x}) = 1
      BY FS_Singleton
    <3> QED BY <3>1, <2>4 DEF Pairs
  <2>6. x < y \/ y < x
    BY <2>5
  <2> QED BY <2>4, <2>6
<1> QED BY <1>5, <1>6

LEMMA NoDataPair == NoData.pair = {} /\ {} \notin Pairs /\ NoData \notin Data
<1>1. {} \notin Pairs
  BY FS_EmptySet DEF Pairs
<1> QED BY <1>1 DEF NoData, Data

LEMMA OrderedPair ==
    ASSUME NEW p \in Pairs
    PROVE  <<Min(p), Max(p)>> \in Entries /\ PairId(<<Min(p), Max(p)>>) = p
<1>1. PICK x, y \in Nat : x < y /\ p = {x, y}
  BY ListedType
<1>2. Min(p) = x
  BY <1>1 DEF Min
<1>3. Max(p) = y
  BY <1>1 DEF Max
<1> QED BY <1>1, <1>2, <1>3 DEF Entries, PairId

(* The list that is made of a finite set has its elements. *)
LEMMA SetToSeqElements ==
    ASSUME NEW S, IsFiniteSet(S)
    PROVE  SetToSeq(S) \in Seq(S)
<1> DEFINE n == Cardinality(S)
<1>1. n \in Nat /\ ExistsBijection(1 .. n, S)
  BY FS_NatBijection, FS_CountingElements
<1>2. PICK f \in [1 .. n -> S] : IsInjective(f)
  BY <1>1 DEF ExistsBijection, Bijection, Injection, Surjection, IsInjective
<1>3. SetToSeq(S) \in [1 .. n -> S]
  BY <1>2 DEF SetToSeq
<1> QED BY <1>1, <1>3

LEMMA HeadOfList ==
    ASSUME NEW b \in Seq(Entries), b # <<>>
    PROVE  /\ Head(b) \in Entries /\ Tail(b) \in Seq(Entries)
           /\ IdsOf(b) = IdsOf(Tail(b)) \cup ({PairId(Head(b))} \cap Pairs)
<1>1. /\ Head(b) \in Entries /\ Tail(b) \in Seq(Entries) /\ Len(Tail(b)) = Len(b) - 1
      /\ \A i \in 1 .. Len(Tail(b)) : Tail(b)[i] = b[i + 1]
  BY HeadTailProperties
<1>2. Head(b) = b[1] /\ Len(b) \in Nat \ {0}
  BY EmptySeq, LenProperties
<1>3. ASSUME NEW k \in 1 .. Len(b) PROVE k = 1 \/ k - 1 \in 1 .. Len(Tail(b))
  BY <1>1, <1>2
<1>4. \A k \in 1 .. Len(Tail(b)) : k + 1 \in 1 .. Len(b)
  BY <1>1, <1>2
<1>5. IdsOf(b) \subseteq IdsOf(Tail(b)) \cup ({PairId(Head(b))} \cap Pairs)
  BY <1>1, <1>2, <1>3 DEF IdsOf
<1>6. IdsOf(Tail(b)) \subseteq IdsOf(b)
  BY <1>1, <1>2, <1>4 DEF IdsOf
<1>7. {PairId(Head(b))} \cap Pairs \subseteq IdsOf(b)
  BY <1>2 DEF IdsOf
<1> QED BY <1>1, <1>5, <1>6, <1>7

LEMMA HeadOfLists ==
    ASSUME NEW t \in Seq(Seq(Entries)), t # <<>>
    PROVE  /\ Head(t) \in Seq(Entries) /\ Tail(t) \in Seq(Seq(Entries))
           /\ ListedIn(t) = IdsOf(Head(t)) \cup ListedIn(Tail(t))
<1>1. /\ Head(t) \in Seq(Entries) /\ Tail(t) \in Seq(Seq(Entries)) /\ Len(Tail(t)) = Len(t) - 1
      /\ \A i \in 1 .. Len(Tail(t)) : Tail(t)[i] = t[i + 1]
  BY HeadTailProperties
<1>2. Head(t) = t[1] /\ Len(t) \in Nat \ {0}
  BY EmptySeq, LenProperties
<1>3. \A k \in 1 .. Len(t) : k = 1 \/ k - 1 \in 1 .. Len(Tail(t))
  BY <1>1, <1>2
<1>4. \A k \in 1 .. Len(Tail(t)) : k + 1 \in 1 .. Len(t)
  BY <1>1, <1>2
<1>5. ListedIn(t) \subseteq IdsOf(Head(t)) \cup ListedIn(Tail(t))
  <2> SUFFICES ASSUME NEW k \in 1 .. Len(t), NEW p \in IdsOf(t[k])
               PROVE  p \in IdsOf(Head(t)) \cup ListedIn(Tail(t))
    BY DEF ListedIn
  <2>1. CASE k = 1
    BY <2>1, <1>2
  <2>2. CASE k - 1 \in 1 .. Len(Tail(t))
    <3>1. Tail(t)[k - 1] = t[k]
      BY <1>1, <2>2, <1>2
    <3> QED BY <3>1, <2>2 DEF ListedIn
  <2> QED BY <1>3, <2>1, <2>2
<1>6. ListedIn(Tail(t)) \subseteq ListedIn(t)
  <2> SUFFICES ASSUME NEW k \in 1 .. Len(Tail(t)), NEW p \in IdsOf(Tail(t)[k])
               PROVE  p \in ListedIn(t)
    BY DEF ListedIn
  <2> QED BY <1>1, <1>4 DEF ListedIn
<1>7. IdsOf(Head(t)) \subseteq ListedIn(t)
  BY <1>2 DEF ListedIn
<1> QED BY <1>1, <1>5, <1>6, <1>7

(* What the generator returns are lists of such pairs; those that Verify()   *)
(* is given have matches, and all that are wanted come otherwise.            *)
LEMMA Generated ==
    ASSUME TypeOK, NEW t \in GeneratedBatches
    PROVE  /\ t \in Seq(Seq(Entries))
           /\ ~Matching => \A p \in ListedIn(t) : matches[p] # "none"
           /\ Matching => Pairs \subseteq ListedIn(t)
<1>1. CASE Matching
  <2>1. t = Batches
    BY <1>1 DEF GeneratedBatches, Matching
  <2>2. Batches \in Seq(Seq(Nat \X Nat)) /\ Len(Batches) \in Nat
    BY BatchesAssumption, LenProperties
  <2>3. ASSUME NEW k \in 1 .. Len(Batches) PROVE Batches[k] \in Seq(Entries)
    <3>1. Batches[k] \in Seq(Nat \X Nat) /\ Len(Batches[k]) \in Nat
      BY <2>2, ElementOfSeq, LenProperties
    <3>2. ASSUME NEW l \in 1 .. Len(Batches[k]) PROVE Batches[k][l] \in Entries
      <4>1. Batches[k][l] \in Nat \X Nat
        BY <3>1, ElementOfSeq
      <4>2. PairId(Batches[k][l]) \in Listed
        BY ListedIds
      <4>3. Batches[k][l][1] # Batches[k][l][2] => Cardinality(PairId(Batches[k][l])) = 2
        BY <4>1, TwoElements DEF PairId
      <4> QED BY <4>1, <4>2, <4>3 DEF Entries, Pairs
    <3>3. Batches[k] \in [1 .. Len(Batches[k]) -> Entries]
      BY <3>1, <3>2, LenProperties
    <3> QED BY <3>1, <3>3, FunctionIsList
  <2>4. Batches \in [1 .. Len(Batches) -> Seq(Entries)]
    BY <2>2, <2>3, LenProperties
  <2>5. Batches \in Seq(Seq(Entries))
    BY <2>2, <2>4, FunctionIsList
  <2>6. Pairs \subseteq ListedIn(Batches)
    <3> SUFFICES ASSUME NEW p \in Pairs PROVE p \in ListedIn(Batches)
      OBVIOUS
    <3>1. PICK k \in 1 .. Len(Batches) :
                 p \in {PairId(Batches[k][l]) : l \in 1 .. Len(Batches[k])}
      BY ListedIds DEF Pairs
    <3> QED BY <3>1 DEF ListedIn, IdsOf
  <2> QED BY <1>1, <2>1, <2>5, <2>6
<1>2. CASE ~Matching
  <2>1. PICK S \in SUBSET Pairs :
              /\ \A p \in S : matches[p] # "none"
              /\ t = <<SetToSeq({<<Min(p), Max(p)>> : p \in S})>>
    BY <1>2 DEF GeneratedBatches, Matching
  <2> DEFINE T == {<<Min(p), Max(p)>> : p \in S}
             b == SetToSeq(T)
  <2>2. T \subseteq Entries /\ \A e \in T : PairId(e) \in S
    BY OrderedPair
  <2>3. IsFiniteSet(T)
    <3>1. IsFiniteSet(S)
      BY ListedType, FS_Subset
    <3> DEFINE f == [p \in S |-> <<Min(p), Max(p)>>]
    <3>2. f \in Surjection(S, T)
      BY DEF Surjection
    <3> QED BY <3>1, <3>2, FS_Surjection DEF ExistsSurjection
  <2>4. b \in Seq(T)
    BY <2>3, SetToSeqElements
  <2>5. b \in Seq(Entries)
    BY <2>2, <2>4, SeqMonotonic
  <2>6. t = <<b>>
    BY <2>1
  <2> HIDE DEF b, T
  <2>7. t \in Seq(Seq(Entries)) /\ Len(t) = 1 /\ t[1] = b
    BY <2>5, <2>6
  <2>8. ASSUME NEW p \in ListedIn(t) PROVE matches[p] # "none"
    <3>1. p \in IdsOf(b)
      BY <2>7 DEF ListedIn
    <3>2. PICK k \in 1 .. Len(b) : p = PairId(b[k])
      BY <3>1 DEF IdsOf
    <3>3. b[k] \in T
      BY <2>4, <3>2, ElementOfSeq
    <3> QED BY <2>1, <2>2, <3>2, <3>3
  <2> QED BY <1>2, <2>7, <2>8
<1> QED BY <1>1, <1>2

-----------------------------------------------------------------------------
(* What a push and a pop do to the pairs in queues and hands. *)

LEMMA DataPair ==
    /\ \A d \in Data : d.pair \in Pairs /\ d # NoData
    /\ \A d \in Data \cup {NoData} : d.pair \in Pairs <=> d # NoData
BY NoDataPair DEF Data

LEMMA QueueType ==
    ASSUME TypeOK, NEW q \in Queues
    PROVE  /\ queue[q] \in Seq(Data) /\ Len(queue[q]) \in Nat
           /\ \A k \in 1 .. Len(queue[q]) :
                 queue[q][k] \in Data /\ queue[q][k].pair \in Queued
<1>1. queue[q] \in Seq(Data)
  BY DEF TypeOK
<1>2. Len(queue[q]) \in Nat /\ \A k \in 1 .. Len(queue[q]) : queue[q][k] \in Data
  BY <1>1, LenProperties, ElementOfSeq
<1> QED BY <1>1, <1>2, DataPair DEF Queued

LEMMA AppendQueue ==
    ASSUME TypeOK, QueuedOnce, NEW q \in Queues, NEW d \in Data, d.pair \notin Queued,
           queue' = [queue EXCEPT ![q] = Append(@, d)]
    PROVE  /\ queue' \in [Queues -> Seq(Data)]
           /\ Queued' = Queued \cup {d.pair} /\ QueuedOnce'
<1> DEFINE n == Len(queue[q])
           s == Append(queue[q], d)
<1>1. /\ queue[q] \in Seq(Data) /\ s \in Seq(Data) /\ Len(s) = n + 1 /\ n \in Nat
      /\ \A k \in 1 .. n : s[k] = queue[q][k]
      /\ s[n + 1] = d
  BY QueueType, AppendProperties
<1>2. queue \in [Queues -> Seq(Data)] /\ queue'[q] = s /\ \A r \in Queues : r # q => queue'[r] = queue[r]
  BY DEF TypeOK
<1> HIDE DEF s
<1>3. queue' \in [Queues -> Seq(Data)]
  BY <1>1, <1>2 DEF s
<1>4. ASSUME NEW r \in Queues, NEW k \in 1 .. Len(queue'[r])
      PROVE  \/ r = q /\ k = n + 1 /\ queue'[r][k] = d
             \/ k \in 1 .. Len(queue[r]) /\ queue'[r][k] = queue[r][k]
  BY <1>1, <1>2
<1>5. ASSUME NEW r \in Queues, NEW k \in 1 .. Len(queue[r])
      PROVE  k \in 1 .. Len(queue'[r]) /\ queue'[r][k] = queue[r][k]
  BY <1>1, <1>2
<1>6. n + 1 \in 1 .. Len(queue'[q]) /\ queue'[q][n + 1] = d
  BY <1>1, <1>2
<1>7. Queued' \subseteq Queued \cup {d.pair}
  BY <1>4 DEF Queued
<1>8. Queued \cup {d.pair} \subseteq Queued'
  BY <1>5, <1>6, DataPair DEF Queued
<1>9. QueuedOnce'
  <2> SUFFICES ASSUME NEW r1 \in Queues, NEW r2 \in Queues,
                      NEW k1 \in 1 .. Len(queue'[r1]), NEW k2 \in 1 .. Len(queue'[r2]),
                      queue'[r1][k1].pair = queue'[r2][k2].pair
               PROVE  r1 = r2 /\ k1 = k2
    BY DEF QueuedOnce
  <2>1. CASE k1 \in 1 .. Len(queue[r1]) /\ queue'[r1][k1] = queue[r1][k1]
    <3>1. queue'[r1][k1].pair # d.pair
      BY <2>1, QueueType
    <3>2. k2 \in 1 .. Len(queue[r2]) /\ queue'[r2][k2] = queue[r2][k2]
      BY <1>4, <3>1
    <3> QED BY <2>1, <3>2 DEF QueuedOnce
  <2>2. CASE r1 = q /\ k1 = n + 1 /\ queue'[r1][k1] = d
    <3>1. ~(k2 \in 1 .. Len(queue[r2]) /\ queue'[r2][k2] = queue[r2][k2])
      BY <2>2, QueueType
    <3> QED BY <1>4, <2>2, <3>1
  <2> QED BY <1>4, <2>1, <2>2
<1> QED BY <1>3, <1>7, <1>8, <1>9

LEMMA TailQueue ==
    ASSUME TypeOK, QueuedOnce, NEW q \in Queues, queue[q] # <<>>,
           queue' = [queue EXCEPT ![q] = Tail(@)]
    PROVE  /\ queue' \in [Queues -> Seq(Data)] /\ Head(queue[q]) \in Data
           /\ Head(queue[q]).pair \in Queued
           /\ Queued' = Queued \ {Head(queue[q]).pair} /\ QueuedOnce'
<1> DEFINE n == Len(queue[q])
           s == Tail(queue[q])
           d == Head(queue[q])
<1>1. /\ queue[q] \in Seq(Data) /\ s \in Seq(Data) /\ Len(s) = n - 1 /\ n \in Nat
      /\ \A k \in 1 .. Len(s) : s[k] = queue[q][k + 1]
  BY QueueType, HeadTailProperties
<1>2. d = queue[q][1] /\ n # 0
  BY <1>1, EmptySeq, QueueType
<1>3. queue \in [Queues -> Seq(Data)] /\ queue'[q] = s /\ \A r \in Queues : r # q => queue'[r] = queue[r]
  BY DEF TypeOK
<1> HIDE DEF s, d
<1>4. queue' \in [Queues -> Seq(Data)]
  BY <1>1, <1>3 DEF s
<1>5. d \in Data /\ d.pair \in Queued
  BY <1>1, <1>2, QueueType
<1> DEFINE Was(r, k) == IF r = q THEN k + 1 ELSE k
<1>6. ASSUME NEW r \in Queues, NEW k \in 1 .. Len(queue'[r])
      PROVE  /\ Was(r, k) \in 1 .. Len(queue[r]) /\ queue'[r][k] = queue[r][Was(r, k)]
             /\ r = q => Was(r, k) # 1
  BY <1>1, <1>2, <1>3, QueueType
<1>7. ASSUME NEW r \in Queues, NEW k \in 1 .. Len(queue[r]), ~(r = q /\ k = 1)
      PROVE  \E l \in 1 .. Len(queue'[r]) : queue'[r][l] = queue[r][k]
  <2>1. CASE r = q
    <3>1. k - 1 \in 1 .. Len(queue'[r]) /\ queue'[r][k - 1] = queue[r][k]
      BY <1>1, <1>2, <1>3, <1>7, <2>1
    <3> QED BY <3>1
  <2>2. CASE r # q
    BY <2>2, <1>3
  <2> QED BY <2>1, <2>2
<1>8. 1 \in 1 .. Len(queue[q])
  BY <1>1, <1>2
<1>9. Queued' \subseteq Queued \ {d.pair}
  <2> SUFFICES ASSUME NEW r \in Queues, NEW k \in 1 .. Len(queue'[r])
               PROVE  queue'[r][k].pair \in Queued \ {d.pair}
    BY DEF Queued
  <2>1. queue[r][Was(r, k)].pair # d.pair
    BY <1>2, <1>6, <1>8 DEF QueuedOnce
  <2> QED BY <1>6, <2>1, QueueType
<1>10. Queued \ {d.pair} \subseteq Queued'
  <2> SUFFICES ASSUME NEW p \in Queued, p # d.pair PROVE p \in Queued'
    OBVIOUS
  <2>1. PICK r \in Queues : \E k \in 1 .. Len(queue[r]) : queue[r][k].pair = p
    BY DEF Queued
  <2>2. PICK k \in 1 .. Len(queue[r]) : queue[r][k].pair = p
    BY <2>1
  <2>3. ~(r = q /\ k = 1)
    BY <2>2, <1>2
  <2>4. \E l \in 1 .. Len(queue'[r]) : queue'[r][l].pair = p
    BY <2>2, <2>3, <1>7
  <2> QED BY <2>4 DEF Queued
<1>11. QueuedOnce'
  <2> SUFFICES ASSUME NEW r1 \in Queues, NEW r2 \in Queues,
                      NEW k1 \in 1 .. Len(queue'[r1]), NEW k2 \in 1 .. Len(queue'[r2]),
                      queue'[r1][k1].pair = queue'[r2][k2].pair
               PROVE  r1 = r2 /\ k1 = k2
    BY DEF QueuedOnce
  <2> HIDE DEF Was
  <2>1. /\ Was(r1, k1) \in 1 .. Len(queue[r1]) /\ Was(r2, k2) \in 1 .. Len(queue[r2])
        /\ queue[r1][Was(r1, k1)].pair = queue[r2][Was(r2, k2)].pair
    BY <1>6
  <2>2. r1 = r2 /\ Was(r1, k1) = Was(r2, k2)
    BY <2>1 DEF QueuedOnce
  <2> QED BY <2>2, <1>1, <1>3, QueueType DEF Was
<1> QED BY <1>4, <1>5, <1>9, <1>10, <1>11 DEF d

LEMMA HandTakes ==
    ASSUME TypeOK, HeldOnce, NEW w \in Workers, hand[w] = NoData,
           NEW d \in Data, d.pair \notin Held, hand' = [hand EXCEPT ![w] = d]
    PROVE  /\ hand' \in [Workers -> Data \cup {NoData}]
           /\ Held' = Held \cup {d.pair} /\ HeldOnce'
<1>1. hand \in [Workers -> Data \cup {NoData}] /\ hand'[w] = d /\ \A x \in Workers : x # w => hand'[x] = hand[x]
  BY DEF TypeOK
<1>2. hand' \in [Workers -> Data \cup {NoData}]
  BY <1>1
<1>3. \A x \in Workers : x # w => hand'[x].pair # d.pair
  <2> SUFFICES ASSUME NEW x \in Workers, hand[x].pair = d.pair PROVE FALSE
    BY <1>1
  <2> QED BY DataPair DEF Held
<1>4. Held' = Held \cup {d.pair}
  BY <1>1, DataPair, NoDataPair DEF Held
<1>5. HeldOnce'
  BY <1>1, <1>3 DEF HeldOnce
<1> QED BY <1>2, <1>4, <1>5

LEMMA HandGives ==
    ASSUME TypeOK, HeldOnce, NEW w \in Workers, hand[w] # NoData,
           hand' = [hand EXCEPT ![w] = NoData]
    PROVE  /\ hand' \in [Workers -> Data \cup {NoData}]
           /\ hand[w] \in Data /\ hand[w].pair \in Held
           /\ Held' = Held \ {hand[w].pair} /\ HeldOnce'
<1>1. hand \in [Workers -> Data \cup {NoData}] /\ hand'[w] = NoData /\ \A x \in Workers : x # w => hand'[x] = hand[x]
  BY DEF TypeOK
<1>2. hand[w] \in Data /\ hand[w].pair \in Held
  BY <1>1, DataPair DEF Held
<1>3. \A x \in Workers : x # w => hand[x].pair # hand[w].pair
  BY <1>1, <1>2, DataPair DEF HeldOnce
<1>4. Held' = Held \ {hand[w].pair}
  BY <1>1, <1>2, <1>3, NoDataPair DEF Held
<1>5. HeldOnce'
  BY <1>1, DataPair, NoDataPair DEF HeldOnce
<1> QED BY <1>1, <1>2, <1>4, <1>5

LEMMA SameFlying ==
    ASSUME UNCHANGED <<queue, hand, output>>
    PROVE  /\ Queued' = Queued /\ Held' = Held /\ Moving' = Moving /\ Flying' = Flying
           /\ OnePlace => OnePlace'
BY DEF Queued, Held, Moving, Flying, OnePlace, QueuedOnce, HeldOnce

LEMMA NothingFlies ==
    ASSUME queue = NoQueued, hand = NoHands, output = NoData
    PROVE  Queued = {} /\ Held = {} /\ Moving = {} /\ Flying = {} /\ OnePlace
<1>1. \A q \in Queues : queue[q] = <<>> /\ 1 .. Len(queue[q]) = {}
  BY DEF NoQueued
<1>2. Queued = {} /\ QueuedOnce
  BY <1>1 DEF Queued, QueuedOnce
<1>3. Held = {} /\ HeldOnce
  BY NoDataPair DEF Held, HeldOnce, NoHands
<1> QED BY <1>2, <1>3, NoDataPair DEF Moving, Flying, OnePlace

LEMMA FlyingFinite ==
    /\ Flying \subseteq Pairs /\ IsFiniteSet(Flying)
    /\ Cardinality(Flying) \in 0 .. Cardinality(Pairs) /\ Cardinality(Pairs) \in Nat
<1>1. Flying \subseteq Pairs
  BY DEF Flying, Moving, Queued, Held
<1> QED BY <1>1, ListedType, FS_Subset, FS_CardinalityType

-----------------------------------------------------------------------------
(* One step of the matching thread. *)

LEMMA InitInv == Init => IInv
<1> SUFFICES ASSUME Init PROVE IInv
  OBVIOUS
<1>1. Queued = {} /\ Held = {} /\ Moving = {} /\ Flying = {} /\ OnePlace
  BY NothingFlies DEF Init
<1>2. Cardinality(Flying) = 0 /\ Cardinality(Pairs) \in Nat
  BY <1>1, FS_EmptySet, FlyingFinite
<1>3. NoQueued \in [Queues -> Seq(Data)] /\ NoHands \in [Workers -> Data \cup {NoData}]
  BY DEF NoQueued, NoHands
<1>4. Typed
  <2>1. due \in 0 .. Cardinality(Pairs) /\ runs \in 1 .. MaxRuns
    BY <1>2, BoundsAssumption DEF Init
  <2>2. todo \in Seq(Seq(Entries)) /\ batch \in Seq(Entries)
    BY DEF Init
  <2> QED BY <1>3, <2>1, <2>2 DEF Typed, TypeOK, Init
<1>5. Counted
  BY <1>1, <1>2 DEF Counted, Init, InMatch, Writing
<1>6. RowsReady
  BY <1>1 DEF RowsReady, Init
<1>7. VerifiedHasMatches
  BY <1>1 DEF VerifiedHasMatches, Init, Ahead, IdsOf, ListedIn
<1>8. NoneForgotten /\ NoAbort
  BY DEF NoneForgotten, NoAbort, Init, InMatch, Writing
<1> QED BY <1>1, <1>4, <1>5, <1>6, <1>7, <1>8 DEF IInv

LEMMA SetupStep == ASSUME IInv, Setup PROVE IInv'
<1> USE DEF Setup, Goto, rows, workers, rigging
<1>1. /\ Queued' = Queued /\ Held' = Held /\ Moving' = Moving /\ Flying' = Flying /\ OnePlace'
  BY SameFlying DEF IInv
<1>2. Flying = {} /\ Moving = {} /\ output = NoData
  BY DEF IInv, Counted, InMatch, Writing, Flying
<1>3. \/ pc' = "next" /\ todo' \in GeneratedBatches
      \/ pc' = "wait" /\ todo' = todo /\ Matching
  BY DEF Matching
<1>4. /\ todo' \in Seq(Seq(Entries))
      /\ ~Matching => \A p \in ListedIn(todo') : matches[p] # "none"
      /\ Matching /\ pc' = "next" => Pairs \subseteq ListedIn(todo')
  BY <1>3, Generated DEF IInv, Typed
<1>5. Typed'
  BY <1>3, <1>4 DEF IInv, Typed, TypeOK
<1>6. Counted'
  BY <1>1, <1>2, <1>3 DEF IInv, Counted, InMatch, Writing
<1>7. RowsReady'
  BY <1>1, <1>2, <1>3 DEF IInv, RowsReady, Matching
<1>8. VerifiedHasMatches'
  BY <1>1, <1>4 DEF IInv, VerifiedHasMatches, Matching, Ahead
<1>9. NoneForgotten'
  <2>1. seen' = {}
    BY DEF IInv, Counted
  <2> QED BY <1>3, <1>4, <2>1 DEF NoneForgotten, Matching, Ahead, InMatch, Writing, Wanted
<1>10. NoAbort'
  BY <1>3 DEF NoAbort
<1> QED BY <1>1, <1>5, <1>6, <1>7, <1>8, <1>9, <1>10 DEF IInv

LEMMA NextBatchStep == ASSUME IInv, NextBatch PROVE IInv'
<1> USE DEF NextBatch, Goto, rows, workers, rigging
<1>1. /\ Queued' = Queued /\ Held' = Held /\ Moving' = Moving /\ Flying' = Flying /\ OnePlace'
  BY SameFlying DEF IInv
<1>2. Flying = {} /\ Moving = {} /\ output = NoData /\ batch = <<>>
  BY DEF IInv, Counted, InMatch, Writing, Flying
<1>3. batch' \in Seq(Entries) /\ todo' \in Seq(Seq(Entries)) /\ Ahead' = ListedIn(todo)
  BY HeadOfLists DEF IInv, Typed, Ahead
<1>4. Ahead = ListedIn(todo)
  BY <1>2 DEF Ahead, IdsOf
<1>5. Typed'
  BY <1>3 DEF IInv, Typed, TypeOK
<1>6. Counted'
  BY <1>1, <1>2 DEF IInv, Counted, InMatch, Writing
<1>7. RowsReady'
  BY <1>1, <1>2 DEF IInv, RowsReady, Matching
<1>8. VerifiedHasMatches'
  BY <1>1, <1>3, <1>4 DEF IInv, VerifiedHasMatches, Matching
<1>9. NoneForgotten'
  BY <1>1, <1>2, <1>3, <1>4 DEF IInv, NoneForgotten, Matching, Both, InMatch
<1>10. NoAbort'
  BY DEF NoAbort
<1> QED BY <1>1, <1>5, <1>6, <1>7, <1>8, <1>9, <1>10 DEF IInv

LEMMA RunEndsStep == ASSUME IInv, RunEnds PROVE IInv'
<1> USE DEF RunEnds, Goto, rows, workers
<1>1. /\ Queued' = Queued /\ Held' = Held /\ Moving' = Moving /\ Flying' = Flying /\ OnePlace'
  BY SameFlying DEF IInv
<1>2. Flying = {} /\ Moving = {} /\ output = NoData /\ batch = <<>>
  BY DEF IInv, Counted, InMatch, Writing, Flying
<1>3. pc' \in {"rig", "wait"} /\ rig' \subseteq rig \cup {p \in Pairs : matches[p] = "good"}
  OBVIOUS
<1>5. Typed'
  BY <1>3 DEF IInv, Typed, TypeOK
<1>6. Counted'
  BY <1>1, <1>2, <1>3 DEF IInv, Counted, InMatch, Writing
<1>7. RowsReady'
  BY <1>1, <1>2, <1>3 DEF IInv, RowsReady, Matching
<1>8. VerifiedHasMatches'
  BY <1>1, <1>3 DEF IInv, VerifiedHasMatches, Matching, Ahead
<1>9. NoneForgotten'
  BY <1>3 DEF NoneForgotten, InMatch, Writing
<1>10. NoAbort'
  BY <1>3 DEF NoAbort
<1> QED BY <1>1, <1>5, <1>6, <1>7, <1>8, <1>9, <1>10 DEF IInv

LEMMA SkipPairStep == ASSUME IInv, SkipPair PROVE IInv'
<1> USE DEF SkipPair, rows, workers, rigging
<1>1. /\ Queued' = Queued /\ Held' = Held /\ Moving' = Moving /\ Flying' = Flying /\ OnePlace'
  BY SameFlying DEF IInv
<1> DEFINE ip == Head(batch)
           p == PairId(ip)
<1>2. /\ ip \in Entries /\ batch' \in Seq(Entries)
      /\ IdsOf(batch) = IdsOf(batch') \cup ({p} \cap Pairs)
  BY HeadOfList DEF IInv, Typed
<1>3. ip[1] # ip[2] => p \in Pairs
  BY <1>2 DEF Entries
<1>4. seen' \subseteq seen \cup ({p} \cap Pairs) /\ seen \subseteq seen'
  BY <1>3
<1>5. Ahead' \subseteq Ahead /\ Ahead \subseteq Ahead' \cup ({p} \cap Pairs)
  BY <1>2 DEF Ahead
<1>6. Typed'
  BY <1>2, <1>4 DEF IInv, Typed, TypeOK
<1>7. Counted'
  BY <1>1, <1>4 DEF IInv, Counted, InMatch, Writing
<1>8. RowsReady'
  BY <1>1 DEF IInv, RowsReady, Matching
<1>9. VerifiedHasMatches'
  BY <1>1, <1>5 DEF IInv, VerifiedHasMatches, Matching
<1>10. NoneForgotten'
  <2> SUFFICES ASSUME Matching, NEW q \in Wanted
               PROVE  /\ q \in seen' => Both(q) \/ q \in Flying
                      /\ Both(q) \/ q \in Flying \cup Ahead'
    BY <1>1 DEF NoneForgotten, Matching, Both
  <2>1. /\ q \in seen => Both(q) \/ q \in Flying
        /\ Both(q) \/ q \in Flying \cup Ahead
    BY DEF IInv, NoneForgotten, InMatch
  <2>2. CASE q # p
    BY <1>4, <1>5, <2>1, <2>2
  <2>3. CASE q = p
    <3>1. ip[1] # ip[2]
      <4> SUFFICES ASSUME ip[1] = ip[2] PROVE FALSE
        OBVIOUS
      <4>1. PICK x \in Nat : p = {x}
        BY <1>2 DEF Entries, PairId
      <4>2. Cardinality({x}) = 1
        BY FS_Singleton
      <4>3. q = {x} /\ Cardinality(q) = 2
        BY <2>3, <4>1 DEF Wanted, Pairs
      <4> QED BY <4>2, <4>3
    <3>2. q \in seen \/ Complete(q)
      BY <2>3, <3>1 DEF Repeated, Excluded, Wanted, Matching
    <3>3. Complete(q) => Both(q)
      BY <2>3 DEF Complete, Both, Matching, Sizes
    <3> QED BY <2>1, <3>2, <3>3
  <2> QED BY <2>2, <2>3
<1>11. NoAbort'
  BY DEF IInv, NoAbort
<1> QED BY <1>1, <1>6, <1>7, <1>8, <1>9, <1>10, <1>11 DEF IInv

LEMMA BatchPushedStep == ASSUME IInv, BatchPushed PROVE IInv'
<1> USE DEF BatchPushed, Goto, rows, workers, rigging
<1>1. /\ Queued' = Queued /\ Held' = Held /\ Moving' = Moving /\ Flying' = Flying /\ OnePlace'
  BY SameFlying DEF IInv
<1>2. Typed'
  BY DEF IInv, Typed, TypeOK
<1>3. Counted'
  BY <1>1 DEF IInv, Counted, InMatch, Writing
<1>4. RowsReady'
  BY <1>1 DEF IInv, RowsReady, Matching
<1>5. VerifiedHasMatches' /\ NoneForgotten'
  BY <1>1 DEF IInv, VerifiedHasMatches, NoneForgotten, Matching, Ahead, Both, InMatch
<1> QED BY <1>1, <1>2, <1>3, <1>4, <1>5 DEF IInv, NoAbort

LEMMA TakePairStep == ASSUME IInv, TakePair PROVE IInv'
<1> USE DEF TakePair, Goto, rigging
<1> DEFINE ip == Head(batch)
           p == PairId(ip)
           data == [NoData EXCEPT !.pair = p]
<1>1. /\ ip \in Entries /\ batch' \in Seq(Entries)
      /\ IdsOf(batch) = IdsOf(batch') \cup ({p} \cap Pairs)
  BY HeadOfList DEF IInv, Typed
<1>2. p \in Pairs /\ (p \notin SameFrame \/ ~Matching)
  BY <1>1 DEF Entries, Repeated, Excluded, Matching
<1>3. p \in Pairs /\ p \notin seen /\ p \in Ahead
  BY <1>1 DEF Entries, Repeated, Ahead
<1>4. data \in Data /\ data.pair = p /\ data # NoData
  BY <1>3, DataPair DEF NoData, Data, Sizes
<1>5. /\ p \notin Flying /\ p \notin Queued /\ p \notin Held /\ p \notin Moving
      /\ output = NoData
  BY <1>3 DEF IInv, Counted, Flying, Moving, Writing
<1>6. /\ seen' = seen \cup {p} /\ due' = due + 1 /\ hand' = hand
      /\ \/ matches[p] # "none" /\ pc' = "reuse" /\ output' = data /\ queue' = queue
         \/ matches[p] = "none" /\ pc' = "prepare" /\ output' = output
            /\ queue' = [queue EXCEPT !["matcher"] = Append(@, data)]
  BY DEF Push
<1> HIDE DEF ip, p, data
<1>7. /\ queue' \in [Queues -> Seq(Data)] /\ OnePlace'
      /\ Flying' = Flying \cup {p} /\ Moving' \subseteq Moving \cup {p}
      /\ pc' = "reuse" => Moving' = Moving
  <2>1. CASE pc' = "reuse"
    <3>1. queue' = queue /\ hand' = hand /\ output' = data
      BY <1>6, <2>1
    <3>2. Queued' = Queued /\ Held' = Held /\ QueuedOnce' /\ HeldOnce'
      BY <3>1 DEF Queued, Held, QueuedOnce, HeldOnce, IInv, OnePlace
    <3>3. Moving' = Moving
      BY <3>2 DEF Moving
    <3>4. OnePlace'
      BY <1>4, <1>5, <3>1, <3>2, <3>3 DEF IInv, OnePlace
    <3>5. Flying' = Flying \cup {p}
      BY <1>3, <1>4, <1>5, <3>1, <3>3, NoDataPair DEF Flying
    <3> QED BY <3>1, <3>3, <3>4, <3>5 DEF IInv, Typed, TypeOK
  <2>2. CASE pc' = "prepare"
    <3>1. queue' = [queue EXCEPT !["matcher"] = Append(@, data)] /\ output' = output
      BY <1>6, <2>2
    <3>2. queue' \in [Queues -> Seq(Data)] /\ Queued' = Queued \cup {p} /\ QueuedOnce'
      BY <1>4, <1>5, <3>1, AppendQueue DEF IInv, Typed, OnePlace, Queues
    <3>3. Held' = Held /\ HeldOnce'
      BY <1>6 DEF Held, HeldOnce, IInv, OnePlace
    <3>4. Moving' = Moving \cup {p}
      BY <3>2, <3>3 DEF Moving
    <3> QED BY <1>3, <1>5, <2>2, <3>1, <3>2, <3>3, <3>4, NoDataPair DEF IInv, OnePlace, Flying
  <2> QED BY <1>6, <2>1, <2>2
<1>8. due' = Cardinality(Flying') /\ due' \in 0 .. Cardinality(Pairs)
  <2>1. Cardinality(Flying \cup {p}) = Cardinality(Flying) + 1 /\ Cardinality(Flying) \in Nat
    <3>1. IsFiniteSet(Flying) /\ Cardinality(Flying) \in Nat
      BY FlyingFinite
    <3> QED BY <1>5, <3>1, FS_AddElement
  <2>2. Flying \cup {p} \subseteq Pairs
    BY <1>3, FlyingFinite
  <2>3. Cardinality(Flying \cup {p}) <= Cardinality(Pairs) /\ Cardinality(Pairs) \in Nat
    BY <2>2, ListedType, FS_Subset, FS_CardinalityType
  <2> QED BY <1>6, <1>7, <2>1, <2>3 DEF IInv, Counted
<1>9. geometry' = StaleGeometry(p) /\ ~Complete(p)
  BY DEF p, ip
<1>10. /\ geometry' \in [Pairs -> Sizes \cup {"none"}]
       /\ Matching => geometry'[p] = "none"
       /\ \A q \in Pairs : q # p => geometry'[q] = geometry[q]
       /\ ~Matching => geometry' = geometry
  BY <1>9, <1>3 DEF StaleGeometry, Matching, IInv, Typed, TypeOK
<1>11. Typed'
  <2>1. output' \in Data \cup {NoData} /\ seen' \subseteq Pairs
    BY <1>3, <1>4, <1>5, <1>6 DEF IInv, Typed, TypeOK
  <2>2. pc' \in {"reuse", "prepare"}
    BY <1>6
  <2> QED BY <1>1, <1>7, <1>8, <1>10, <2>1, <2>2 DEF IInv, Typed, TypeOK
<1>12. Counted'
  BY <1>4, <1>5, <1>6, <1>7, <1>8 DEF IInv, Counted, InMatch, Writing
<1>13. RowsReady'
  <2>1. Matching => \A q \in Moving' : matches'[q] = "none" /\ geometry'[q] = "none"
    <3> SUFFICES ASSUME Matching, NEW q \in Moving'
                 PROVE  matches[q] = "none" /\ geometry'[q] = "none"
      OBVIOUS
    <3>1. CASE q = p
      BY <1>5, <1>6, <1>7, <1>10, <3>1
    <3>2. CASE q # p
      <4>1. q \in Moving /\ q \in Pairs
        BY <1>7, <3>2 DEF Moving, Queued, Held
      <4> QED BY <4>1, <3>2, <1>10 DEF IInv, RowsReady
    <3> QED BY <3>1, <3>2
  <2> QED BY <2>1, <1>4, <1>6, <1>10 DEF RowsReady, Matching
<1>14. VerifiedHasMatches'
  <2>1. Ahead' \subseteq Ahead
    BY <1>1 DEF Ahead
  <2> QED BY <2>1, <1>3, <1>7 DEF IInv, VerifiedHasMatches, Matching
<1>15. NoneForgotten'
  <2> SUFFICES ASSUME Matching, NEW q \in Wanted
               PROVE  /\ q \in seen' => Both(q)' \/ q \in Flying'
                      /\ Both(q)' \/ q \in Flying' \cup Ahead'
    BY DEF NoneForgotten, Matching
  <2>1. /\ q \in seen => Both(q) \/ q \in Flying
        /\ Both(q) \/ q \in Flying \cup Ahead
    BY DEF IInv, NoneForgotten, InMatch
  <2>2. CASE q # p
    <3>1. Both(q)' <=> Both(q)
      BY <2>2, <1>10 DEF Both, Wanted
    <3>2. Ahead \subseteq Ahead' \cup {p}
      BY <1>1 DEF Ahead
    <3> QED BY <2>1, <2>2, <3>1, <3>2, <1>6, <1>7
  <2>3. CASE q = p
    BY <2>3, <1>7
  <2> QED BY <2>2, <2>3
<1> QED BY <1>6, <1>7, <1>11, <1>12, <1>13, <1>14, <1>15 DEF IInv, NoAbort

LEMMA ReuseMatchesStep == ASSUME IInv, ReuseMatches PROVE IInv'
<1> USE DEF ReuseMatches, Goto, rigging
<1> DEFINE p == output.pair
           data == [output EXCEPT !.matches = matches[p]]
<1>1. /\ output \in Data /\ p \in Pairs /\ p \in Flying /\ p \notin Moving
      /\ matches[p] \in Sizes /\ matches[p] # "none"
      /\ Matching => geometry[p] = "none"
  BY DataPair DEF IInv, Typed, TypeOK, Counted, Writing, Flying, OnePlace, RowsReady
<1>2. data \in Data /\ data.pair = p
  BY <1>1 DEF Data
<1>3. queue' = [queue EXCEPT !["verifier"] = Append(@, data)] /\ matches' = StaleMatches(p)
  BY DEF Push
<1>4. /\ matches' \in [Pairs -> Sizes \cup {"none"}]
      /\ Matching => matches'[p] = "none"
      /\ \A q \in Pairs : q # p => matches'[q] = matches[q]
      /\ ~Matching => matches' = matches
  BY <1>1, <1>3 DEF StaleMatches, Matching, IInv, Typed, TypeOK
<1> HIDE DEF p, data
<1>5. /\ queue' \in [Queues -> Seq(Data)] /\ Queued' = Queued \cup {p} /\ QueuedOnce'
  BY <1>1, <1>2, <1>3, AppendQueue DEF IInv, Typed, OnePlace, Queues, Moving
<1>6. Held' = Held /\ HeldOnce'
  BY DEF Held, HeldOnce, IInv, OnePlace
<1>7. Moving' = Moving \cup {p} /\ OnePlace'
  <2>1. Moving' = Moving \cup {p}
    BY <1>5, <1>6 DEF Moving
  <2>2. output'.pair \notin Moving'
    BY <1>1, <2>1, NoDataPair DEF Moving, Queued, Held
  <2>3. Queued' \cap Held' = {}
    BY <1>1, <1>5, <1>6 DEF Moving, IInv, OnePlace
  <2> QED BY <1>5, <1>6, <2>1, <2>2, <2>3 DEF OnePlace
<1>8. Flying' = Flying
  BY <1>1, <1>7, NoDataPair DEF Flying, p
<1>9. Typed'
  BY <1>4, <1>5 DEF IInv, Typed, TypeOK
<1>10. Counted'
  BY <1>8 DEF IInv, Counted, InMatch, Writing
<1>11. RowsReady'
  <2>1. ASSUME Matching, NEW q \in Moving' PROVE matches'[q] = "none" /\ geometry[q] = "none"
    <3>1. CASE q = p
      BY <1>1, <1>4, <2>1, <3>1
    <3>2. CASE q # p
      <4>1. q \in Moving /\ q \in Pairs
        BY <1>7, <3>2 DEF Moving, Queued, Held
      <4> QED BY <4>1, <3>2, <2>1, <1>4 DEF IInv, RowsReady
    <3> QED BY <3>1, <3>2
  <2> QED BY <2>1 DEF RowsReady, Matching
<1>12. VerifiedHasMatches'
  <2>1. \A q \in rig \cup replacing : matches'[q] # "none"
    <3> SUFFICES ASSUME NEW q \in rig \cup replacing PROVE matches'[q] # "none"
      OBVIOUS
    <3>1. q \in Pairs /\ matches[q] # "none"
      BY DEF IInv, VerifiedHasMatches, Typed, TypeOK
    <3>2. rig = {} /\ replacing = {}
      BY DEF IInv, Counted
    <3> QED BY <3>2
  <2>2. ASSUME ~Matching, NEW q \in Moving' \cup Ahead PROVE matches'[q] # "none"
    BY <1>1, <1>4, <1>7, <2>2 DEF IInv, VerifiedHasMatches
  <2> QED BY <2>1, <2>2 DEF VerifiedHasMatches, Matching, Ahead
<1>13. NoneForgotten'
  <2> SUFFICES ASSUME Matching, NEW q \in Wanted
               PROVE  /\ q \in seen' => Both(q)' \/ q \in Flying'
                      /\ Both(q)' \/ q \in Flying' \cup Ahead'
    BY DEF NoneForgotten, Matching
  <2>1. /\ q \in seen => Both(q) \/ q \in Flying
        /\ Both(q) \/ q \in Flying \cup Ahead
    BY DEF IInv, NoneForgotten, InMatch, Writing
  <2>2. q # p => (Both(q)' <=> Both(q))
    BY <1>4 DEF Both, Wanted
  <2>3. Ahead' = Ahead /\ p \in Flying'
    BY <1>1, <1>8 DEF Ahead
  <2> QED BY <2>1, <2>2, <2>3, <1>8
<1> QED BY <1>7, <1>9, <1>10, <1>11, <1>12, <1>13 DEF IInv, NoAbort

LEMMA CollectStep == ASSUME IInv, Collect PROVE IInv'
<1> USE DEF Collect, Goto, rows, rigging
<1> DEFINE p == output'.pair
<1>1. /\ queue' \in [Queues -> Seq(Data)] /\ output' \in Data /\ p \in Queued
      /\ Queued' = Queued \ {p} /\ QueuedOnce'
  BY TailQueue DEF IInv, Typed, OnePlace, Queues
<1>2. output = NoData
  BY DEF IInv, Counted, Writing
<1>3. Held' = Held /\ HeldOnce' /\ p \notin Held
  BY <1>1 DEF Held, HeldOnce, IInv, OnePlace
<1>4. Moving' = Moving \ {p} /\ OnePlace' /\ p \in Moving /\ p \in Pairs
  BY <1>1, <1>3, DataPair DEF Moving, IInv, OnePlace
<1>5. Flying' = Flying
  BY <1>2, <1>4, NoDataPair DEF Flying
<1>6. /\ pc' = IF Matching THEN "write matches" ELSE "clear geometry"
      /\ Matching => matches[p] = "none" /\ geometry[p] = "none"
      /\ ~Matching => matches[p] # "none"
  BY <1>4 DEF FirstWrite, Matching, IInv, RowsReady, VerifiedHasMatches
<1> HIDE DEF p
<1>7. Typed'
  BY <1>1, <1>6 DEF IInv, Typed, TypeOK
<1>8. Counted'
  BY <1>1, <1>5, <1>6, DataPair DEF IInv, Counted, InMatch, Writing
<1>9. RowsReady'
  BY <1>4, <1>6 DEF IInv, RowsReady, Matching, p
<1>10. VerifiedHasMatches' /\ NoneForgotten'
  BY <1>4, <1>5 DEF IInv, VerifiedHasMatches, NoneForgotten, Matching, Ahead, Both, InMatch
<1> QED BY <1>4, <1>6, <1>7, <1>8, <1>9, <1>10 DEF IInv, NoAbort

LEMMA MatchReturnsStep == ASSUME IInv, MatchReturns PROVE IInv'
<1> USE DEF MatchReturns, Goto, AllCollected, rows, workers, rigging
<1>1. /\ Queued' = Queued /\ Held' = Held /\ Moving' = Moving /\ Flying' = Flying /\ OnePlace'
  BY SameFlying DEF IInv
<1>2. Flying = {} /\ output = NoData
  BY FlyingFinite, FS_EmptySet DEF IInv, Counted, Writing
<1>3. queue["output"] = <<>>
  <2> SUFFICES ASSUME queue["output"] # <<>> PROVE FALSE
    OBVIOUS
  <2>1. queue["output"] \in Seq(Data) /\ "output" \in Queues
    BY DEF IInv, Typed, TypeOK, Queues
  <2>2. 1 \in 1 .. Len(queue["output"])
    BY <2>1, EmptySeq
  <2>3. queue["output"][1].pair \in Queued
    BY <2>1, <2>2, QueueType DEF IInv, Typed
  <2> QED BY <1>2, <2>3 DEF Flying, Moving
<1>4. pc' = "next" /\ due' = due
  BY <1>3
<1>5. Typed'
  BY <1>4 DEF IInv, Typed, TypeOK
<1>6. Counted'
  BY <1>1, <1>2, <1>4 DEF IInv, Counted, InMatch, Writing
<1>7. RowsReady'
  BY <1>1, <1>4 DEF IInv, RowsReady, Matching
<1>8. VerifiedHasMatches' /\ NoneForgotten'
  BY <1>1 DEF IInv, VerifiedHasMatches, NoneForgotten, Matching, Ahead, Both, InMatch
<1> QED BY <1>1, <1>4, <1>5, <1>6, <1>7, <1>8 DEF IInv, NoAbort

LEMMA WriteMatchesStep == ASSUME IInv, WriteMatches PROVE IInv'
<1> USE DEF WriteMatches, Goto, workers, rigging
<1> DEFINE p == output.pair
<1>1. /\ Queued' = Queued /\ Held' = Held /\ Moving' = Moving /\ Flying' = Flying /\ OnePlace'
  BY SameFlying DEF IInv
<1>2. /\ output \in Data /\ p \in Pairs /\ p \in Flying /\ p \notin Moving /\ Matching
      /\ matches[p] = "none" /\ geometry[p] = "none" /\ output.matches \in Sizes
  BY DataPair DEF IInv, Typed, TypeOK, Counted, Writing, Flying, OnePlace, RowsReady, Data
<1>3. pc' = "write geometry" /\ matches' = [matches EXCEPT ![p] = output.matches]
  BY <1>2
<1> HIDE DEF p
<1>4. /\ matches' \in [Pairs -> Sizes \cup {"none"}] /\ matches'[p] # "none"
      /\ \A q \in Pairs : q # p => matches'[q] = matches[q]
  BY <1>2, <1>3 DEF IInv, Typed, TypeOK, Sizes
<1>5. Typed'
  BY <1>3, <1>4 DEF IInv, Typed, TypeOK
<1>6. Counted'
  BY <1>1, <1>3 DEF IInv, Counted, InMatch, Writing
<1>7. RowsReady'
  <2>1. \A q \in Moving : q # p /\ q \in Pairs
    BY <1>2 DEF Moving, Queued, Held
  <2> QED BY <1>1, <1>2, <1>3, <1>4, <2>1 DEF IInv, RowsReady, Matching, p
<1>8. VerifiedHasMatches'
  <2>1. \A q \in rig \cup replacing : q \in Pairs /\ matches'[q] # "none"
    BY <1>2, <1>4 DEF IInv, VerifiedHasMatches, Typed, TypeOK
  <2> QED BY <1>2, <2>1 DEF VerifiedHasMatches, Matching
<1>9. NoneForgotten'
  BY <1>1, <1>2, <1>4 DEF IInv, NoneForgotten, Matching, Ahead, Both, InMatch, Writing, Wanted
<1> QED BY <1>1, <1>3, <1>5, <1>6, <1>7, <1>8, <1>9 DEF IInv, NoAbort

LEMMA ClearGeometryStep == ASSUME IInv, ClearGeometry PROVE IInv'
<1> USE DEF ClearGeometry, Goto, workers, rigging
<1> DEFINE p == output.pair
<1>1. /\ Queued' = Queued /\ Held' = Held /\ Moving' = Moving /\ Flying' = Flying /\ OnePlace'
  BY SameFlying DEF IInv
<1>2. p \in Pairs /\ ~Matching /\ matches[p] # "none"
  BY DataPair DEF IInv, Typed, TypeOK, Counted, Writing, RowsReady, Data
<1>3. geometry' \in [Pairs -> Sizes \cup {"none"}] /\ geometry'[p] = "none"
  BY <1>2 DEF IInv, Typed, TypeOK
<1>4. Typed'
  BY <1>3 DEF IInv, Typed, TypeOK
<1>5. Counted'
  BY <1>1 DEF IInv, Counted, InMatch, Writing
<1>6. RowsReady'
  BY <1>1, <1>2, <1>3 DEF RowsReady, Matching
<1>7. VerifiedHasMatches' /\ NoneForgotten'
  BY <1>1, <1>2 DEF IInv, VerifiedHasMatches, NoneForgotten, Matching, Ahead
<1> QED BY <1>1, <1>4, <1>5, <1>6, <1>7 DEF IInv, NoAbort

LEMMA WriteGeometryStep == ASSUME IInv, WriteGeometry PROVE IInv'
<1> DEFINE p == output.pair
<1>0. /\ pc = "write geometry" /\ output' = NoData /\ due' = due - 1
      /\ UNCHANGED <<matches, queue, hand, exited, rig, replacing, mode, todo, batch, seen,
                     cancelled, runs>>
  BY DEF WriteGeometry, workers, rigging
<1>1. /\ output \in Data /\ p \in Pairs /\ p \in Flying /\ p \notin Moving
      /\ geometry[p] = "none" /\ matches[p] # "none" /\ output.geometry \in Sizes
  BY <1>0, DataPair DEF IInv, Typed, TypeOK, Counted, Writing, Flying, OnePlace, RowsReady, Data
<1>2. /\ pc' = "collect" /\ geometry' = [geometry EXCEPT ![p] = output.geometry]
  BY <1>1 DEF WriteGeometry, Goto
<1>3. Queued' = Queued /\ Held' = Held /\ Moving' = Moving
  BY <1>0 DEF Queued, Held, Moving
<1>4. OnePlace' /\ Flying' = Flying \ {p}
  <2>1. QueuedOnce' /\ HeldOnce'
    <3>1. QueuedOnce /\ HeldOnce
      BY DEF IInv, OnePlace
    <3>2. queue' = queue /\ hand' = hand
      BY <1>0
    <3>3. QueuedOnce'
      BY <3>1, <3>2 DEF QueuedOnce
    <3> QED BY <3>1, <3>2, <3>3 DEF HeldOnce
  <2>2. {} \notin Moving
    BY NoDataPair DEF Moving, Queued, Held
  <2> QED BY <1>0, <1>1, <1>3, <2>1, <2>2, NoDataPair DEF IInv, OnePlace, Flying
<1> HIDE DEF p
<1>5. due' = Cardinality(Flying') /\ due' \in 0 .. Cardinality(Pairs)
  <2> DEFINE S == Flying \ {p}
  <2>1. IsFiniteSet(Flying) /\ S \subseteq Pairs
    BY FlyingFinite
  <2>2. Cardinality(S) = Cardinality(Flying) - 1
    BY <1>1, <2>1, FS_RemoveElement
  <2>3. Flying' = S
    BY <1>4
  <2> HIDE DEF S
  <2>4. /\ Cardinality(S) <= Cardinality(Pairs) /\ Cardinality(S) \in Nat
        /\ Cardinality(Pairs) \in Nat
    BY <2>1, ListedType, FS_Subset, FS_CardinalityType
  <2>5. due = Cardinality(Flying)
    BY DEF IInv, Counted
  <2>6. due' = Cardinality(S)
    BY <1>0, <2>2, <2>5
  <2> QED BY <2>3, <2>4, <2>6
<1>6. /\ geometry' \in [Pairs -> Sizes \cup {"none"}] /\ geometry'[p] # "none"
      /\ \A q \in Pairs : q # p => geometry'[q] = geometry[q]
  BY <1>0, <1>1, <1>2 DEF IInv, Typed, TypeOK, Sizes
<1>7. Typed'
  BY <1>0, <1>2, <1>5, <1>6 DEF IInv, Typed, TypeOK
<1>8. Counted'
  BY <1>0, <1>2, <1>4, <1>5 DEF IInv, Counted, InMatch, Writing
<1>9. RowsReady'
  <2>1. \A q \in Moving : q # p /\ q \in Pairs
    BY <1>1 DEF Moving, Queued, Held
  <2> QED BY <1>0, <1>2, <1>3, <1>6, <2>1 DEF IInv, RowsReady, Matching
<1>10. VerifiedHasMatches'
  BY <1>0, <1>3 DEF IInv, VerifiedHasMatches, Matching, Ahead
<1>11. NoneForgotten'
  <2> SUFFICES ASSUME Matching, NEW q \in Wanted
               PROVE  /\ q \in seen' => Both(q)' \/ q \in Flying'
                      /\ Both(q)' \/ q \in Flying' \cup Ahead'
    BY <1>0 DEF NoneForgotten, Matching
  <2>1. /\ q \in seen => Both(q) \/ q \in Flying
        /\ Both(q) \/ q \in Flying \cup Ahead
    BY <1>0 DEF IInv, NoneForgotten, InMatch, Writing
  <2>2. CASE q = p
    BY <1>0, <1>1, <1>6, <2>2 DEF Both
  <2>3. CASE q # p
    <3>1. (Both(q)' <=> Both(q)) /\ Ahead' = Ahead
      BY <1>0, <1>6, <2>3 DEF Both, Wanted, Ahead
    <3> QED BY <1>0, <1>4, <2>1, <2>3, <3>1
  <2> QED BY <2>2, <2>3
<1> QED BY <1>0, <1>2, <1>4, <1>7, <1>8, <1>9, <1>10, <1>11 DEF IInv, NoAbort

LEMMA EndStep == ASSUME IInv, WaitForQueues \/ Join PROVE IInv'
<1> USE DEF WaitForQueues, Join, Goto, rows, workers, rigging
<1>1. /\ Queued' = Queued /\ Held' = Held /\ Moving' = Moving /\ Flying' = Flying /\ OnePlace'
  BY SameFlying DEF IInv
<1>2. pc \in {"wait", "join"} /\ pc' \in {"join", "done"}
  OBVIOUS
<1>3. Typed'
  BY <1>2 DEF IInv, Typed, TypeOK
<1>4. Counted'
  BY <1>1, <1>2 DEF IInv, Counted, InMatch, Writing
<1>5. RowsReady'
  BY <1>1, <1>2 DEF IInv, RowsReady, Matching
<1>6. VerifiedHasMatches' /\ NoneForgotten'
  BY <1>1, <1>2 DEF IInv, VerifiedHasMatches, NoneForgotten, Matching, Ahead, InMatch, Writing
<1> QED BY <1>1, <1>2, <1>3, <1>4, <1>5, <1>6 DEF IInv, NoAbort

-----------------------------------------------------------------------------
(* One step of a worker: it moves a pair, or none. *)

LEMMA MovingKeeps ==
    ASSUME IInv, Moving' = Moving, OnePlace', queue' \in [Queues -> Seq(Data)],
           hand' \in [Workers -> Data \cup {NoData}], exited' \subseteq Workers,
           UNCHANGED <<rows, control, rigging>>
    PROVE  IInv'
<1> USE DEF rows, control, rigging
<1>1. Flying' = Flying
  BY DEF Flying
<1>2. Typed'
  BY DEF IInv, Typed, TypeOK
<1>3. Counted'
  BY <1>1 DEF IInv, Counted
<1>4. RowsReady'
  BY DEF IInv, RowsReady, Matching
<1>5. VerifiedHasMatches' /\ NoneForgotten'
  BY <1>1 DEF IInv, VerifiedHasMatches, NoneForgotten, Matching, Ahead, Both
<1> QED BY <1>2, <1>3, <1>4, <1>5 DEF IInv, NoAbort

LEMMA ResultType ==
    ASSUME NEW q \in Queues, NEW d \in Data, NEW r \in Results(q, d)
    PROVE  r \in Data /\ r.pair = d.pair
BY DEF Results, Data

LEMMA PopStep == ASSUME IInv, NEW w \in Workers, Pop(w) PROVE IInv'
<1>1. PICK q \in Queues :
        /\ hand[w] = NoData /\ queue[q] # <<>>
        /\ \E data \in Results(q, Head(queue[q])) : hand' = [hand EXCEPT ![w] = data]
        /\ queue' = [queue EXCEPT ![q] = Tail(@)]
        /\ UNCHANGED <<rows, control, rigging, exited>>
  BY DEF Pop
<1> DEFINE p == Head(queue[q]).pair
<1>2. /\ queue' \in [Queues -> Seq(Data)] /\ Head(queue[q]) \in Data /\ p \in Queued
      /\ Queued' = Queued \ {p} /\ QueuedOnce'
  BY <1>1, TailQueue DEF IInv, Typed, OnePlace
<1>3. PICK data \in Data : data.pair = p /\ hand' = [hand EXCEPT ![w] = data]
  BY <1>1, <1>2, ResultType
<1>4. p \notin Held
  BY <1>2 DEF IInv, OnePlace
<1>5. hand' \in [Workers -> Data \cup {NoData}] /\ Held' = Held \cup {p} /\ HeldOnce'
  BY <1>1, <1>3, <1>4, HandTakes DEF IInv, Typed, OnePlace
<1>6. Moving' = Moving
  BY <1>2, <1>5 DEF Moving
<1>7. Queued' \cap Held' = {} /\ output'.pair \notin Moving'
  BY <1>1, <1>2, <1>5, <1>6 DEF IInv, OnePlace, control
<1>8. OnePlace' /\ exited' \subseteq Workers
  BY <1>1, <1>2, <1>5, <1>7 DEF OnePlace, IInv, Typed, TypeOK
<1> QED BY <1>1, <1>2, <1>5, <1>6, <1>8, MovingKeeps

LEMMA PassStep == ASSUME IInv, NEW w \in Workers, Pass(w) PROVE IInv'
<1> DEFINE p == hand[w].pair
<1>1. PICK q \in Queues :
        /\ hand[w] # NoData /\ hand' = [hand EXCEPT ![w] = NoData]
        /\ queue' = IF pc = "join" THEN queue
                    ELSE [queue EXCEPT ![OutputOf(q)] = Append(@, hand[w])]
        /\ pc' = IF pc = "join" THEN "aborted" ELSE pc
        /\ UNCHANGED <<rows, rigging, exited, mode, todo, batch, seen, due, output,
                       cancelled, runs>>
  BY DEF Pass
<1>2. /\ hand' \in [Workers -> Data \cup {NoData}] /\ hand[w] \in Data /\ p \in Held
      /\ Held' = Held \ {p} /\ HeldOnce'
  BY <1>1, HandGives DEF IInv, Typed, OnePlace
<1>3. pc # "join"
  BY <1>2 DEF IInv, Counted, InMatch, Writing, Flying, Moving
<1>4. OutputOf(q) \in Queues /\ p \notin Queued
  BY <1>2 DEF OutputOf, Queues, IInv, OnePlace
<1>5. queue' \in [Queues -> Seq(Data)] /\ Queued' = Queued \cup {p} /\ QueuedOnce'
  BY <1>1, <1>2, <1>3, <1>4, AppendQueue DEF IInv, Typed, OnePlace
<1>6. Moving' = Moving
  BY <1>2, <1>5 DEF Moving
<1>7. Queued' \cap Held' = {} /\ output'.pair \notin Moving'
  BY <1>1, <1>2, <1>5, <1>6 DEF IInv, OnePlace
<1>8. OnePlace' /\ exited' \subseteq Workers
  BY <1>1, <1>2, <1>5, <1>7 DEF OnePlace, IInv, Typed, TypeOK
<1>9. UNCHANGED <<rows, control, rigging>>
  BY <1>1, <1>3 DEF control
<1> QED BY <1>2, <1>5, <1>6, <1>8, <1>9, MovingKeeps

LEMMA ExitStep == ASSUME IInv, NEW w \in Workers, Exit(w) PROVE IInv'
<1>1. UNCHANGED <<queue, hand, output>> /\ UNCHANGED <<rows, control, rigging>>
  BY DEF Exit, control
<1>2. Moving' = Moving /\ OnePlace'
  BY <1>1, SameFlying DEF IInv
<1>3. /\ queue' \in [Queues -> Seq(Data)] /\ hand' \in [Workers -> Data \cup {NoData}]
      /\ exited' \subseteq Workers
  BY <1>1 DEF Exit, IInv, Typed, TypeOK
<1> QED BY <1>1, <1>2, <1>3, MovingKeeps

-----------------------------------------------------------------------------
(* The verification of rigs, a cancel, and the next run. *)

LEMMA RigKeeps == ASSUME IInv, RigStep PROVE IInv'
<1>1. /\ pc = "rig" /\ pc' \in {"rig", "wait"}
      /\ UNCHANGED <<queue, hand, exited, output, mode, todo, batch, seen, due, cancelled,
                     runs, matches>>
      /\ rig' \cup replacing' \subseteq rig \cup replacing
      /\ pc' # "rig" => rig' = {} /\ replacing' = {}
  BY DEF RigStep, RigDelete, RigWrite, RigDone, workers, control, rows, rigging, Goto
<1>2. rig \subseteq Pairs /\ replacing \subseteq Pairs
  BY DEF IInv, Typed, TypeOK
<1>3. geometry' \in [Pairs -> Sizes \cup {"none"}]
  BY <1>2 DEF RigStep, RigDelete, RigWrite, RigDone, rows, IInv, Typed, TypeOK
<1>4. /\ Queued' = Queued /\ Held' = Held /\ Moving' = Moving /\ Flying' = Flying /\ OnePlace'
  BY <1>1, SameFlying DEF IInv
<1>5. Moving = {}
  BY <1>1 DEF IInv, Counted, InMatch, Writing, Flying
<1>6. Typed'
  BY <1>1, <1>2, <1>3 DEF IInv, Typed, TypeOK
<1>7. Counted'
  BY <1>1, <1>4 DEF IInv, Counted, InMatch, Writing
<1>8. RowsReady'
  BY <1>1, <1>4, <1>5 DEF RowsReady
<1>9. VerifiedHasMatches'
  BY <1>1, <1>4 DEF IInv, VerifiedHasMatches, Matching, Ahead
<1>10. NoneForgotten' /\ NoAbort'
  BY <1>1 DEF NoneForgotten, NoAbort, InMatch, Writing
<1> QED BY <1>4, <1>6, <1>7, <1>8, <1>9, <1>10 DEF IInv

LEMMA CancelStep == ASSUME IInv, Cancel \/ UNCHANGED vars PROVE IInv'
<1> USE DEF Cancel, vars, control, rows, workers, rigging
<1>1. UNCHANGED <<queue, hand, output>>
  OBVIOUS
<1>2. Moving' = Moving /\ Flying' = Flying /\ OnePlace'
  BY <1>1, SameFlying DEF IInv
<1>3. Typed'
  BY DEF IInv, Typed, TypeOK
<1>4. Counted'
  BY <1>2 DEF IInv, Counted
<1>5. RowsReady'
  BY <1>2 DEF IInv, RowsReady, Matching
<1>6. VerifiedHasMatches' /\ NoneForgotten'
  BY <1>2 DEF IInv, VerifiedHasMatches, NoneForgotten, Matching, Ahead, Both
<1> QED BY <1>2, <1>3, <1>4, <1>5, <1>6 DEF IInv, NoAbort

LEMMA NothingFliesNext ==
    ASSUME queue' = NoQueued, hand' = NoHands, output' = NoData
    PROVE  Moving' = {} /\ Flying' = {} /\ OnePlace'
<1>1. \A q \in Queues : queue'[q] = <<>> /\ 1 .. Len(queue'[q]) = {}
  BY DEF NoQueued
<1>2. Queued' = {} /\ QueuedOnce'
  BY <1>1 DEF Queued, QueuedOnce
<1>3. Held' = {} /\ HeldOnce'
  BY NoDataPair DEF Held, HeldOnce, NoHands
<1> QED BY <1>2, <1>3, NoDataPair DEF Moving, Flying, OnePlace

LEMMA RerunStep == ASSUME IInv, Rerun PROVE IInv'
<1> USE DEF Rerun, Goto, rows
<1>1. Moving' = {} /\ Flying' = {} /\ OnePlace'
  BY NothingFliesNext
<1>2. Cardinality(Flying)' = 0 /\ Cardinality(Pairs) \in Nat
  BY <1>1, FS_EmptySet, FlyingFinite
<1>3. NoQueued \in [Queues -> Seq(Data)] /\ NoHands \in [Workers -> Data \cup {NoData}]
  BY DEF NoQueued, NoHands
<1>4. Typed'
  <2>1. due' \in 0 .. Cardinality(Pairs) /\ runs' \in 1 .. MaxRuns
    <3>1. due' = 0 /\ runs' = runs + 1 /\ runs < MaxRuns /\ runs \in 1 .. MaxRuns /\ MaxRuns \in Nat
      BY BoundsAssumption DEF IInv, Typed, TypeOK
    <3> HIDE DEF Rerun
    <3> QED BY <1>2, <3>1
  <2>2. todo' \in Seq(Seq(Entries)) /\ batch' \in Seq(Entries)
    OBVIOUS
  <2> QED BY <1>3, <2>1, <2>2 DEF Typed, TypeOK, IInv
<1>5. Counted'
  BY <1>1, <1>2 DEF Counted, InMatch, Writing
<1>6. RowsReady'
  BY <1>1 DEF RowsReady
<1>7. VerifiedHasMatches'
  BY <1>1 DEF VerifiedHasMatches, Ahead, IdsOf, ListedIn
<1>8. NoneForgotten' /\ NoAbort'
  BY DEF NoneForgotten, NoAbort, InMatch, Writing
<1> QED BY <1>1, <1>4, <1>5, <1>6, <1>7, <1>8 DEF IInv

-----------------------------------------------------------------------------
LEMMA Inductive == ASSUME IInv, [Next]_vars PROVE IInv'
<1>1. CASE ControllerStep
  BY <1>1, SetupStep, NextBatchStep, RunEndsStep, SkipPairStep, TakePairStep,
     ReuseMatchesStep, BatchPushedStep, CollectStep, MatchReturnsStep, WriteMatchesStep,
     ClearGeometryStep, WriteGeometryStep, EndStep DEF ControllerStep
<1>2. CASE \E w \in Workers : WorkerStep(w)
  BY <1>2, PopStep, PassStep, ExitStep DEF WorkerStep
<1>3. CASE RigStep
  BY <1>3, RigKeeps
<1>4. CASE Cancel \/ UNCHANGED vars
  BY <1>4, CancelStep
<1>5. CASE Rerun
  BY <1>5, RerunStep
<1> QED BY <1>1, <1>2, <1>3, <1>4, <1>5 DEF Next

LEMMA Invariance == Spec => []IInv
BY InitInv, Inductive, PTL DEF Spec

(* The queues, hands and rows hold what they should; the outputs Match()     *)
(* waits for never exceed the pairs there are (feature_matching_utils.cc).   *)
THEOREM TypeCorrect == Spec => []TypeOK
<1>1. IInv => TypeOK
  BY DEF IInv, Typed
<1> QED BY Invariance, <1>1, PTL

(* None of the checks of Match() that throw fires                            *)
(* (feature_matching_utils.cc:473-476, 488-490, 500, 518).                   *)
THEOREM NeverAborts == Spec => []NoAbort
<1>1. IInv => NoAbort
  BY DEF IInv
<1> QED BY Invariance, <1>1, PTL

(* When the generator has finished, every listed pair has both results,      *)
(* whatever rows earlier runs left (feature_matching_utils.cc:466-530).      *)
THEOREM NoneLeftOut == Spec => []AllMatched
<1>1. IInv => AllMatched
  <2> SUFFICES ASSUME IInv, pc = "next", todo = <<>>, Matching, NEW p \in Wanted
               PROVE  Both(p)
    BY DEF AllMatched, Matching
  <2>1. Flying = {} /\ batch = <<>>
    BY DEF IInv, Counted, InMatch, Writing
  <2>2. Ahead = {}
    BY <2>1 DEF Ahead, IdsOf, ListedIn
  <2> QED BY <2>1, <2>2 DEF IInv, NoneForgotten
<1> QED BY Invariance, <1>1, PTL

(* At no moment does the database gain a geometry without the matches it was *)
(* computed from, wherever a run is killed: deletion starts with the         *)
(* geometry, writing with the matches (feature_matching_utils.cc:479-527).   *)
THEOREM NoOrphans == Spec => NoOrphanGeometry
<1> DEFINE Gains == \A p \in Pairs :
                       geometry'[p] # "none" /\ matches'[p] = "none"
                         => geometry[p] # "none" /\ matches[p] = "none"
<1>1. ASSUME IInv, [Next]_vars PROVE [Gains]_vars
  <2> SUFFICES ASSUME NEW p \in Pairs, geometry'[p] # "none", matches'[p] = "none"
               PROVE  geometry[p] # "none" /\ matches[p] = "none"
    BY <1>1
  <2>1. matches \in [Pairs -> Sizes \cup {"none"}] /\ geometry \in [Pairs -> Sizes \cup {"none"}]
    BY <1>1 DEF IInv, Typed, TypeOK
  <2>2. CASE UNCHANGED rows
    BY <2>2 DEF rows
  <2>3. CASE TakePair
    <3>1. matches' = matches /\ geometry' = StaleGeometry(PairId(Head(batch)))
      BY <2>3 DEF TakePair
    <3> QED BY <2>1, <3>1 DEF StaleGeometry
  <2>4. CASE ReuseMatches
    <3>1. geometry' = geometry /\ matches' = StaleMatches(output.pair) /\ pc = "reuse"
      BY <2>4 DEF ReuseMatches
    <3>2. mode # "verification" => geometry[output.pair] = "none"
      BY <1>1, <3>1 DEF IInv, RowsReady, Matching
    <3> QED BY <2>1, <3>1, <3>2 DEF StaleMatches
  <2>5. CASE WriteMatches
    <3>1. geometry' = geometry /\ output \in Data
      BY <1>1, <2>5, DataPair DEF WriteMatches, IInv, Typed, TypeOK, Counted, Writing
    <3>2. \/ matches' = matches
          \/ matches' = [matches EXCEPT ![output.pair] = output.matches]
      BY <2>5 DEF WriteMatches
    <3> QED BY <2>1, <3>1, <3>2 DEF Data, Sizes
  <2>6. CASE ClearGeometry
    BY <2>1, <2>6 DEF ClearGeometry
  <2>7. CASE WriteGeometry
    <3>1. matches' = matches /\ matches[output.pair] # "none"
      BY <1>1, <2>7 DEF WriteGeometry, IInv, RowsReady
    <3>2. geometry'[p] = geometry[p] \/ p = output.pair
      BY <2>1, <2>7 DEF WriteGeometry
    <3> QED BY <3>1, <3>2
  <2>8. CASE RigStep
    <3>1. /\ matches' = matches /\ rig \subseteq Pairs /\ replacing \subseteq Pairs
          /\ \A r \in rig \cup replacing : matches[r] # "none"
      BY <1>1, <2>8 DEF RigStep, RigDelete, RigWrite, RigDone, rows, IInv, VerifiedHasMatches,
                 Typed, TypeOK
    <3>2. geometry'[p] = geometry[p] \/ p \in rig \cup replacing
      BY <2>1, <2>8, <3>1 DEF RigStep, RigDelete, RigWrite, RigDone, rows
    <3> QED BY <3>1, <3>2
  <2>9. CASE \/ \E w \in Workers : WorkerStep(w)
             \/ Cancel \/ Rerun \/ UNCHANGED vars
    <3>1. UNCHANGED rows
      BY <2>9 DEF WorkerStep, Pop, Pass, Exit, Cancel, Rerun, vars
    <3> QED BY <2>2, <3>1
  <2>10. CASE \/ Setup \/ NextBatch \/ RunEnds \/ SkipPair \/ BatchPushed \/ Collect
              \/ MatchReturns \/ WaitForQueues \/ Join
    <3>1. UNCHANGED rows
      BY <2>10 DEF Setup, NextBatch, RunEnds, SkipPair, BatchPushed, Collect, MatchReturns,
                   WaitForQueues, Join
    <3> QED BY <2>2, <3>1
  <2> QED BY <1>1, <2>3, <2>4, <2>5, <2>6, <2>7, <2>8, <2>9, <2>10 DEF Next, ControllerStep
<1> QED BY Invariance, <1>1, PTL DEF Spec, NoOrphanGeometry

-----------------------------------------------------------------------------
(* The generators of pairs. *)
(* A block was returned when its row or, in the same row, its column was.     *)
Returned(i, j) == i < idx \/ (i < idx + goptions.size /\ j < idx2)
Entry(p) == {k \in 1 .. Len(goptions.list) : k <= idx /\ goptions.list[k] = p}

(* How often the neighbours in the order of i and their frames have j, and    *)
(* the neighbours in space of i that are taken from a row.                    *)
InBatch(i, j) ==
    Cardinality(G!Expansion(i, i) \cap {j})
    + Cardinality({k \in G!Neighbours(i) : j \in {k} \cup G!Expansion(i, k)})
Taken(i, row) ==
    {k \in 0 .. G!Knn - 1 :
        row[k] # i /\ (G!Distance(i, row[k]) <= goptions.distance \/ ~G!Enough(k))}
Near(i, row) == {row[k] : k \in Taken(i, row)}

(* What each pair was returned: once if its block was, as often as the list   *)
(* has it so far, not before it has been tried.                               *)
ReturnedSoFar ==
    /\ goptions.kind = "exhaustive" =>
          \A i, j \in G!Images :
              out[<<i, j>>] = IF G!Chosen(i, j) /\ Returned(i, j) THEN 1 ELSE 0
    /\ goptions.kind = "imported" =>
          \A p \in G!Images \X G!Images : out[p] = Cardinality(Entry(p))
    /\ goptions.kind = "sequential" =>
          \A i, j \in G!Images : out[<<i, j>>] = IF i < idx THEN InBatch(i, j) ELSE 0
    /\ goptions.kind = "spatial" =>
          \A i \in G!Images :
              /\ i < idx =>
                    \E row \in G!Rows(i) : \A j \in G!Images :
                        out[<<i, j>>] = IF j \in Near(i, row) THEN 1 ELSE 0
              /\ ~(i < idx) => \A j \in G!Images : out[<<i, j>>] = 0
    /\ goptions.kind = "transitive" =>
          /\ pending \subseteq tried /\ pending \cap inliers = {}
          /\ goptions.matched \subseteq inliers
          /\ \A i, j \in G!Images :
                out[<<i, j>>] > 0 =>
                    /\ i < j /\ out[<<i, j>>] = 1
                    /\ {i, j} \in tried \ pending /\ {i, j} \notin goptions.matched

PairsInv ==
    /\ goptions \in PairOptions /\ idx \in Nat /\ idx2 \in Nat
    /\ out \in [G!Images \X G!Images -> Nat]
    /\ \A p \in pending : \E i, j \in G!Images : i < j /\ p = {i, j}
    /\ ReturnedSoFar

LEMMA PairCardinality == \A S : G!Cardinality(S) = Cardinality(S)
BY DEF G!Cardinality, Cardinality

LEMMA ListedOption ==
    ASSUME G!OptionsAssumption, goptions \in PairOptions
    PROVE  /\ goptions.kind \in {"exhaustive", "sequential", "spatial", "transitive", "imported"}
           /\ goptions.n \in Nat /\ G!Images = 0 .. goptions.n - 1
           /\ goptions.kind = "exhaustive" => goptions.size \in Nat \ {0, 1}
           /\ goptions.kind \in {"imported", "transitive"} => goptions.size \in Nat \ {0}
           /\ goptions.kind = "imported" => goptions.list \in Seq(G!Images \X G!Images)
           /\ goptions.kind = "sequential" =>
                 /\ goptions.frames \in Nat \ {0} /\ goptions.n % goptions.frames = 0
                 /\ goptions.expand \in BOOLEAN
           /\ goptions.kind = "spatial" =>
                 /\ goptions.max \in Nat \ {0} /\ goptions.min \in Nat
                 /\ goptions.min <= goptions.max /\ goptions.distance \in Nat
                 /\ goptions.position \in [1 .. goptions.n -> Nat]
           /\ goptions.kind = "transitive" => goptions.iterations \in Nat \ {0}
           /\ goptions.kind = "transitive" => goptions.matched \subseteq SUBSET G!Images
<1>1. /\ goptions.kind \in {"exhaustive", "sequential", "spatial", "transitive", "imported"}
      /\ goptions.n \in Nat
      /\ goptions.kind = "exhaustive" => goptions.size \in Nat \ {0, 1}
      /\ goptions.kind \in {"imported", "transitive"} => goptions.size \in Nat \ {0}
      /\ goptions.kind = "imported" =>
            goptions.list \in Seq((0 .. goptions.n - 1) \X (0 .. goptions.n - 1))
      /\ goptions.kind = "sequential" =>
            /\ goptions.frames \in Nat \ {0} /\ goptions.n % goptions.frames = 0
            /\ goptions.expand \in BOOLEAN
      /\ goptions.kind = "transitive" =>
            goptions.iterations \in Nat \ {0} /\ goptions.matched \subseteq SUBSET (0 .. goptions.n - 1)
  BY Zenon DEF G!OptionsAssumption
<1>2. goptions.kind = "spatial" =>
            /\ goptions.max \in Nat \ {0} /\ goptions.min \in 0 .. goptions.max
            /\ goptions.distance \in Nat
            /\ goptions.position \in [1 .. goptions.n -> Nat]
  BY Zenon DEF G!OptionsAssumption
<1>3. \A m \in Nat : \A k \in 0 .. m : k \in Nat /\ k <= m
  OBVIOUS
<1>4. goptions.kind = "spatial" => goptions.min \in Nat /\ goptions.min <= goptions.max
  BY <1>2, <1>3
<1> QED BY <1>1, <1>2, <1>4 DEF G!Images

LEMMA LeastOfTwo ==
    ASSUME NEW a \in Nat, NEW b \in Nat
    PROVE  G!Min({a, b}) = IF a <= b THEN a ELSE b
<1> DEFINE m == IF a <= b THEN a ELSE b
<1>1. m \in {a, b} /\ \A y \in {a, b} : m <= y
  OBVIOUS
<1>2. \A x \in {a, b} : (\A y \in {a, b} : x <= y) => x = m
  OBVIOUS
<1> HIDE DEF m
<1> QED BY <1>1, <1>2 DEF G!Min

LEMMA MostOfTwo ==
    ASSUME NEW a \in Nat, NEW b \in Nat
    PROVE  G!Max({a, b}) = IF a <= b THEN b ELSE a
<1> DEFINE m == IF a <= b THEN b ELSE a
<1>1. m \in {a, b} /\ \A y \in {a, b} : m >= y
  OBVIOUS
<1>2. \A x \in {a, b} : (\A y \in {a, b} : x >= y) => x = m
  OBVIOUS
<1> HIDE DEF m
<1> QED BY <1>1, <1>2 DEF G!Max

LEMMA PairsStart == G!OptionsAssumption /\ G!Init => PairsInv
<1> SUFFICES ASSUME G!OptionsAssumption, G!Init PROVE PairsInv
  OBVIOUS
<1>1. /\ goptions \in PairOptions /\ idx = 0 /\ idx2 = 0 /\ pending = {} /\ tried = {}
      /\ out = [p \in G!Images \X G!Images |-> 0]
      /\ goptions.kind = "transitive" => inliers = goptions.matched
  BY DEF G!Init
<1>2. \A i \in G!Images : i \in Nat
  BY <1>1, ListedOption
<1>3. ASSUME goptions.kind = "exhaustive", NEW i \in G!Images, NEW j \in G!Images
      PROVE  ~Returned(i, j)
  BY <1>1, <1>2, <1>3 DEF Returned
<1>4. ASSUME NEW p PROVE Entry(p) = {}
  BY <1>1 DEF Entry
<1>5. Cardinality({}) = 0
  BY FS_EmptySet
<1>6. \A p \in G!Images \X G!Images : out[p] = 0
  BY <1>1
<1>7. \A i, j \in G!Images : out[<<i, j>>] = 0 /\ ~(i < idx)
  BY <1>1, <1>2, <1>6
<1>8. ReturnedSoFar
  <2>1. goptions.kind = "exhaustive" =>
            \A i, j \in G!Images :
                out[<<i, j>>] = IF G!Chosen(i, j) /\ Returned(i, j) THEN 1 ELSE 0
    BY <1>3, <1>7
  <2>2. goptions.kind = "imported" =>
            \A p \in G!Images \X G!Images : out[p] = Cardinality(Entry(p))
    BY <1>4, <1>5, <1>6
  <2>3. goptions.kind = "transitive" =>
            /\ pending \subseteq tried /\ pending \cap inliers = {} /\ goptions.matched \subseteq inliers
            /\ \A i, j \in G!Images : ~(out[<<i, j>>] > 0)
    BY <1>1, <1>7
  <2> QED BY <1>7, <2>1, <2>2, <2>3 DEF ReturnedSoFar
<1> QED BY <1>1, <1>8 DEF PairsInv

LEMMA ExhaustiveKeeps ==
    ASSUME G!OptionsAssumption, PairsInv, G!NextExhaustive PROVE PairsInv'
<1> DEFINE n == goptions.n
           size == goptions.size
           S == {p \in G!Block(idx) \X G!Block(idx2) : G!Chosen(p[1], p[2])}
<1>1. /\ goptions.kind = "exhaustive" /\ idx < n /\ goptions' = goptions /\ pending' = pending
      /\ out' = [p \in DOMAIN out |-> out[p] + (IF p \in S THEN 1 ELSE 0)]
      /\ IF idx2 + size >= n
         THEN idx2' = 0 /\ idx' = idx + size
         ELSE idx2' = idx2 + size /\ idx' = idx
  <2>1. goptions.kind = "exhaustive" /\ ~G!HasFinished /\ G!ReturnsSet(S)
        /\ goptions' = goptions /\ pending' = pending
    BY DEF G!NextExhaustive
  <2>2. IF idx2 + size >= n
        THEN idx2' = 0 /\ idx' = idx + size
        ELSE idx2' = idx2 + size /\ idx' = idx
    BY DEF G!NextExhaustive
  <2>3. ~(idx >= n)
    BY <2>1 DEF G!HasFinished
  <2>4. goptions \in PairOptions /\ idx \in Nat
    BY DEF PairsInv
  <2>5. idx < n
    BY <2>3, <2>4, ListedOption
  <2> HIDE DEF S
  <2>6. out' = [p \in DOMAIN out |-> out[p] + (IF p \in S THEN 1 ELSE 0)]
    BY <2>1 DEF G!ReturnsSet, G!Returns
  <2> QED BY <2>1, <2>2, <2>5, <2>6
<1>2. /\ n \in Nat /\ size \in Nat \ {0, 1} /\ G!Images = 0 .. n - 1
      /\ idx \in Nat /\ idx2 \in Nat /\ out \in [G!Images \X G!Images -> Nat]
      /\ goptions \in PairOptions
  BY <1>1, ListedOption DEF PairsInv
<1>3. \A i, j \in G!Images :
          out[<<i, j>>] = IF G!Chosen(i, j) /\ Returned(i, j) THEN 1 ELSE 0
  BY <1>1 DEF PairsInv, ReturnedSoFar
<1>4. G!Images' = G!Images
  BY <1>1 DEF G!Images
<1>5. out' \in [G!Images \X G!Images -> Nat]
  <2> HIDE DEF S
  <2>1. \A p \in G!Images \X G!Images : out[p] + (IF p \in S THEN 1 ELSE 0) \in Nat
    BY <1>2
  <2> QED BY <1>1, <1>2, <2>1
<1>6. ASSUME NEW i \in G!Images, NEW j \in G!Images
      PROVE  out'[<<i, j>>] = IF G!Chosen(i, j)' /\ Returned(i, j)' THEN 1 ELSE 0
  <2>1. G!Chosen(i, j)' <=> G!Chosen(i, j)
    BY <1>1 DEF G!Chosen
  <2>2. \A a, k \in Nat : k \in G!Images => (k \in G!Block(a) <=> a <= k /\ k < a + size)
    <3> SUFFICES ASSUME NEW a \in Nat, NEW k \in Nat, k \in G!Images
                 PROVE  k \in G!Block(a) <=> a <= k /\ k < a + size
      OBVIOUS
    <3>1. G!Min({n, a + size}) = IF n <= a + size THEN n ELSE a + size
      BY <1>2, LeastOfTwo
    <3> HIDE DEF n, size
    <3>2. G!Block(a) = a .. (IF n <= a + size THEN n ELSE a + size) - 1
      BY <3>1 DEF G!Block, n, size
    <3> QED BY <1>2, <3>2
  <2>3. i \in Nat /\ j \in Nat /\ i < n /\ j < n
    BY <1>2
  <2>4. /\ i \in G!Block(idx) <=> idx <= i /\ i < idx + size
        /\ j \in G!Block(idx2) <=> idx2 <= j /\ j < idx2 + size
    BY <1>2, <2>2, <2>3
  <2>5. Returned(i, j)' <=> Returned(i, j) \/ (i \in G!Block(idx) /\ j \in G!Block(idx2))
    <3>1. Returned(i, j)' <=> i < idx' \/ (i < idx' + size /\ j < idx2')
      BY <1>1 DEF Returned
    <3>2. Returned(i, j) <=> i < idx \/ (i < idx + size /\ j < idx2)
      BY DEF Returned
    <3> HIDE DEF n, size
    <3>3. CASE idx2 + size >= n
      BY <1>1, <1>2, <2>3, <2>4, <3>1, <3>2, <3>3
    <3>4. CASE ~(idx2 + size >= n)
      BY <1>1, <1>2, <2>3, <2>4, <3>1, <3>2, <3>4
    <3> QED BY <3>3, <3>4
  <2>6. ~(Returned(i, j) /\ i \in G!Block(idx) /\ j \in G!Block(idx2))
    <3> HIDE DEF n, size
    <3> QED BY <1>2, <2>3, <2>4 DEF Returned, size
  <2>7. <<i, j>> \in S <=> G!Chosen(i, j) /\ i \in G!Block(idx) /\ j \in G!Block(idx2)
    OBVIOUS
  <2>8. out'[<<i, j>>] = out[<<i, j>>] + (IF <<i, j>> \in S THEN 1 ELSE 0)
    <3> HIDE DEF S
    <3> QED BY <1>1, <1>2
  <2> HIDE DEF S, n, size
  <2> QED BY <1>3, <2>1, <2>5, <2>6, <2>7, <2>8
<1>7. idx' \in Nat /\ idx2' \in Nat
  BY <1>1, <1>2
<1>8. ReturnedSoFar'
  BY <1>1, <1>4, <1>6 DEF ReturnedSoFar
<1> QED BY <1>1, <1>2, <1>4, <1>5, <1>7, <1>8 DEF PairsInv

LEMMA EndOfBatch ==
    \A i, s, l \in Nat : \A e : i < l /\ e = (IF i + s <= l THEN i + s ELSE l) =>
        e \in Nat /\ i <= e /\ e <= l /\ (e = i + s \/ (e = l /\ l <= i + s))
OBVIOUS

LEMMA ImportedKeeps ==
    ASSUME G!OptionsAssumption, PairsInv, G!NextImported PROVE PairsInv'
<1> DEFINE len == Len(goptions.list)
           end == IF idx + goptions.size <= len THEN idx + goptions.size ELSE len
           More(p) == {k \in idx + 1 .. end : goptions.list[k] = p}
<1>1. goptions \in PairOptions /\ idx \in Nat /\ idx2 \in Nat
      /\ out \in [G!Images \X G!Images -> Nat]
  BY DEF PairsInv
<1>2. goptions.kind = "imported" /\ ~G!HasFinished
      /\ idx' = idx + goptions.size /\ UNCHANGED <<goptions, idx2, pending, tried, inliers>>
  BY DEF G!NextImported
<1>3. goptions.size \in Nat \ {0} /\ len \in Nat
  BY <1>1, <1>2, ListedOption, LenProperties
<1>4. idx < len
  <2>1. ~(idx >= len)
    BY <1>2 DEF G!HasFinished
  <2> QED BY <1>1, <1>3, <2>1
<1>5. G!Min({idx + goptions.size, len}) = end
  BY <1>1, <1>3, LeastOfTwo
<1>6. out' = [p \in DOMAIN out |-> out[p] + Cardinality(More(p))]
  <2>1. G!Returns(LAMBDA p : G!Cardinality({k \in idx + 1 .. G!Min({idx + goptions.size, len}) :
                                               goptions.list[k] = p}))
    BY DEF G!NextImported
  <2> HIDE DEF end, len
  <2>2. out' = [p \in DOMAIN out |->
                    out[p] + G!Cardinality({k \in idx + 1 .. end : goptions.list[k] = p})]
    BY <1>5, <2>1 DEF G!Returns, len
  <2> QED BY <2>2, PairCardinality
<1>7. G!Images' = G!Images
  BY <1>2 DEF G!Images
<1>8. ASSUME NEW p \in G!Images \X G!Images
      PROVE  /\ IsFiniteSet(More(p)) /\ Cardinality(More(p)) \in Nat
             /\ Cardinality(Entry(p)') = Cardinality(Entry(p)) + Cardinality(More(p))
  <2> DEFINE A == Entry(p)
             B == More(p)
  <2>1. end \in Nat /\ idx <= end /\ end <= len
        /\ (end = idx + goptions.size \/ (end = len /\ len <= idx + goptions.size))
    <3> DEFINE size == goptions.size
    <3>1. size \in Nat /\ len \in Nat /\ idx \in Nat /\ idx < len
      BY <1>1, <1>3, <1>4
    <3> HIDE DEF len, size
    <3>2. end = IF idx + size <= len THEN idx + size ELSE len
      BY DEF size
    <3> HIDE DEF end
    <3>3. /\ end \in Nat /\ idx <= end /\ end <= len
          /\ (end = idx + size \/ (end = len /\ len <= idx + size))
      BY <3>1, <3>2, EndOfBatch
    <3> QED BY <3>3 DEF size
  <2>2. Entry(p)' = A \cup B
    <3>1. Entry(p)' = {k \in 1 .. len : k <= idx + goptions.size /\ goptions.list[k] = p}
      BY <1>2 DEF Entry
    <3> HIDE DEF len, end
    <3>2. ASSUME NEW k \in 1 .. len
          PROVE  k <= idx + goptions.size <=> k <= idx \/ k \in idx + 1 .. end
      BY <1>1, <1>3, <2>1
    <3>3. \A k \in idx + 1 .. end : k \in 1 .. len
      BY <1>1, <1>3, <2>1
    <3> QED BY <3>1, <3>2, <3>3 DEF Entry, len
  <2>3. A \cap B = {}
    <3> HIDE DEF len, end
    <3> QED BY <1>1, <2>1 DEF Entry
  <2>4. IsFiniteSet(A)
    <3>1. IsFiniteSet(1 .. len)
      BY <1>3, FS_Interval
    <3> QED BY <3>1, FS_Subset DEF Entry
  <2>5. IsFiniteSet(B)
    <3>1. IsFiniteSet(idx + 1 .. end)
      <4>1. idx + 1 \in Int /\ end \in Int
        BY <1>1, <2>1
      <4> QED BY <4>1, FS_Interval
    <3> QED BY <3>1, FS_Subset
  <2>6. Cardinality(A \cap B) = 0
    BY <2>3, FS_EmptySet
  <2>7. Cardinality(A) \in Nat /\ Cardinality(B) \in Nat
    BY <2>4, <2>5, FS_CardinalityType
  <2> HIDE DEF A, B
  <2>8. Cardinality(A \cup B) = Cardinality(A) + Cardinality(B) - Cardinality(A \cap B)
    BY <2>4, <2>5, FS_Union
  <2>9. Cardinality(A \cup B) = Cardinality(A) + Cardinality(B)
    BY <2>6, <2>7, <2>8
  <2> QED BY <2>2, <2>5, <2>7, <2>9 DEF A, B
<1> HIDE DEF More, end
<1>9. \A p \in G!Images \X G!Images : out[p] = Cardinality(Entry(p))
  BY <1>2 DEF PairsInv, ReturnedSoFar
<1>10. ASSUME NEW p \in G!Images \X G!Images
       PROVE  out'[p] = Cardinality(Entry(p)') /\ out'[p] \in Nat
  <2>1. out'[p] = out[p] + Cardinality(More(p)) /\ out[p] \in Nat
    BY <1>1, <1>6
  <2> QED BY <1>8, <1>9, <2>1
<1>11. out' \in [G!Images \X G!Images -> Nat]
  BY <1>1, <1>6, <1>10
<1>12. ReturnedSoFar'
  BY <1>2, <1>7, <1>10 DEF ReturnedSoFar
<1>13. idx' \in Nat
  BY <1>1, <1>2, <1>3
<1> QED BY <1>1, <1>2, <1>7, <1>11, <1>12, <1>13 DEF PairsInv

LEMMA StartIterationKeeps ==
    ASSUME G!OptionsAssumption, PairsInv, G!StartIteration PROVE PairsInv'
<1>1. /\ goptions.kind = "transitive" /\ pending = {}
      /\ pending' = G!Open \ (tried \cup inliers) /\ tried' = (tried \cup inliers) \cup pending'
      /\ UNCHANGED <<goptions, idx, idx2, inliers, out>>
  BY DEF G!StartIteration
<1>2. G!Images' = G!Images
  BY <1>1 DEF G!Images
<1>3. ASSUME NEW p \in pending' PROVE \E i, j \in G!Images : i < j /\ p = {i, j}
  <2>1. PICK t \in G!Images \X G!Images \X G!Images : t[1] # t[3] /\ p = {t[1], t[3]}
    BY <1>1 DEF G!Open
  <2>2. t[1] \in G!Images /\ t[3] \in G!Images
    BY <2>1
  <2>3. t[1] \in Nat /\ t[3] \in Nat
    BY <2>2, ListedOption DEF PairsInv
  <2>4. t[1] < t[3] \/ t[3] < t[1]
    BY <2>1, <2>3
  <2>5. p = {t[3], t[1]}
    BY <2>1
  <2> QED BY <2>1, <2>2, <2>4, <2>5
<1>4. /\ goptions.matched \subseteq inliers
      /\ \A i, j \in G!Images :
            out[<<i, j>>] > 0 =>
                /\ i < j /\ out[<<i, j>>] = 1
                /\ {i, j} \in tried /\ {i, j} \notin goptions.matched
  BY <1>1 DEF PairsInv, ReturnedSoFar
<1>5. ReturnedSoFar'
  <2>1. pending' \subseteq tried' /\ pending' \cap inliers' = {} /\ goptions'.matched \subseteq inliers'
    BY <1>1, <1>4
  <2>2. ASSUME NEW i \in G!Images, NEW j \in G!Images, out[<<i, j>>] > 0
        PROVE  /\ i < j /\ out[<<i, j>>] = 1
               /\ {i, j} \in tried' \ pending' /\ {i, j} \notin goptions.matched
    BY <1>1, <1>4, <2>2
  <2> QED BY <1>1, <1>2, <2>1, <2>2 DEF ReturnedSoFar
<1> QED BY <1>1, <1>2, <1>3, <1>5 DEF PairsInv

LEMMA TransitiveKeeps ==
    ASSUME G!OptionsAssumption, PairsInv, G!NextTransitive
    PROVE  PairsInv'
<1>1. goptions \in PairOptions /\ idx \in Nat /\ idx2 \in Nat
      /\ out \in [G!Images \X G!Images -> Nat]
      /\ \A p \in pending : \E i, j \in G!Images : i < j /\ p = {i, j}
  BY DEF PairsInv
<1>2. PICK chosen \in G!kSubset(G!Min({goptions.size, G!Cardinality(pending)}), pending) :
          /\ G!ReturnsSet({<<G!Min(p), G!Max(p)>> : p \in chosen})
          /\ pending' = pending \ chosen
          /\ inliers' = inliers \cup (chosen \ goptions.unmatchable)
  BY DEF G!NextTransitive
<1>3. goptions.kind = "transitive" /\ UNCHANGED <<goptions, idx, idx2, tried>>
  BY DEF G!NextTransitive
<1>4. chosen \subseteq pending
  BY DEF G!kSubset
<1> DEFINE S == {<<G!Min(p), G!Max(p)>> : p \in chosen}
<1>5. ASSUME NEW i \in G!Images, NEW j \in G!Images
      PROVE  <<i, j>> \in S <=> i < j /\ {i, j} \in chosen
  <2>1. \A k \in G!Images : k \in Nat
    BY <1>1, ListedOption
  <2>2. ASSUME NEW a \in G!Images, NEW b \in G!Images, a < b
        PROVE  G!Min({a, b}) = a /\ G!Max({a, b}) = b
    BY <2>1, <2>2, LeastOfTwo, MostOfTwo
  <2>3. ASSUME <<i, j>> \in S PROVE i < j /\ {i, j} \in chosen
    <3>1. PICK p \in chosen : <<i, j>> = <<G!Min(p), G!Max(p)>>
      BY <2>3
    <3>2. PICK a \in G!Images, b \in G!Images : a < b /\ p = {a, b}
      BY <1>1, <1>4
    <3> QED BY <2>2, <3>1, <3>2
  <2>4. ASSUME i < j, {i, j} \in chosen PROVE <<i, j>> \in S
    BY <2>2, <2>4
  <2> QED BY <2>3, <2>4
<1> HIDE DEF S
<1>6. out' = [p \in DOMAIN out |-> out[p] + (IF p \in S THEN 1 ELSE 0)]
  BY <1>2 DEF G!ReturnsSet, G!Returns, S
<1>7. G!Images' = G!Images
  BY <1>3 DEF G!Images
<1>8. out' \in [G!Images \X G!Images -> Nat]
  <2>1. \A p \in G!Images \X G!Images : out[p] + (IF p \in S THEN 1 ELSE 0) \in Nat
    BY <1>1
  <2> QED BY <1>1, <1>6, <2>1
<1>9. /\ pending \subseteq tried /\ pending \cap inliers = {} /\ goptions.matched \subseteq inliers
      /\ \A i, j \in G!Images :
            out[<<i, j>>] > 0 =>
                /\ i < j /\ out[<<i, j>>] = 1
                /\ {i, j} \in tried \ pending /\ {i, j} \notin goptions.matched
  BY <1>3 DEF PairsInv, ReturnedSoFar
<1>10. pending' \subseteq tried' /\ pending' \cap inliers' = {} /\ goptions'.matched \subseteq inliers'
  BY <1>1, <1>2, <1>3, <1>4, <1>9
<1>11. ASSUME NEW i \in G!Images, NEW j \in G!Images, out'[<<i, j>>] > 0
       PROVE  /\ i < j /\ out'[<<i, j>>] = 1
              /\ {i, j} \in tried \ pending' /\ {i, j} \notin goptions.matched
  <2>1. out'[<<i, j>>] = out[<<i, j>>] + (IF <<i, j>> \in S THEN 1 ELSE 0)
        /\ out[<<i, j>>] \in Nat
    BY <1>1, <1>6
  <2>2. CASE <<i, j>> \in S
    <3>1. i < j /\ {i, j} \in chosen
      BY <1>5, <2>2
    <3>2. {i, j} \in pending
      BY <1>4, <3>1
    <3>3. ~(out[<<i, j>>] > 0)
      BY <1>9, <3>2
    <3>4. out'[<<i, j>>] = 1
      BY <2>1, <2>2, <3>3
    <3>5. {i, j} \in tried \ pending' /\ {i, j} \notin goptions.matched
      BY <1>2, <1>9, <3>1, <3>2
    <3> QED BY <3>1, <3>4, <3>5
  <2>3. CASE <<i, j>> \notin S
    <3>1. out'[<<i, j>>] = out[<<i, j>>]
      BY <2>1, <2>3
    <3> QED BY <1>2, <1>9, <1>11, <3>1
  <2> QED BY <2>2, <2>3
<1>12. ReturnedSoFar'
  BY <1>3, <1>7, <1>10, <1>11 DEF ReturnedSoFar
<1>13. \A p \in pending' : \E i, j \in G!Images' : i < j /\ p = {i, j}
  BY <1>1, <1>2, <1>7
<1> QED BY <1>1, <1>3, <1>8, <1>7, <1>12, <1>13 DEF PairsInv

LEMMA InBatchFinite ==
    ASSUME G!OptionsAssumption, goptions \in PairOptions, NEW i, NEW j
    PROVE  /\ IsFiniteSet(G!Expansion(i, i) \cap {j})
           /\ IsFiniteSet({k \in G!Neighbours(i) : j \in {k} \cup G!Expansion(i, k)})
           /\ InBatch(i, j) \in Nat
<1> DEFINE A == G!Expansion(i, i) \cap {j}
           B == {k \in G!Neighbours(i) : j \in {k} \cup G!Expansion(i, k)}
<1>1. IsFiniteSet(G!Images)
  <2>1. goptions.n \in Nat /\ G!Images = 0 .. goptions.n - 1
    BY ListedOption
  <2>2. goptions.n - 1 \in Int /\ 0 \in Int
    BY <2>1
  <2> QED BY <2>1, <2>2, FS_Interval
<1>2. IsFiniteSet({j})
  BY FS_Singleton
<1>3. A \subseteq {j} /\ B \subseteq G!Images
  BY DEF G!Neighbours
<1>4. IsFiniteSet(A) /\ IsFiniteSet(B)
  BY <1>1, <1>2, <1>3, FS_Subset
<1>5. Cardinality(A) \in Nat /\ Cardinality(B) \in Nat
  BY <1>4, FS_CardinalityType
<1> QED BY <1>4, <1>5 DEF InBatch

LEMMA SequentialKeeps ==
    ASSUME G!OptionsAssumption, PairsInv, G!NextSequential PROVE PairsInv'
<1>1. /\ goptions \in PairOptions /\ idx \in Nat /\ idx2 \in Nat
      /\ out \in [G!Images \X G!Images -> Nat]
      /\ \A p \in pending : \E i, j \in G!Images : i < j /\ p = {i, j}
  BY DEF PairsInv
<1>2. goptions.kind = "sequential" /\ idx' = idx + 1 /\ UNCHANGED <<goptions, idx2, pending, tried>>
  BY DEF G!NextSequential
<1>3. G!Images' = G!Images
  BY <1>2 DEF G!Images
<1>4. out' = [p \in DOMAIN out |->
                  out[p] + IF p[1] # idx THEN 0 ELSE InBatch(idx, p[2])]
  <2>1. G!Returns(LAMBDA p :
            IF p[1] # idx THEN 0
            ELSE G!Cardinality(G!Expansion(idx, idx) \cap {p[2]})
                 + G!Cardinality({j \in G!Neighbours(idx) :
                                      p[2] \in {j} \cup G!Expansion(idx, j)}))
    BY DEF G!NextSequential
  <2>2. out' = [p \in DOMAIN out |-> out[p] +
            IF p[1] # idx THEN 0
            ELSE G!Cardinality(G!Expansion(idx, idx) \cap {p[2]})
                 + G!Cardinality({j \in G!Neighbours(idx) :
                                      p[2] \in {j} \cup G!Expansion(idx, j)})]
    BY <2>1 DEF G!Returns
  <2> QED BY <2>2, PairCardinality DEF InBatch
<1>5. \A i, j \in G!Images : InBatch(i, j) \in Nat
  BY <1>1, <1>2, InBatchFinite
<1>6. \A i \in G!Images : i \in Nat
  BY <1>1, ListedOption
<1>7. \A i, j \in G!Images : out[<<i, j>>] = IF i < idx THEN InBatch(i, j) ELSE 0
  BY <1>2 DEF PairsInv, ReturnedSoFar
<1>8. ASSUME NEW i \in G!Images, NEW j \in G!Images
      PROVE  /\ out'[<<i, j>>] = IF i < idx' THEN InBatch(i, j) ELSE 0
             /\ out'[<<i, j>>] \in Nat
  <2>1. out'[<<i, j>>] = out[<<i, j>>] + IF i # idx THEN 0 ELSE InBatch(i, j)
    BY <1>1, <1>4
  <2>2. InBatch(i, j) \in Nat /\ i \in Nat
    BY <1>5, <1>6
  <2>3. out[<<i, j>>] = IF i < idx THEN InBatch(i, j) ELSE 0
    BY <1>7
  <2> QED BY <1>1, <1>2, <2>1, <2>2, <2>3
<1>9. out' \in [G!Images \X G!Images -> Nat]
  <2>1. ASSUME NEW p \in G!Images \X G!Images
        PROVE  out[p] + (IF p[1] # idx THEN 0 ELSE InBatch(idx, p[2])) \in Nat
    <3>1. p[1] \in G!Images /\ p[2] \in G!Images /\ out[p] \in Nat
      BY <1>1
    <3>2. (IF p[1] # idx THEN 0 ELSE InBatch(idx, p[2])) \in Nat
      BY <1>5, <3>1
    <3> QED BY <3>1, <3>2
  <2> QED BY <1>1, <1>4, <2>1
<1>10. ASSUME NEW i \in G!Images, NEW j \in G!Images PROVE InBatch(i, j)' = InBatch(i, j)
  BY <1>2 DEF InBatch, G!Expansion, G!Neighbours, G!FrameMates, G!Frame, G!Offsets, G!Images
<1>11. ReturnedSoFar'
  BY <1>2, <1>3, <1>8, <1>10 DEF ReturnedSoFar
<1> QED BY <1>1, <1>2, <1>3, <1>9, <1>11 DEF PairsInv

(* A batch has no more of j than there are images. *)
LEMMA SpatialKeeps ==
    ASSUME G!OptionsAssumption, PairsInv, G!NextSpatial PROVE PairsInv'
<1>1. /\ goptions \in PairOptions /\ idx \in Nat /\ idx2 \in Nat
      /\ out \in [G!Images \X G!Images -> Nat]
      /\ \A p \in pending : \E i, j \in G!Images : i < j /\ p = {i, j}
  BY DEF PairsInv
<1>2. goptions.kind = "spatial" /\ idx' = idx + 1 /\ UNCHANGED <<goptions, idx2, pending, tried>>
      /\ ~G!HasFinished
  BY DEF G!NextSpatial
<1>3. G!Images' = G!Images
  BY <1>2 DEF G!Images
<1>4. idx \in G!Images /\ \A i \in G!Images : i \in Nat
  <2>1. ~(idx >= goptions.n)
    BY <1>2 DEF G!HasFinished
  <2> QED BY <1>1, <2>1, ListedOption
<1>5. PICK row \in G!Rows(idx) :
          G!ReturnsSet({<<idx, row[j]>> : j \in Taken(idx, row)})
  BY DEF G!NextSpatial, Taken
<1> DEFINE S == {<<idx, row[j]>> : j \in Taken(idx, row)}
<1>6. ASSUME NEW i \in G!Images, NEW j \in G!Images
      PROVE  <<i, j>> \in S <=> i = idx /\ j \in Near(idx, row)
  BY DEF Near
<1> HIDE DEF S
<1>7. out' = [p \in DOMAIN out |-> out[p] + IF p \in S THEN 1 ELSE 0]
  BY <1>5 DEF G!ReturnsSet, G!Returns, S
<1>8. ASSUME NEW i \in G!Images, NEW j \in G!Images
      PROVE  out'[<<i, j>>] = out[<<i, j>>] + IF i = idx /\ j \in Near(idx, row) THEN 1 ELSE 0
  BY <1>1, <1>6, <1>7
<1>9. out' \in [G!Images \X G!Images -> Nat]
  <2>1. \A p \in G!Images \X G!Images : out[p] + (IF p \in S THEN 1 ELSE 0) \in Nat
    BY <1>1
  <2> QED BY <1>1, <1>7, <2>1
<1>10. \A i, rw : /\ G!Rows(i)' = G!Rows(i)
                  /\ Near(i, rw)' = Near(i, rw)
  BY <1>2 DEF G!Rows, G!Knn, G!Images, G!Distance, Near, Taken, G!Enough
<1>11. ASSUME NEW i \in G!Images
       PROVE  /\ i < idx =>
                    \E rw \in G!Rows(i) : \A j \in G!Images :
                        out[<<i, j>>] = IF j \in Near(i, rw) THEN 1 ELSE 0
              /\ ~(i < idx) => \A j \in G!Images : out[<<i, j>>] = 0
  BY <1>2 DEF PairsInv, ReturnedSoFar
<1>12. ASSUME NEW i \in G!Images
       PROVE  /\ i < idx' =>
                    \E rw \in G!Rows(i) : \A j \in G!Images :
                        out'[<<i, j>>] = IF j \in Near(i, rw) THEN 1 ELSE 0
              /\ ~(i < idx') => \A j \in G!Images : out'[<<i, j>>] = 0
  <2>1. i \in Nat /\ \A j \in G!Images : out[<<i, j>>] \in Nat
    BY <1>1, <1>4
  <2>2. CASE i = idx
    <3>1. \A j \in G!Images : out[<<i, j>>] = 0
      BY <1>1, <1>11, <2>2
    <3>2. \A j \in G!Images : out'[<<i, j>>] = IF j \in Near(i, row) THEN 1 ELSE 0
      BY <1>8, <2>2, <3>1
    <3>3. row \in G!Rows(i) /\ i < idx'
      BY <1>1, <1>2, <1>5, <2>2
    <3> QED BY <3>2, <3>3
  <2>3. CASE i # idx
    <3>1. ASSUME NEW j \in G!Images PROVE out'[<<i, j>>] = out[<<i, j>>]
      <4>1. out'[<<i, j>>] = out[<<i, j>>] + 0
        BY <1>8, <2>3
      <4>2. out[<<i, j>>] \in Nat
        BY <2>1
      <4> QED BY <4>1, <4>2
    <3>2. i < idx' <=> i < idx
      BY <1>1, <1>2, <2>1, <2>3
    <3> QED BY <1>11, <3>1, <3>2
  <2> QED BY <2>2, <2>3
<1>13. ReturnedSoFar'
  BY <1>2, <1>3, <1>10, <1>12 DEF ReturnedSoFar
<1> QED BY <1>1, <1>2, <1>3, <1>9, <1>13 DEF PairsInv

LEMMA PairsResetKeeps ==
    ASSUME G!OptionsAssumption, PairsInv, G!Reset PROVE PairsInv'
<1>1. /\ idx' = 0 /\ idx2' = 0 /\ pending' = {} /\ tried' = {}
      /\ out' = [p \in DOMAIN out |-> 0] /\ goptions' = goptions /\ inliers' = inliers
  BY DEF G!Reset, G!ResetColumn
<1>2. /\ goptions \in PairOptions /\ out \in [G!Images \X G!Images -> Nat]
      /\ goptions.kind = "transitive" => goptions.matched \subseteq inliers
  BY DEF PairsInv, ReturnedSoFar
<1>3. \A i \in G!Images : i \in Nat
  BY <1>2, ListedOption
<1>4. G!Images' = G!Images
  BY <1>1 DEF G!Images
<1>5. out' \in [G!Images \X G!Images -> Nat] /\ \A p \in G!Images \X G!Images : out'[p] = 0
  BY <1>1, <1>2
<1>6. \A i, j \in G!Images : out'[<<i, j>>] = 0 /\ ~(i < idx')
  BY <1>1, <1>3, <1>5
<1>7. ReturnedSoFar'
  <2>1. ASSUME NEW i \in G!Images, NEW j \in G!Images PROVE ~Returned(i, j)'
    BY <1>1, <1>3 DEF Returned
  <2>2. ASSUME NEW p PROVE Entry(p)' = {}
    BY <1>1 DEF Entry
  <2>3. goptions.kind = "imported" =>
            \A p \in G!Images \X G!Images : out'[p] = Cardinality(Entry(p)')
    BY <1>5, <2>2, FS_EmptySet
  <2>4. goptions.kind = "exhaustive" =>
            \A i, j \in G!Images :
                out'[<<i, j>>] = IF G!Chosen(i, j)' /\ Returned(i, j)' THEN 1 ELSE 0
    BY <1>6, <2>1
  <2>5. goptions.kind = "transitive" =>
            /\ pending' \subseteq tried' /\ pending' \cap inliers' = {}
            /\ goptions.matched \subseteq inliers'
            /\ \A i, j \in G!Images : ~(out'[<<i, j>>] > 0)
    BY <1>1, <1>2, <1>6
  <2>6. \A i, j \in G!Images : out'[<<i, j>>] = IF i < idx' THEN InBatch(i, j)' ELSE 0
    BY <1>6
  <2>7. \A i \in G!Images :
            /\ i < idx' =>
                  \E row \in G!Rows(i)' : \A j \in G!Images :
                      out'[<<i, j>>] = IF j \in Near(i, row)' THEN 1 ELSE 0
            /\ ~(i < idx') => \A j \in G!Images : out'[<<i, j>>] = 0
    BY <1>6
  <2> QED BY <1>1, <1>4, <2>3, <2>4, <2>5, <2>6, <2>7 DEF ReturnedSoFar
<1> QED BY <1>1, <1>2, <1>4, <1>5, <1>7 DEF PairsInv

LEMMA PairsInvariant == G!OptionsAssumption /\ G!Spec => []PairsInv
<1> SUFFICES ASSUME G!OptionsAssumption PROVE G!Spec => []PairsInv
  OBVIOUS
<1>1. G!Init => PairsInv
  BY PairsStart
<1>2. PairsInv /\ [G!Next]_(G!vars) => PairsInv'
  <2>1. PairsInv /\ UNCHANGED G!vars => PairsInv'
    <3> SUFFICES ASSUME PairsInv, UNCHANGED G!vars PROVE PairsInv'
      OBVIOUS
    <3>1. UNCHANGED <<goptions, idx, idx2, pending, tried, iteration, inliers, out, gresets>>
      BY DEF G!vars
    <3>2. /\ G!Images' = G!Images
          /\ \A i, j : G!Chosen(i, j)' = G!Chosen(i, j) /\ Returned(i, j)' = Returned(i, j)
          /\ \A p : Entry(p)' = Entry(p)
      BY <3>1 DEF G!Images, G!Chosen, Returned, Entry
    <3>3. \A i, j : InBatch(i, j)' = InBatch(i, j)
      BY <3>1 DEF InBatch, G!Expansion, G!Neighbours, G!FrameMates, G!Frame, G!Offsets, G!Images
    <3>4. \A i, rw : G!Rows(i)' = G!Rows(i) /\ Near(i, rw)' = Near(i, rw)
      BY <3>1 DEF G!Rows, G!Knn, G!Images, G!Distance, Near, Taken, G!Enough
    <3>5. ReturnedSoFar
      BY DEF PairsInv
    <3>6. ReturnedSoFar'
      BY <3>1, <3>2, <3>3, <3>4, <3>5 DEF ReturnedSoFar
    <3> QED BY <3>1, <3>2, <3>6 DEF PairsInv
  <2> QED BY <2>1, ExhaustiveKeeps, ImportedKeeps, StartIterationKeeps, TransitiveKeeps,
             SequentialKeeps, SpatialKeeps, PairsResetKeeps DEF G!Next
<1> QED BY <1>1, <1>2, PTL DEF G!Spec

-----------------------------------------------------------------------------
LEMMA SmallerRemainder ==
    \A x, y : x \in Int /\ y \in Int => ~(x <= y /\ y < x) /\ (x <= y \/ y < x)
OBVIOUS

LEMMA AllPairsOnce == G!OptionsAssumption /\ PairsInv => G!AllOnce
<1> SUFFICES ASSUME G!OptionsAssumption, PairsInv, goptions.kind = "exhaustive"
             PROVE  G!Once /\ (G!HasFinished => \A i, j \in G!Images : i # j => G!Times(i, j) = 1)
  BY DEF G!AllOnce
<1>1. /\ goptions.n \in Nat /\ goptions.size \in Nat \ {0, 1} /\ G!Images = 0 .. goptions.n - 1
      /\ idx \in Nat /\ idx2 \in Nat
      /\ \A i, j \in G!Images :
            out[<<i, j>>] = IF G!Chosen(i, j) /\ Returned(i, j) THEN 1 ELSE 0
  BY ListedOption DEF PairsInv, ReturnedSoFar
<1>2. \A i \in G!Images : i \in Nat /\ i < goptions.n
  BY <1>1
<1>3. ASSUME NEW i \in G!Images, NEW j \in G!Images, i # j
      PROVE  ~(G!Chosen(i, j) /\ G!Chosen(j, i)) /\ (G!Chosen(i, j) \/ G!Chosen(j, i))
  <2>1. i \in Nat /\ j \in Nat /\ (i < j \/ j < i) /\ ~(i < j /\ j < i)
    BY <1>2, <1>3
  <2>2. i % goptions.size \in Int /\ j % goptions.size \in Int
    BY <1>1, <2>1
  <2> DEFINE x == i % goptions.size
             y == j % goptions.size
  <2>3. /\ G!Chosen(i, j) <=> (j < i /\ x <= y) \/ (i < j /\ x < y)
        /\ G!Chosen(j, i) <=> (i < j /\ y <= x) \/ (j < i /\ y < x)
    <3>1. (i > j <=> j < i) /\ (j > i <=> i < j)
      BY <2>1
    <3> QED BY <3>1 DEF G!Chosen
  <2> HIDE DEF x, y
  <2>4. x \in Int /\ y \in Int
    BY <2>2 DEF x, y
  <2> QED BY <2>1, <2>3, <2>4, SmallerRemainder
<1>4. G!Once
  <2>1. ASSUME NEW i \in G!Images, NEW j \in G!Images, i # j PROVE G!Times(i, j) <= 1
    <3>1. ~(G!Chosen(i, j) /\ G!Chosen(j, i))
      BY <1>3, <2>1
    <3>2. /\ out[<<i, j>>] = IF G!Chosen(i, j) /\ Returned(i, j) THEN 1 ELSE 0
          /\ out[<<j, i>>] = IF G!Chosen(j, i) /\ Returned(j, i) THEN 1 ELSE 0
      BY <1>1
    <3>3. \/ out[<<i, j>>] = 0 /\ out[<<j, i>>] \in {0, 1}
          \/ out[<<j, i>>] = 0 /\ out[<<i, j>>] \in {0, 1}
      BY <3>1, <3>2
    <3> QED BY <3>3 DEF G!Times
  <2> QED BY <2>1 DEF G!Once
<1>5. ASSUME G!HasFinished, NEW i \in G!Images, NEW j \in G!Images, i # j
      PROVE  G!Times(i, j) = 1
  <2>1. idx >= goptions.n
    BY <1>5 DEF G!HasFinished
  <2>2. Returned(i, j) /\ Returned(j, i)
    BY <1>1, <1>2, <2>1 DEF Returned
  <2>3. /\ out[<<i, j>>] = IF G!Chosen(i, j) THEN 1 ELSE 0
        /\ out[<<j, i>>] = IF G!Chosen(j, i) THEN 1 ELSE 0
    BY <1>1, <2>2
  <2>4. \/ out[<<i, j>>] = 0 /\ out[<<j, i>>] = 1
        \/ out[<<j, i>>] = 0 /\ out[<<i, j>>] = 1
    BY <1>3, <1>5, <2>3
  <2> QED BY <2>4 DEF G!Times
<1> QED BY <1>4, <1>5

LEMMA AllListed == G!OptionsAssumption /\ PairsInv => G!ListKept
<1> SUFFICES ASSUME G!OptionsAssumption, PairsInv, goptions.kind = "imported", G!HasFinished,
                    NEW p \in DOMAIN out
             PROVE  out[p] = G!Cardinality({k \in DOMAIN goptions.list : goptions.list[k] = p})
  BY DEF G!ListKept
<1>1. /\ goptions.list \in Seq(G!Images \X G!Images) /\ idx \in Nat
      /\ p \in G!Images \X G!Images /\ out[p] = Cardinality(Entry(p))
  BY ListedOption DEF PairsInv, ReturnedSoFar
<1>2. idx >= Len(goptions.list) /\ Len(goptions.list) \in Nat
      /\ DOMAIN goptions.list = 1 .. Len(goptions.list)
  <2>1. idx >= Len(goptions.list)
    BY DEF G!HasFinished
  <2> QED BY <1>1, <2>1, LenProperties
<1>3. \A k \in 1 .. Len(goptions.list) : k <= idx
  BY <1>1, <1>2
<1>4. Entry(p) = {k \in DOMAIN goptions.list : goptions.list[k] = p}
  BY <1>2, <1>3 DEF Entry
<1> QED BY <1>1, <1>4, PairCardinality

LEMMA NoneReturnedAgain == G!OptionsAssumption /\ PairsInv => G!NoneAgain
<1> SUFFICES ASSUME G!OptionsAssumption, PairsInv, goptions.kind = "transitive"
             PROVE  G!Once /\ \A i, j \in G!Images : {i, j} \in goptions.matched => G!Times(i, j) = 0
  BY DEF G!NoneAgain
<1>1. /\ \A i, j \in G!Images : out[<<i, j>>] \in Nat
      /\ \A i, j \in G!Images :
            out[<<i, j>>] > 0 => i < j /\ out[<<i, j>>] = 1 /\ {i, j} \notin goptions.matched
      /\ \A i \in G!Images : i \in Nat
  BY ListedOption DEF PairsInv, ReturnedSoFar
<1>2. ASSUME NEW i \in G!Images, NEW j \in G!Images PROVE G!Times(i, j) <= 1
  <2>1. ~(i < j /\ j < i)
    BY <1>1
  <2>2. ~(out[<<i, j>>] > 0 /\ out[<<j, i>>] > 0)
    BY <1>1, <2>1
  <2>3. ASSUME NEW k \in G!Images, NEW l \in G!Images PROVE out[<<k, l>>] \in {0, 1}
    <3>1. out[<<k, l>>] \in Nat /\ (out[<<k, l>>] > 0 => out[<<k, l>>] = 1)
      BY <1>1
    <3> QED BY <3>1
  <2>4. out[<<i, j>>] \in {0, 1} /\ out[<<j, i>>] \in {0, 1}
    BY <2>3
  <2> QED BY <2>2, <2>4 DEF G!Times
<1>3. ASSUME NEW i \in G!Images, NEW j \in G!Images, {i, j} \in goptions.matched
      PROVE  G!Times(i, j) = 0
  <2>1. {j, i} \in goptions.matched
    <3>1. {i, j} = {j, i}
      OBVIOUS
    <3> QED BY <1>3, <3>1
  <2>2. out[<<i, j>>] = 0 /\ out[<<j, i>>] = 0
    BY <1>1, <1>3, <2>1
  <2> QED BY <2>2 DEF G!Times
<1> QED BY <1>2, <1>3 DEF G!Once

(* Image f of the camera of i, for a frame f. *)
FrameNumbers(n, F, i, f) ==
    n \in Nat /\ F \in Nat \ {0} /\ n % F = 0 /\ i \in 0 .. n - 1 /\ f \in 0 .. F - 1
OfFrame(F, i, f) == i - (i % F) + f

LEMMA SameCamera ==
    \A n, F, i, f : FrameNumbers(n, F, i, f) =>
        OfFrame(F, i, f) \in 0 .. n - 1 /\ OfFrame(F, i, f) % F = f
<1> SUFFICES ASSUME NEW n, NEW F, NEW i, NEW f, FrameNumbers(n, F, i, f)
             PROVE  OfFrame(F, i, f) \in 0 .. n - 1 /\ OfFrame(F, i, f) % F = f
  OBVIOUS
<1>0. n \in Nat /\ F \in Nat \ {0} /\ n % F = 0 /\ i \in 0 .. n - 1 /\ f \in 0 .. F - 1
  BY DEF FrameNumbers
<1> DEFINE q == i \div F
           p == n \div F
<1>1. i \in Nat /\ i < n
  BY <1>0
<1>2. q \in Int /\ p \in Int /\ i = F * q + (i % F) /\ n = F * p + (n % F)
      /\ i % F \in 0 .. F - 1
  BY <1>0, <1>1
<1>3. n = F * p
  BY <1>0, <1>2
<1>4. q \in Nat
  BY <1>0, <1>1
<1>5. F * q < F * p
  BY <1>0, <1>1, <1>2, <1>3
<1>6. q < p
  <2>1. F * q \in Int /\ F * p \in Int
    BY <1>0, <1>2
  <2> HIDE DEF q, p
  <2>2. ~(p <= q)
    <3> SUFFICES ASSUME p <= q PROVE FALSE
      OBVIOUS
    <3>1. F * p <= F * q
      BY <1>0, <1>2
    <3> QED BY <1>5, <2>1, <3>1
  <2> QED BY <1>2, <2>2
<1> HIDE DEF q, p
<1>7. F * q + F <= F * p
  BY <1>0, <1>2, <1>6
<1>8. i - (i % F) + f = F * q + f
  <2> DEFINE r == i % F
             m == F * q
  <2>1. r \in Int /\ m \in Int /\ i = m + r
    BY <1>0, <1>2
  <2> HIDE DEF r, m
  <2>2. i - r + f = m + f
    BY <1>0, <1>1, <2>1
  <2> QED BY <2>2 DEF r, m
<1>9. (F * q + f) % F = f
  BY <1>0, <1>4
<1>10. F * q \in Nat
  BY <1>0, <1>4
<1>11. F * q + f \in 0 .. n - 1
  <2> DEFINE m == F * q
             t == F * p
  <2>1. m \in Nat /\ m + F <= t /\ n = t
    BY <1>0, <1>3, <1>7, <1>10
  <2> HIDE DEF m, t
  <2>2. m + f \in 0 .. n - 1
    BY <1>0, <2>1
  <2> QED BY <2>2 DEF m
<1> QED BY <1>8, <1>9, <1>11 DEF OfFrame

LEMMA AllFramesPaired == G!OptionsAssumption /\ PairsInv => G!FramesPaired
<1> SUFFICES ASSUME G!OptionsAssumption, PairsInv, goptions.kind = "sequential"
             PROVE  /\ goptions.expand /\ G!HasFinished =>
                          \A i, j \in G!Images :
                              /\ i # j
                              /\ G!Frame(i) = G!Frame(j) \/ G!Frame(j) - G!Frame(i) \in G!Offsets
                              => G!Times(i, j) > 0
                    /\ ~goptions.expand => G!Once
  BY DEF G!FramesPaired
<1>1. /\ goptions \in PairOptions /\ idx \in Nat /\ goptions.n \in Nat
      /\ G!Images = 0 .. goptions.n - 1
      /\ goptions.frames \in Nat \ {0} /\ goptions.n % goptions.frames = 0
      /\ goptions.expand \in BOOLEAN
      /\ \A i, j \in G!Images : out[<<i, j>>] \in Nat
      /\ \A i, j \in G!Images : out[<<i, j>>] = IF i < idx THEN InBatch(i, j) ELSE 0
  BY ListedOption DEF PairsInv, ReturnedSoFar
<1>2. \A i \in G!Images : i \in Nat /\ i < goptions.n
  BY <1>1
<1>3. ASSUME goptions.expand, G!HasFinished,
             NEW i \in G!Images, NEW j \in G!Images, i # j,
             G!Frame(i) = G!Frame(j) \/ G!Frame(j) - G!Frame(i) \in G!Offsets
      PROVE  G!Times(i, j) > 0
  <2> DEFINE A == G!Expansion(i, i) \cap {j}
             B == {k \in G!Neighbours(i) : j \in {k} \cup G!Expansion(i, k)}
  <2>1. idx >= goptions.n
    BY <1>3 DEF G!HasFinished
  <2>2. out[<<i, j>>] = InBatch(i, j)
    BY <1>1, <1>2, <2>1
  <2>3. IsFiniteSet(A) /\ IsFiniteSet(B)
    BY <1>1, InBatchFinite
  <2>4. A # {} \/ B # {}
    <3>1. CASE G!Frame(i) = G!Frame(j)
      <4>1. j \in G!Expansion(i, i)
        BY <1>3, <3>1 DEF G!Expansion, G!FrameMates
      <4> QED BY <4>1
    <3>2. CASE G!Frame(j) - G!Frame(i) \in G!Offsets
      <4> DEFINE d == G!Frame(j) - G!Frame(i)
                 k == i + d
      <4>1. i \in 0 .. goptions.n - 1 /\ j \in Nat /\ i \in Nat
        BY <1>1
      <4>2. j % goptions.frames \in 0 .. goptions.frames - 1 /\ i % goptions.frames \in Int
        BY <1>1, <4>1
      <4>3. /\ i - (i % goptions.frames) + (j % goptions.frames) \in 0 .. goptions.n - 1
            /\ (i - (i % goptions.frames) + (j % goptions.frames)) % goptions.frames
               = j % goptions.frames
        <5> DEFINE F == goptions.frames
                   n == goptions.n
                   f == j % F
        <5>1. FrameNumbers(n, F, i, f)
          BY <1>1, <4>1, <4>2 DEF FrameNumbers
        <5> HIDE DEF F, n, f
        <5>2. OfFrame(F, i, f) \in 0 .. n - 1 /\ OfFrame(F, i, f) % F = f
          BY <5>1, SameCamera
        <5> QED BY <5>2 DEF F, n, f, OfFrame
      <4>4. k = i - (i % goptions.frames) + (j % goptions.frames)
        <5> DEFINE r == i % goptions.frames
                   s == j % goptions.frames
        <5>1. r \in Int /\ s \in Int
          BY <4>2
        <5>2. d = s - r
          BY DEF G!Frame
        <5> HIDE DEF r, s, d
        <5>3. k = i - r + s
          BY <4>1, <5>1, <5>2
        <5> QED BY <5>3 DEF r, s
      <4>5. k \in G!Images /\ G!Frame(k) = G!Frame(j)
        BY <1>1, <4>3, <4>4 DEF G!Frame
      <4>6. k \in G!Neighbours(i)
        BY <3>2, <4>5 DEF G!Neighbours
      <4> HIDE DEF d, k
      <4>7. j \in {k} \cup G!Expansion(i, k)
        BY <1>3, <4>5 DEF G!Expansion, G!FrameMates
      <4> QED BY <4>6, <4>7
    <3> QED BY <1>3, <3>1, <3>2
  <2>5. InBatch(i, j) = Cardinality(A) + Cardinality(B)
    BY DEF InBatch
  <2> HIDE DEF A, B
  <2>6. Cardinality(A) \in Nat /\ Cardinality(B) \in Nat
        /\ (Cardinality(A) = 0 <=> A = {}) /\ (Cardinality(B) = 0 <=> B = {})
    BY <2>3, FS_CardinalityType, FS_EmptySet
  <2>7. out[<<j, i>>] \in Nat
    BY <1>1
  <2>8. Cardinality(A) # 0 \/ Cardinality(B) # 0
    BY <2>4, <2>6
  <2>9. out[<<i, j>>] > 0
    <3> DEFINE a == Cardinality(A)
               b == Cardinality(B)
    <3>1. a \in Nat /\ b \in Nat /\ (a # 0 \/ b # 0) /\ out[<<i, j>>] = a + b
      BY <2>2, <2>5, <2>6, <2>8
    <3> HIDE DEF a, b
    <3> QED BY <3>1
  <2>10. out[<<i, j>>] \in Nat
    BY <1>1
  <2> QED BY <2>7, <2>9, <2>10 DEF G!Times
<1>4. ASSUME ~goptions.expand PROVE G!Once
  <2>1. ASSUME NEW i \in G!Images, NEW j \in G!Images
        PROVE  out[<<i, j>>] <= 1 /\ (out[<<i, j>>] > 0 => i < j)
    <3> DEFINE A == G!Expansion(i, i) \cap {j}
               B == {k \in G!Neighbours(i) : j \in {k} \cup G!Expansion(i, k)}
    <3>1. A = {} /\ B = {k \in G!Neighbours(i) : j = k}
      BY <1>4 DEF G!Expansion
    <3>2. InBatch(i, j) = Cardinality({}) + Cardinality(B)
      BY <3>1 DEF InBatch
    <3>3. B = {} \/ B = {j}
      BY <3>1
    <3>4. B # {} => i < j
      <4> SUFFICES ASSUME j \in G!Neighbours(i) PROVE i < j
        BY <3>1
      <4>1. PICK d \in G!Offsets : j = i + d
        BY DEF G!Neighbours
      <4>2. d \in 1 .. goptions.n
        BY DEF G!Offsets
      <4> QED BY <1>1, <1>2, <4>1, <4>2
    <3> HIDE DEF B
    <3>5. Cardinality({}) = 0 /\ Cardinality({j}) = 1
      BY FS_EmptySet, FS_Singleton
    <3>6. out[<<i, j>>] = 0 \/ (out[<<i, j>>] = InBatch(i, j))
      BY <1>1
    <3> QED BY <3>2, <3>3, <3>4, <3>5, <3>6
  <2>2. ASSUME NEW i \in G!Images, NEW j \in G!Images PROVE G!Times(i, j) <= 1
    <3>1. ~(i < j /\ j < i)
      BY <1>2
    <3>2. out[<<i, j>>] \in {0, 1} /\ out[<<j, i>>] \in {0, 1}
      BY <1>1, <2>1
    <3>3. ~(out[<<i, j>>] > 0 /\ out[<<j, i>>] > 0)
      BY <2>1, <3>1
    <3> QED BY <3>2, <3>3 DEF G!Times
  <2> QED BY <2>2 DEF G!Once
<1> QED BY <1>3, <1>4

(* The smallest of a set of numbers. *)
LEMMA Least ==
    ASSUME NEW S \in SUBSET Nat, S # {}
    PROVE  \E x \in S : \A y \in S : x <= y
<1> DEFINE R == {p \in Nat \X Nat : p[1] < p[2]}
<1>1. IsWellFoundedOn(R, Nat)
  BY NatLessThanWellFounded DEF OpToRel
<1> HIDE DEF R
<1>2. PICK x \in S : \A y \in S : ~(<<y, x>> \in R)
  BY <1>1, WFMin
<1>3. ASSUME NEW y \in S PROVE x <= y
  <2>1. x \in Nat /\ y \in Nat /\ ~(<<y, x>> \in R)
    BY <1>2
  <2>2. <<y, x>> \in R <=> y < x
    BY <2>1 DEF R
  <2> QED BY <2>1, <2>2
<1> QED BY <1>3

(* A sequence of numbers none of which is less than the one before. *)
LEMMA Ascending ==
    ASSUME NEW K \in Nat, NEW f, \A k \in 0 .. K - 1 : f[k] \in Nat,
           \A k \in 1 .. K - 1 : f[k - 1] <= f[k],
           NEW p \in 0 .. K - 1, NEW q \in 0 .. K - 1, p <= q
    PROVE  f[p] <= f[q]
<1> DEFINE S == {k \in p .. K - 1 : ~(f[p] <= f[k])}
<1> SUFFICES ASSUME S # {} PROVE FALSE
  OBVIOUS
<1>1. S \in SUBSET Nat
  OBVIOUS
<1>2. PICK x \in S : \A y \in S : x <= y
  BY <1>1, Least
<1>3. x \in p .. K - 1 /\ ~(f[p] <= f[x])
  BY <1>2
<1>4. x # p
  BY <1>3
<1>5. x - 1 \in p .. K - 1 /\ x \in 1 .. K - 1 /\ x - 1 \in 0 .. K - 1 /\ ~(x <= x - 1)
  BY <1>3, <1>4
<1>6. x - 1 \notin S
  BY <1>2, <1>5
<1>7. f[p] <= f[x - 1]
  BY <1>5, <1>6
<1>8. f[x - 1] <= f[x]
  BY <1>5
<1>9. f[p] \in Nat /\ f[x - 1] \in Nat /\ f[x] \in Nat
  BY <1>5
<1> QED BY <1>3, <1>7, <1>8, <1>9

(* The first m entries of a sequence without repetitions are m images. *)
First(m, f) == {f[k] : k \in 0 .. m - 1}
Distinct(f, K) == \A k, l \in 0 .. K - 1 : f[k] = f[l] => k = l

LEMMA FirstEntries ==
    \A K, m \in Nat : \A f : m <= K /\ Distinct(f, K) =>
        IsFiniteSet(First(m, f)) /\ Cardinality(First(m, f)) = m
<1> SUFFICES ASSUME NEW K \in Nat, NEW m \in Nat, NEW f, m <= K, Distinct(f, K)
             PROVE  IsFiniteSet(First(m, f)) /\ Cardinality(First(m, f)) = m
  OBVIOUS
<1> DEFINE T == {f[k] : k \in 0 .. m - 1}
           g == [k \in 0 .. m - 1 |-> f[k]]
<1>1. IsFiniteSet(0 .. m - 1) /\ Cardinality(0 .. m - 1) = m
  <2>1. 0 \in Int /\ m - 1 \in Int
    OBVIOUS
  <2> QED BY <2>1, FS_Interval
<1>2. \A k \in 0 .. m - 1 : k \in 0 .. K - 1
  OBVIOUS
<1>3. g \in Bijection(0 .. m - 1, T)
  <2>1. g \in [0 .. m - 1 -> T]
    OBVIOUS
  <2>2. \A k, l \in 0 .. m - 1 : g[k] = g[l] => k = l
    BY <1>2 DEF Distinct
  <2>3. \A t \in T : \E k \in 0 .. m - 1 : g[k] = t
    OBVIOUS
  <2> QED BY <2>1, <2>2, <2>3, Zenon DEF Bijection, Injection, Surjection, IsInjective
<1> HIDE DEF T, g
<1>4. ExistsBijection(0 .. m - 1, T)
  BY <1>3 DEF ExistsBijection
<1>5. IsFiniteSet(T) /\ Cardinality(T) = m
  BY <1>1, <1>4, FS_Bijection
<1> QED BY <1>5 DEF T, First

LEMMA DistanceIsNumber ==
    ASSUME G!OptionsAssumption, goptions \in PairOptions, goptions.kind = "spatial",
           NEW i \in G!Images, NEW j \in G!Images
    PROVE  G!Distance(i, j) \in Nat /\ G!Distance(i, i) = 0
<1>1. /\ goptions.n \in Nat /\ G!Images = 0 .. goptions.n - 1
      /\ goptions.position \in [1 .. goptions.n -> Nat]
  BY ListedOption
<1>2. i + 1 \in 1 .. goptions.n /\ j + 1 \in 1 .. goptions.n
  BY <1>1
<1>3. goptions.position[i + 1] \in Nat /\ goptions.position[j + 1] \in Nat
  BY <1>1, <1>2
<1> DEFINE a == goptions.position[i + 1]
           b == goptions.position[j + 1]
<1>4. G!Distance(i, j) = (IF a < b THEN b - a ELSE a - b)
      /\ G!Distance(i, i) = (IF a < a THEN a - a ELSE a - a)
  BY DEF G!Distance
<1> HIDE DEF a, b
<1>5. a \in Nat /\ b \in Nat
  BY <1>3 DEF a, b
<1> QED BY <1>4, <1>5

LEMMA RowInOrder ==
    ASSUME G!OptionsAssumption, goptions \in PairOptions, goptions.kind = "spatial",
           NEW i \in G!Images, NEW row \in G!Rows(i)
    PROVE  /\ G!Knn \in Nat \ {0}
           /\ G!Knn = IF goptions.max + 1 <= goptions.n THEN goptions.max + 1 ELSE goptions.n
           /\ row \in [0 .. G!Knn - 1 -> G!Images]
           /\ \A p, q \in 0 .. G!Knn - 1 : row[p] = row[q] => p = q
           /\ \A p, q \in 0 .. G!Knn - 1 : p <= q => G!Distance(i, row[p]) <= G!Distance(i, row[q])
           /\ \A k \in G!Images :
                 \/ \E p \in 0 .. G!Knn - 1 : row[p] = k
                 \/ G!Distance(i, row[G!Knn - 1]) <= G!Distance(i, k)
<1>1. /\ goptions.n \in Nat /\ G!Images = 0 .. goptions.n - 1 /\ goptions.max \in Nat \ {0}
  BY ListedOption
<1>2. G!Knn = IF goptions.max + 1 <= goptions.n THEN goptions.max + 1 ELSE goptions.n
  <2>1. goptions.max + 1 \in Nat /\ goptions.n \in Nat
    BY <1>1
  <2> QED BY <2>1, LeastOfTwo DEF G!Knn
<1>3. G!Knn \in Nat \ {0}
  <2>1. i \in 0 .. goptions.n - 1
    BY <1>1
  <2> QED BY <1>1, <1>2, <2>1
<1>4. /\ row \in [0 .. G!Knn - 1 -> G!Images]
      /\ G!IsInjective(row)
      /\ \A j \in 1 .. G!Knn - 1 : G!Distance(i, row[j - 1]) <= G!Distance(i, row[j])
      /\ \A k \in G!Images \ G!Range(row) : G!Distance(i, row[G!Knn - 1]) <= G!Distance(i, k)
  BY DEF G!Rows
<1>5. \A p, q \in 0 .. G!Knn - 1 : row[p] = row[q] => p = q
  BY <1>4 DEF G!IsInjective
<1>6. ASSUME NEW p \in 0 .. G!Knn - 1, NEW q \in 0 .. G!Knn - 1, p <= q
      PROVE  G!Distance(i, row[p]) <= G!Distance(i, row[q])
  <2> DEFINE f == [k \in 0 .. G!Knn - 1 |-> G!Distance(i, row[k])]
             K == G!Knn
  <2>1. \A k \in 0 .. K - 1 : f[k] \in Nat
    BY <1>4, DistanceIsNumber
  <2>2. \A k \in 1 .. K - 1 : f[k - 1] <= f[k]
    <3>1. \A k \in 1 .. K - 1 : k - 1 \in 0 .. K - 1 /\ k \in 0 .. K - 1
      BY <1>3
    <3> QED BY <1>4, <3>1
  <2>3. f[p] = G!Distance(i, row[p]) /\ f[q] = G!Distance(i, row[q])
    OBVIOUS
  <2> HIDE DEF f
  <2>4. K \in Nat /\ p \in 0 .. K - 1 /\ q \in 0 .. K - 1
    BY <1>3
  <2> HIDE DEF K
  <2>5. f[p] <= f[q]
    BY <1>6, <2>1, <2>2, <2>4, Ascending
  <2> QED BY <2>3, <2>5
<1>7. ASSUME NEW k \in G!Images
      PROVE  \/ \E p \in 0 .. G!Knn - 1 : row[p] = k
             \/ G!Distance(i, row[G!Knn - 1]) <= G!Distance(i, k)
  <2>1. k \in G!Range(row) => \E p \in 0 .. G!Knn - 1 : row[p] = k
    BY <1>4 DEF G!Range
  <2> QED BY <1>4, <2>1
<1> QED BY <1>2, <1>3, <1>4, <1>5, <1>6, <1>7

(* A row gives each image the least number of neighbours, or all images. *)
LEMMA EnoughNear ==
    ASSUME G!OptionsAssumption, goptions \in PairOptions, goptions.kind = "spatial",
           NEW i \in G!Images, NEW row \in G!Rows(i)
    PROVE  /\ IsFiniteSet(Near(i, row))
           /\ Cardinality(Near(i, row)) >= G!Min({goptions.min, goptions.n - 1})
<1> DEFINE K == G!Knn
           min == goptions.min
           m == IF min + 1 <= K THEN min + 1 ELSE K
           T == First(m, row)
<1>1. /\ goptions.n \in Nat /\ G!Images = 0 .. goptions.n - 1
      /\ goptions.max \in Nat \ {0} /\ min \in Nat /\ min <= goptions.max
  BY ListedOption
<1>2. /\ K \in Nat \ {0}
      /\ K = IF goptions.max + 1 <= goptions.n THEN goptions.max + 1 ELSE goptions.n
      /\ row \in [0 .. K - 1 -> G!Images]
      /\ \A p, q \in 0 .. K - 1 : row[p] = row[q] => p = q
  BY RowInOrder
<1> HIDE DEF K
<1>3. m \in Nat /\ m <= K /\ m >= 1
  BY <1>1, <1>2
<1>4. IsFiniteSet(T) /\ Cardinality(T) = m
  <2> HIDE DEF m
  <2>1. K \in Nat /\ m \in Nat /\ m <= K
    BY <1>2, <1>3
  <2>2. Distinct(row, K)
    BY <1>2 DEF Distinct
  <2> QED BY <2>1, <2>2, FirstEntries
<1>5. T \ {i} \subseteq Near(i, row)
  <2> SUFFICES ASSUME NEW k \in 0 .. m - 1, row[k] # i PROVE row[k] \in Near(i, row)
    BY DEF First
  <2>1. k \in 0 .. K - 1 /\ ~(k > min)
    BY <1>1, <1>2, <1>3
  <2>2. k \in Taken(i, row)
    BY <2>1 DEF Taken, G!Enough, K
  <2> QED BY <2>2 DEF Near
<1>6. IsFiniteSet(Near(i, row))
  <2>1. IsFiniteSet(G!Images)
    <3>1. 0 \in Int /\ goptions.n - 1 \in Int
      BY <1>1
    <3> QED BY <1>1, <3>1, FS_Interval
  <2>2. Near(i, row) \subseteq G!Images
    BY <1>2 DEF Near, Taken, K
  <2> QED BY <2>1, <2>2, FS_Subset
<1> HIDE DEF T
<1>7. Cardinality(T \ {i}) \in Nat /\ Cardinality(T \ {i}) >= m - 1
  <2>1. /\ IsFiniteSet(T \ {i})
        /\ Cardinality(T \ {i}) = IF i \in T THEN Cardinality(T) - 1 ELSE Cardinality(T)
    BY <1>4, FS_RemoveElement
  <2>2. Cardinality(T \ {i}) \in Nat
    BY <2>1, FS_CardinalityType
  <2> HIDE DEF m
  <2> QED BY <1>3, <1>4, <2>1, <2>2
<1>8. Cardinality(T \ {i}) <= Cardinality(Near(i, row)) /\ Cardinality(Near(i, row)) \in Nat
  BY <1>5, <1>6, FS_Subset, FS_CardinalityType
<1>9. G!Min({min, goptions.n - 1}) = m - 1
  <2>1. goptions.n - 1 \in Nat
    <3>1. i \in 0 .. goptions.n - 1
      BY <1>1
    <3> QED BY <1>1, <3>1
  <2>2. G!Min({min, goptions.n - 1}) = IF min <= goptions.n - 1 THEN min ELSE goptions.n - 1
    BY <1>1, <2>1, LeastOfTwo
  <2> DEFINE n == goptions.n
             max == goptions.max
  <2>3. n \in Nat /\ n - 1 \in Nat /\ max \in Nat /\ min \in Nat /\ min <= max
        /\ K = IF max + 1 <= n THEN max + 1 ELSE n
    BY <1>1, <1>2, <2>1
  <2> HIDE DEF n, max, min
  <2>4. (IF min <= n - 1 THEN min ELSE n - 1) = m - 1
    BY <2>3
  <2> QED BY <2>2, <2>4 DEF n
<1> HIDE DEF m
<1> QED BY <1>3, <1>6, <1>7, <1>8, <1>9

(* A row gives no image a neighbour that is neither near nor among the least *)
(* number of them.                                                           *)
LEMMA OnlyNear ==
    ASSUME G!OptionsAssumption, goptions \in PairOptions, goptions.kind = "spatial",
           NEW i \in G!Images, NEW row \in G!Rows(i), NEW j \in Near(i, row)
    PROVE  \/ G!Distance(i, j) <= goptions.distance
           \/ Cardinality({k \in G!Images \ {i} : G!Distance(i, k) < G!Distance(i, j)}) < goptions.min
<1> DEFINE K == G!Knn
           min == goptions.min
           D(k) == G!Distance(i, k)
<1>1. /\ goptions.n \in Nat /\ goptions.max \in Nat \ {0} /\ min \in Nat
      /\ goptions.distance \in Nat
  BY ListedOption
<1>2. /\ K \in Nat \ {0} /\ row \in [0 .. K - 1 -> G!Images]
      /\ \A p, q \in 0 .. K - 1 : row[p] = row[q] => p = q
      /\ \A p, q \in 0 .. K - 1 : p <= q => D(row[p]) <= D(row[q])
      /\ \A k \in G!Images : (\E p \in 0 .. K - 1 : row[p] = k) \/ D(row[K - 1]) <= D(k)
  BY RowInOrder
<1>3. \A k \in G!Images : D(k) \in Nat
  BY DistanceIsNumber
<1>4. D(i) = 0
  BY DistanceIsNumber
<1>5. PICK q \in 0 .. K - 1 : /\ j = row[q] /\ row[q] # i
                              /\ D(row[q]) <= goptions.distance \/ ~(q > min)
  BY DEF Near, Taken, G!Enough
<1> HIDE DEF K, D
<1> SUFFICES ASSUME ~(D(j) <= goptions.distance)
             PROVE  Cardinality({k \in G!Images \ {i} : D(k) < D(j)}) < min
  BY DEF D
<1>6. q <= min /\ q \in Nat /\ q < K /\ j \in G!Images /\ D(j) \in Nat /\ D(j) > 0
  <2>1. j \in G!Images /\ D(j) \in Nat
    BY <1>2, <1>3, <1>5
  <2> QED BY <1>1, <1>2, <1>5, <2>1
<1> DEFINE Nearer == {k \in G!Images \ {i} : D(k) < D(j)}
           T == First(q, row)
<1>7. ASSUME NEW k \in G!Images, D(k) < D(j) PROVE k \in T
  <2>1. CASE \E p \in 0 .. K - 1 : row[p] = k
    <3>1. PICK p \in 0 .. K - 1 : row[p] = k
      BY <2>1
    <3>2. ~(q <= p)
      <4>1. q <= p => D(j) <= D(k)
        BY <1>2, <1>5, <3>1
      <4>2. D(k) \in Nat
        BY <1>3
      <4> QED BY <1>6, <1>7, <4>1, <4>2
    <3>3. p \in 0 .. q - 1
      BY <1>6, <3>1, <3>2
    <3> QED BY <3>1, <3>3 DEF First
  <2>2. CASE D(row[K - 1]) <= D(k)
    <3>1. K - 1 \in 0 .. K - 1 /\ q <= K - 1
      BY <1>2, <1>5
    <3>2. D(j) <= D(row[K - 1])
      BY <1>2, <1>5, <3>1
    <3>3. D(row[K - 1]) \in Nat /\ D(k) \in Nat
      BY <1>2, <1>3, <3>1
    <3> QED BY <1>6, <1>7, <2>2, <3>2, <3>3
  <2> QED BY <1>2, <2>1, <2>2
<1>8. i \in T
  BY <1>4, <1>6, <1>7
<1>9. IsFiniteSet(T) /\ Cardinality(T) = q
  <2>1. K \in Nat /\ q \in Nat /\ q <= K
    BY <1>2, <1>6
  <2>2. Distinct(row, K)
    BY <1>2 DEF Distinct
  <2> QED BY <2>1, <2>2, FirstEntries
<1>10. Nearer \subseteq T \ {i}
  BY <1>7
<1> HIDE DEF T, Nearer
<1>11. IsFiniteSet(T \ {i}) /\ Cardinality(T \ {i}) = q - 1
  BY <1>8, <1>9, FS_RemoveElement
<1>12. IsFiniteSet(Nearer) /\ Cardinality(Nearer) <= q - 1
  BY <1>10, <1>11, FS_Subset
<1>13. Cardinality(Nearer) \in Nat
  BY <1>12, FS_CardinalityType
<1>14. Cardinality(Nearer) < min
  BY <1>1, <1>6, <1>12, <1>13
<1> QED BY <1>14 DEF Nearer

LEMMA AllNearPaired == G!OptionsAssumption /\ PairsInv => G!NearPaired
<1> SUFFICES ASSUME G!OptionsAssumption, PairsInv, goptions.kind = "spatial", NEW i \in G!Images
             PROVE  LET mine == {j \in G!Images : out[<<i, j>>] > 0} IN
                    /\ i < idx => G!Cardinality(mine) >= G!Min({goptions.min, goptions.n - 1})
                    /\ \A j \in mine :
                          \/ G!Distance(i, j) <= goptions.distance
                          \/ G!Cardinality({k \in G!Images \ {i} :
                                                G!Distance(i, k) < G!Distance(i, j)}) < goptions.min
  BY DEF G!NearPaired
<1> DEFINE mine == {k \in G!Images : out[<<i, k>>] > 0}
<1>1. /\ goptions \in PairOptions
      /\ i < idx =>
            \E row \in G!Rows(i) : \A j \in G!Images :
                out[<<i, j>>] = IF j \in Near(i, row) THEN 1 ELSE 0
      /\ ~(i < idx) => \A j \in G!Images : out[<<i, j>>] = 0
  BY DEF PairsInv, ReturnedSoFar
<1>2. CASE i < idx
  <2>1. PICK row \in G!Rows(i) : \A j \in G!Images :
            out[<<i, j>>] = IF j \in Near(i, row) THEN 1 ELSE 0
    BY <1>1, <1>2
  <2>2. Near(i, row) \subseteq G!Images
    BY <1>1, RowInOrder DEF Near, Taken
  <2>3. mine = Near(i, row)
    BY <2>1, <2>2
  <2>4. Cardinality(mine) >= G!Min({goptions.min, goptions.n - 1})
    BY <1>1, <2>3, EnoughNear
  <2>5. \A j \in mine :
            \/ G!Distance(i, j) <= goptions.distance
            \/ Cardinality({k \in G!Images \ {i} : G!Distance(i, k) < G!Distance(i, j)})
                  < goptions.min
    BY <1>1, <2>3, OnlyNear
  <2> QED BY <2>4, <2>5, PairCardinality
<1>3. CASE ~(i < idx)
  <2>1. mine = {}
    BY <1>1, <1>3
  <2> QED BY <1>3, <2>1
<1> QED BY <1>2, <1>3

(* Induction over a set, which stands for the property of the numbers in it. *)
LEMMA Induction ==
    ASSUME NEW S, 0 \in S, \A n \in Nat : n \in S => n + 1 \in S
    PROVE  Nat \subseteq S
<1> SUFFICES ASSUME Nat \ S # {} PROVE FALSE
  OBVIOUS
<1>1. PICK x \in Nat \ S : \A y \in Nat \ S : x <= y
  BY Least
<1>2. x # 0 /\ x - 1 \in Nat
  BY <1>1
<1>3. x - 1 \in S
  <2>1. ~(x <= x - 1)
    BY <1>1
  <2> QED BY <1>1, <1>2, <2>1
<1>4. (x - 1) + 1 = x
  BY <1>1
<1> QED BY <1>1, <1>2, <1>3, <1>4

(* A function that is defined by recursion over the numbers up to n exists:  *)
(* Gen gives each of its values from the number and the value before.        *)
Follows(f, n, Gen) == \A i \in 1 .. n : f[i] = Gen[<<i, f[i - 1]>>]

LEMMA RecursionExists ==
    ASSUME NEW n \in Nat, NEW V, NEW a \in V, NEW Gen \in [(1 .. n) \X V -> V]
    PROVE  \E f \in [0 .. n -> V] : f[0] = a /\ Follows(f, n, Gen)
<1> DEFINE Good(f, m) == f[0] = a /\ \A i \in 1 .. m : f[i] = Gen[<<i, f[i - 1]>>]
           S == {m \in Nat : m <= n => \E f \in [0 .. m -> V] : Good(f, m)}
<1>1. 0 \in S
  <2> DEFINE f == [i \in 0 .. 0 |-> a]
  <2>1. f \in [0 .. 0 -> V] /\ Good(f, 0)
    OBVIOUS
  <2> QED BY <2>1
<1>2. ASSUME NEW m \in Nat, m \in S PROVE m + 1 \in S
  <2> SUFFICES ASSUME m + 1 <= n PROVE \E f \in [0 .. m + 1 -> V] : Good(f, m + 1)
    OBVIOUS
  <2>1. PICK f \in [0 .. m -> V] : Good(f, m)
    BY <1>2
  <2> DEFINE g == [i \in 0 .. m + 1 |-> IF i = m + 1 THEN Gen[<<m + 1, f[m]>>] ELSE f[i]]
  <2>2. f[m] \in V /\ m + 1 \in 1 .. n
    BY <2>1
  <2>3. Gen[<<m + 1, f[m]>>] \in V
    BY <2>2
  <2>4. g \in [0 .. m + 1 -> V]
    <3>1. \A i \in 0 .. m + 1 : i # m + 1 => i \in 0 .. m
      OBVIOUS
    <3> QED BY <2>1, <2>3, <3>1
  <2>5. g[0] = a /\ g[m + 1] = Gen[<<m + 1, f[m]>>] /\ g[m] = f[m]
    BY <2>1
  <2>6. ASSUME NEW i \in 1 .. m + 1 PROVE g[i] = Gen[<<i, g[i - 1]>>]
    <3>1. CASE i = m + 1
      <4>1. i - 1 = m
        BY <3>1
      <4> HIDE DEF g
      <4> QED BY <2>5, <3>1, <4>1
    <3>2. CASE i # m + 1
      <4>1. i \in 1 .. m /\ i - 1 \in 0 .. m /\ i - 1 # m + 1 /\ i \in 0 .. m + 1 /\ i - 1 \in 0 .. m + 1
        BY <3>2
      <4>2. g[i] = f[i] /\ g[i - 1] = f[i - 1]
        BY <3>2, <4>1
      <4> HIDE DEF g
      <4> QED BY <2>1, <4>1, <4>2
    <3> QED BY <3>1, <3>2
  <2> HIDE DEF g
  <2> QED BY <2>4, <2>5, <2>6
<1>3. n \in S
  <2> HIDE DEF S
  <2>1. Nat \subseteq S
    BY <1>1, <1>2, Induction
  <2> QED BY <2>1
<1>4. PICK f \in [0 .. n -> V] : Good(f, n)
  BY <1>3
<1> QED BY <1>4 DEF Follows

(* The length of the paths whose ends are paired after each iteration.       *)
LengthIs(f) == f = [t \in 0 .. goptions.iterations |-> IF t = 0 THEN 1 ELSE 2 * f[t - 1]]
Length == CHOOSE f : LengthIs(f)

LEMMA LengthDoubles ==
    ASSUME goptions.iterations \in Nat
    PROVE  /\ Length[0] = 1 /\ \A t \in 0 .. goptions.iterations : Length[t] \in Nat \ {0}
           /\ \A t \in Nat : t < goptions.iterations => Length[t + 1] = 2 * Length[t]
<1> DEFINE n == goptions.iterations
           V == Nat \ {0}
           Twice == [x \in (1 .. n) \X V |-> 2 * x[2]]
<1>1. \E f : LengthIs(f)
  <2>1. n \in Nat /\ 1 \in V /\ Twice \in [(1 .. n) \X V -> V]
    BY SMT
  <2> HIDE DEF V, Twice, n
  <2>2. PICK f \in [0 .. n -> V] : f[0] = 1 /\ Follows(f, n, Twice)
    BY <2>1, RecursionExists
  <2>3. ASSUME NEW t \in 0 .. n PROVE f[t] = IF t = 0 THEN 1 ELSE 2 * f[t - 1]
    <3>1. CASE t = 0
      BY <2>2, <3>1
    <3>2. CASE t # 0
      <4>1. t \in 1 .. n /\ t - 1 \in 0 .. n
        BY <2>1, <3>2
      <4>2. <<t, f[t - 1]>> \in (1 .. n) \X V
        BY <2>2, <4>1
      <4>3. Twice[<<t, f[t - 1]>>] = 2 * f[t - 1]
        BY <4>2 DEF Twice
      <4> QED BY <2>2, <3>2, <4>1, <4>3 DEF Follows
    <3> QED BY <3>1, <3>2
  <2>4. f = [t \in 0 .. n |-> f[t]]
    BY <2>2
  <2>5. LengthIs(f)
    BY <2>3, <2>4 DEF LengthIs, n
  <2> QED BY <2>5
<1>2. LengthIs(Length)
  BY <1>1 DEF Length
<1>3. \A t \in 0 .. n : Length[t] = IF t = 0 THEN 1 ELSE 2 * Length[t - 1]
  BY <1>2 DEF LengthIs
<1>4. Length[0] = 1
  BY <1>3
<1>5. ASSUME NEW t \in Nat, t < n PROVE Length[t + 1] = 2 * Length[t]
  <2>1. t + 1 \in 0 .. n /\ t + 1 # 0 /\ t + 1 - 1 = t
    BY <1>5
  <2> QED BY <1>3, <2>1
<1> DEFINE S == {t \in Nat : t <= n => Length[t] \in Nat \ {0}}
<1>6. \A t \in Nat : t \in S => t + 1 \in S
  <2> SUFFICES ASSUME NEW t \in Nat, t \in S, t + 1 <= n PROVE Length[t + 1] \in Nat \ {0}
    OBVIOUS
  <2>1. t < n /\ t <= n
    OBVIOUS
  <2>2. Length[t] \in Nat \ {0} /\ Length[t + 1] = 2 * Length[t]
    BY <1>5, <2>1
  <2> QED BY <2>2
<1>7. Nat \subseteq S
  <2>1. 0 \in S
    BY <1>4
  <2> HIDE DEF S
  <2> QED BY <1>6, <2>1, Induction
<1>8. ASSUME NEW t \in 0 .. n PROVE Length[t] \in Nat \ {0}
  <2>1. t \in Nat /\ t <= n
    OBVIOUS
  <2> QED BY <1>7, <2>1
<1> QED BY <1>4, <1>5, <1>8

(* The ends of all paths that are no longer are paired in S. *)
EndsPaired(length, S) ==
    \A l \in 1 .. length : \A w \in [0 .. l -> G!Images] :
        G!Joined(w, l) /\ w[0] # w[l] => {w[0], w[l]} \in S

(* Two paths whose ends are paired make one, which is Open. *)
LEMMA PathsOfTwice ==
    ASSUME NEW m \in Nat \ {0}, EndsPaired(m, inliers)
    PROVE  EndsPaired(2 * m, inliers \cup G!Open)
<1> SUFFICES ASSUME NEW l \in 1 .. 2 * m, NEW w \in [0 .. l -> G!Images],
                    G!Joined(w, l), w[0] # w[l]
             PROVE  {w[0], w[l]} \in inliers \cup G!Open
  BY DEF EndsPaired
<1>1. CASE l <= m
  <2>1. l \in 1 .. m
    BY <1>1
  <2> QED BY <2>1 DEF EndsPaired
<1>2. CASE ~(l <= m)
  <2> DEFINE c == w[m]
             r == l - m
             v == [k \in 0 .. m |-> w[k]]
             u == [k \in 0 .. r |-> w[m + k]]
  <2>1. r \in 1 .. m /\ m \in 1 .. m /\ m \in 0 .. l /\ m + r = l
    BY <1>2
  <2>2. /\ v \in [0 .. m -> G!Images] /\ v[0] = w[0] /\ v[m] = c
        /\ u \in [0 .. r -> G!Images] /\ u[0] = c /\ u[r] = w[l]
    <3>1. \A k \in 0 .. m : k \in 0 .. l
      BY <2>1
    <3>2. \A k \in 0 .. r : m + k \in 0 .. l
      BY <2>1
    <3>3. v \in [0 .. m -> G!Images] /\ u \in [0 .. r -> G!Images]
      BY <3>1, <3>2
    <3>4. 0 \in 0 .. m /\ m \in 0 .. m /\ 0 \in 0 .. r /\ r \in 0 .. r /\ m + 0 = m
      BY <2>1
    <3> QED BY <2>1, <3>3, <3>4
  <2>3. G!Joined(v, m)
    <3>1. ASSUME NEW k \in 1 .. m PROVE {v[k - 1], v[k]} \in goptions.matched
      <4>1. k \in 1 .. l /\ k - 1 \in 0 .. m /\ k \in 0 .. m
        BY <2>1
      <4>2. {w[k - 1], w[k]} \in goptions.matched
        BY <4>1 DEF G!Joined
      <4> QED BY <4>1, <4>2
    <3> QED BY <3>1 DEF G!Joined
  <2>4. G!Joined(u, r)
    <3>1. ASSUME NEW k \in 1 .. r PROVE {u[k - 1], u[k]} \in goptions.matched
      <4>1. m + k \in 1 .. l /\ k - 1 \in 0 .. r /\ k \in 0 .. r /\ (m + k) - 1 = m + (k - 1)
        BY <2>1
      <4>2. {w[(m + k) - 1], w[m + k]} \in goptions.matched
        BY <4>1 DEF G!Joined
      <4> QED BY <4>1, <4>2
    <3> QED BY <3>1 DEF G!Joined
  <2> HIDE DEF u, v
  <2>5. w[0] # c => {w[0], c} \in inliers
    BY <2>1, <2>2, <2>3 DEF EndsPaired
  <2>6. c # w[l] => {c, w[l]} \in inliers
    BY <2>1, <2>2, <2>4 DEF EndsPaired
  <2>7. w[0] \in G!Images /\ c \in G!Images /\ w[l] \in G!Images
    BY <2>1
  <2>8. CASE w[0] # c /\ c # w[l]
    <3> DEFINE t == <<w[0], c, w[l]>>
    <3>1. /\ t \in G!Images \X G!Images \X G!Images
          /\ t[1] # t[3] /\ {t[1], t[2]} \in inliers /\ {t[2], t[3]} \in inliers
      BY <2>5, <2>6, <2>7, <2>8
    <3>2. {t[1], t[3]} \in G!Open
      <4> HIDE DEF t
      <4> QED BY <3>1 DEF G!Open
    <3> QED BY <3>2
  <2>9. CASE w[0] = c
    <3>1. {c, w[l]} \in inliers
      BY <2>6, <2>9
    <3> QED BY <2>9, <3>1
  <2>10. CASE c = w[l]
    <3>1. {w[0], c} \in inliers
      BY <2>5, <2>10
    <3> QED BY <2>10, <3>1
  <2> QED BY <2>8, <2>9, <2>10
<1> QED BY <1>1, <1>2

(* Before an iteration has ended, the pairs it still has count as well.      *)
ClosureInv ==
    goptions \in PairOptions /\
    (goptions.kind = "transitive" =>
        /\ iteration \in Nat /\ iteration <= goptions.iterations
        /\ goptions.unmatchable = {} =>
              /\ tried \subseteq inliers \cup pending
              /\ EndsPaired(Length[iteration], inliers \cup pending))

LEMMA MatchedPairsJoined ==
    ASSUME NEW S, goptions.matched \subseteq S PROVE EndsPaired(1, S)
<1> SUFFICES ASSUME NEW l \in 1 .. 1, NEW w \in [0 .. l -> G!Images], G!Joined(w, l)
             PROVE  {w[0], w[l]} \in S
  BY DEF EndsPaired
<1>1. l = 1 /\ l - 1 = 0 /\ l \in 1 .. l
  OBVIOUS
<1>2. {w[l - 1], w[l]} \in goptions.matched
  BY <1>1 DEF G!Joined
<1> QED BY <1>1, <1>2

LEMMA ClosureStart == G!OptionsAssumption /\ G!Init => ClosureInv
<1> SUFFICES ASSUME G!OptionsAssumption, G!Init PROVE ClosureInv
  OBVIOUS
<1>1. /\ goptions \in PairOptions /\ pending = {} /\ tried = {} /\ iteration = 0
      /\ goptions.kind = "transitive" => inliers = goptions.matched
  BY DEF G!Init
<1>2. ASSUME goptions.kind = "transitive" PROVE EndsPaired(Length[iteration], inliers \cup pending)
  <2>1. Length[iteration] = 1
    BY <1>1, <1>2, ListedOption, LengthDoubles
  <2> QED BY <1>1, <1>2, <2>1, MatchedPairsJoined
<1>3. goptions.kind = "transitive" => iteration <= goptions.iterations
  BY <1>1, ListedOption
<1> QED BY <1>1, <1>2, <1>3 DEF ClosureInv

LEMMA ClosureKeeps ==
    ASSUME G!OptionsAssumption, PairsInv, ClosureInv, [G!Next]_(G!vars) PROVE ClosureInv'
<1>1. goptions' = goptions /\ goptions \in PairOptions
  BY DEF G!Next, G!NextExhaustive, G!NextSequential, G!NextSpatial, G!StartIteration,
         G!NextTransitive, G!NextImported, G!Reset, G!vars, ClosureInv
<1> SUFFICES ASSUME goptions.kind = "transitive"
             PROVE  /\ iteration' \in Nat /\ iteration' <= goptions.iterations
                    /\ goptions.unmatchable = {} =>
                          /\ tried' \subseteq inliers' \cup pending'
                          /\ EndsPaired(Length[iteration'], inliers' \cup pending')
  <2>1. Length' = Length
    BY <1>1 DEF Length, LengthIs
  <2>2. \A n, S : EndsPaired(n, S)' <=> EndsPaired(n, S)
    BY <1>1 DEF EndsPaired, G!Images, G!Joined
  <2>3. EndsPaired(Length[iteration], inliers \cup pending)'
        <=> EndsPaired(Length[iteration'], inliers' \cup pending')
    BY <1>1, <2>1 DEF EndsPaired, G!Images, G!Joined
  <2> QED BY <1>1, <2>3 DEF ClosureInv
<1>2. /\ goptions.iterations \in Nat \ {0} /\ goptions.matched \subseteq inliers
      /\ iteration \in Nat /\ iteration <= goptions.iterations
      /\ goptions.unmatchable = {} =>
            /\ tried \subseteq inliers \cup pending
            /\ EndsPaired(Length[iteration], inliers \cup pending)
  BY <1>1, ListedOption DEF ClosureInv, PairsInv, ReturnedSoFar
<1>3. CASE G!StartIteration
  <2>1. /\ ~G!HasFinished /\ pending = {} /\ iteration' = iteration + 1 /\ inliers' = inliers
        /\ pending' = G!Open \ (tried \cup inliers) /\ tried' = (tried \cup inliers) \cup pending'
    BY <1>3 DEF G!StartIteration
  <2>2. iteration < goptions.iterations
    <3>1. ~(iteration >= goptions.iterations)
      BY <2>1 DEF G!HasFinished, G!Closed
    <3> QED BY <1>2, <3>1
  <2>3. ASSUME goptions.unmatchable = {}
        PROVE  EndsPaired(Length[iteration'], inliers' \cup pending')
    <3>1. Length[iteration'] = 2 * Length[iteration] /\ Length[iteration] \in Nat \ {0}
      <4>1. iteration \in 0 .. goptions.iterations
        BY <1>2, <2>2
      <4> QED BY <1>2, <2>1, <2>2, <4>1, LengthDoubles
    <3>2. inliers \cup pending = inliers /\ inliers' \cup pending' = inliers \cup G!Open
      BY <1>2, <2>1, <2>3
    <3>3. EndsPaired(Length[iteration], inliers)
      BY <1>2, <2>3, <3>2
    <3>4. EndsPaired(2 * Length[iteration], inliers \cup G!Open)
      BY <3>1, <3>3, PathsOfTwice
    <3> QED BY <3>1, <3>2, <3>4
  <2>4. goptions.unmatchable = {} => tried' \subseteq inliers' \cup pending'
    BY <1>2, <2>1
  <2> QED BY <1>2, <2>1, <2>2, <2>3, <2>4
<1>4. CASE G!NextTransitive
  <2>1. PICK chosen \in G!kSubset(G!Min({goptions.size, G!Cardinality(pending)}), pending) :
            pending' = pending \ chosen /\ inliers' = inliers \cup (chosen \ goptions.unmatchable)
    BY <1>4 DEF G!NextTransitive
  <2>2. chosen \subseteq pending
    BY DEF G!kSubset
  <2>3. iteration' = iteration /\ tried' = tried
    BY <1>4 DEF G!NextTransitive
  <2>4. goptions.unmatchable = {} => inliers' \cup pending' = inliers \cup pending
    BY <2>1, <2>2
  <2> QED BY <1>2, <2>3, <2>4
<1>5. CASE G!Reset
  <2>1. iteration' = 0 /\ tried' = {} /\ pending' = {} /\ inliers' = inliers
    BY <1>5 DEF G!Reset
  <2>2. Length[iteration'] = 1
    BY <1>2, <2>1, LengthDoubles
  <2>3. goptions.matched \subseteq inliers' \cup pending'
    BY <1>2, <2>1
  <2>4. EndsPaired(1, inliers' \cup pending')
    BY <2>3, MatchedPairsJoined
  <2> QED BY <1>2, <2>1, <2>2, <2>4
<1>6. CASE G!NextExhaustive \/ G!NextSequential \/ G!NextSpatial \/ G!NextImported \/ UNCHANGED G!vars
  <2>1. UNCHANGED <<iteration, tried, inliers, pending>>
    BY <1>6 DEF G!NextExhaustive, G!NextSequential, G!NextSpatial, G!NextImported, G!vars
  <2> QED BY <1>2, <2>1
<1> QED BY <1>3, <1>4, <1>5, <1>6 DEF G!Next

LEMMA AllClosed == G!OptionsAssumption /\ ClosureInv => G!ClosedUnder
<1> SUFFICES ASSUME G!OptionsAssumption, ClosureInv, goptions.kind = "transitive", G!HasFinished,
                    goptions.unmatchable = {}
             PROVE  EndsPaired(G!Closes, inliers)
  BY DEF G!ClosedUnder, EndsPaired
<1>1. /\ iteration >= goptions.iterations /\ pending = {}
  BY DEF G!HasFinished, G!Closed
<1>2. goptions.iterations \in Nat /\ iteration \in Nat /\ iteration <= goptions.iterations
      /\ EndsPaired(Length[iteration], inliers \cup pending)
  BY ListedOption DEF ClosureInv
<1>3. iteration = goptions.iterations
  BY <1>1, <1>2
<1>4. G!Closes = Length[goptions.iterations]
  BY DEF G!Closes, Length, LengthIs
<1>5. inliers \cup pending = inliers
  BY <1>1
<1> QED BY <1>2, <1>3, <1>4, <1>5

(* No image is paired with itself.                                           *)
LEMMA NotWithItself ==
    ASSUME G!OptionsAssumption, PairsInv, goptions.kind # "imported", NEW i \in G!Images
    PROVE  out[<<i, i>>] = 0
<1>1. goptions \in PairOptions /\ out[<<i, i>>] \in Nat /\ i \in Nat
  BY ListedOption DEF PairsInv
<1>2. CASE goptions.kind = "exhaustive"
  <2>1. ~G!Chosen(i, i)
    BY <1>1 DEF G!Chosen
  <2> QED BY <1>2, <2>1 DEF PairsInv, ReturnedSoFar
<1>3. CASE goptions.kind = "sequential"
  <2>1. out[<<i, i>>] = IF i < idx THEN InBatch(i, i) ELSE 0
    BY <1>3 DEF PairsInv, ReturnedSoFar
  <2>2. G!Expansion(i, i) \cap {i} = {}
    BY DEF G!Expansion
  <2>3. ASSUME NEW k \in G!Neighbours(i) PROVE i \notin {k} \cup G!Expansion(i, k)
    <3>1. PICK d \in G!Offsets : k = i + d
      BY DEF G!Neighbours
    <3>2. d \in Nat \ {0}
      BY <1>1, ListedOption DEF G!Offsets
    <3>3. k # i
      BY <1>1, <3>1, <3>2
    <3> QED BY <3>3 DEF G!Expansion
  <2>4. {k \in G!Neighbours(i) : i \in {k} \cup G!Expansion(i, k)} = {}
    BY <2>3
  <2>5. InBatch(i, i) = Cardinality({}) + Cardinality({})
    BY <2>2, <2>4 DEF InBatch
  <2>6. Cardinality({}) = 0
    BY FS_EmptySet
  <2> QED BY <2>1, <2>5, <2>6
<1>4. CASE goptions.kind = "spatial"
  <2>1. \A row : i \notin Near(i, row)
    BY DEF Near, Taken
  <2>2. /\ i < idx => \E row \in G!Rows(i) : out[<<i, i>>] = IF i \in Near(i, row) THEN 1 ELSE 0
        /\ ~(i < idx) => out[<<i, i>>] = 0
    BY <1>4 DEF PairsInv, ReturnedSoFar
  <2> QED BY <2>1, <2>2
<1>5. CASE goptions.kind = "transitive"
  <2>1. out[<<i, i>>] > 0 => i < i
    BY <1>5 DEF PairsInv, ReturnedSoFar
  <2> QED BY <1>1, <2>1
<1> QED BY <1>1, <1>2, <1>3, <1>4, <1>5, ListedOption

PairTypesInv ==
    /\ iteration \in Nat /\ gresets \in 0 .. GResets
    /\ pending \subseteq tried /\ tried \subseteq SUBSET G!Images /\ inliers \subseteq SUBSET G!Images

LEMMA PairTypesKeep ==
    ASSUME G!OptionsAssumption, PairsInv, PairTypesInv, [G!Next]_(G!vars) PROVE PairTypesInv'
<1>1. G!Images' = G!Images
  <2>1. goptions' = goptions
    BY DEF G!Next, G!NextExhaustive, G!NextSequential, G!NextSpatial, G!StartIteration,
           G!NextTransitive, G!NextImported, G!Reset, G!vars
  <2> QED BY <2>1 DEF G!Images
<1>2. CASE G!StartIteration
  <2>1. /\ iteration' = iteration + 1 /\ inliers' = inliers /\ gresets' = gresets
        /\ pending' = G!Open \ (tried \cup inliers) /\ tried' = (tried \cup inliers) \cup pending'
    BY <1>2 DEF G!StartIteration
  <2>2. G!Open \subseteq SUBSET G!Images
    BY DEF G!Open
  <2> QED BY <1>1, <2>1, <2>2 DEF PairTypesInv
<1>3. CASE G!NextTransitive
  <2>1. PICK chosen \in G!kSubset(G!Min({goptions.size, G!Cardinality(pending)}), pending) :
            pending' = pending \ chosen /\ inliers' = inliers \cup (chosen \ goptions.unmatchable)
    BY <1>3 DEF G!NextTransitive
  <2>2. chosen \subseteq pending
    BY DEF G!kSubset
  <2>3. iteration' = iteration /\ tried' = tried /\ gresets' = gresets
    BY <1>3 DEF G!NextTransitive
  <2> QED BY <1>1, <2>1, <2>2, <2>3 DEF PairTypesInv
<1>4. CASE G!Reset
  <2>1. iteration' = 0 /\ tried' = {} /\ pending' = {} /\ inliers' = inliers
        /\ gresets < GResets /\ gresets' = gresets + 1
    BY <1>4 DEF G!Reset
  <2>2. GResets \in Nat
    BY DEF G!OptionsAssumption
  <2> QED BY <1>1, <2>1, <2>2 DEF PairTypesInv
<1>5. CASE G!NextExhaustive \/ G!NextSequential \/ G!NextSpatial \/ G!NextImported \/ UNCHANGED G!vars
  <2>1. UNCHANGED <<iteration, tried, inliers, pending, gresets>>
    BY <1>5 DEF G!NextExhaustive, G!NextSequential, G!NextSpatial, G!NextImported, G!vars
  <2> QED BY <1>1, <2>1 DEF PairTypesInv
<1> QED BY <1>2, <1>3, <1>4, <1>5 DEF G!Next

(* The type invariant of the generators (pairing.cc).                        *)
THEOREM PairsTypeCorrect == G!OptionsAssumption /\ G!Spec => []G!TypeOK
<1> SUFFICES ASSUME G!OptionsAssumption PROVE G!Spec => []G!TypeOK
  OBVIOUS
<1>1. G!Spec => []PairsInv
  BY PairsInvariant
<1>2. G!Init => PairTypesInv
  <2> SUFFICES ASSUME G!Init PROVE PairTypesInv
    OBVIOUS
  <2>1. /\ goptions \in PairOptions /\ iteration = 0 /\ gresets = 0 /\ pending = {} /\ tried = {}
        /\ inliers = IF goptions.kind = "transitive" THEN goptions.matched ELSE {}
    BY DEF G!Init
  <2>2. GResets \in Nat
    BY DEF G!OptionsAssumption
  <2>3. inliers \subseteq SUBSET G!Images
    BY <2>1, ListedOption
  <2> QED BY <2>1, <2>2, <2>3 DEF PairTypesInv
<1>3. PairsInv /\ PairTypesInv /\ [G!Next]_(G!vars) => PairTypesInv'
  BY PairTypesKeep
<1>4. PairsInv /\ PairTypesInv => G!TypeOK
  <2> SUFFICES ASSUME PairsInv, PairTypesInv PROVE G!TypeOK
    OBVIOUS
  <2>1. goptions.kind # "imported" => \A i \in G!Images : out[<<i, i>>] = 0
    BY NotWithItself
  <2> QED BY <2>1 DEF PairsInv, PairTypesInv, G!TypeOK
<1> QED BY <1>1, <1>2, <1>3, <1>4, PTL DEF G!Spec

(* Every pair of images is returned once by the exhaustive generator, the    *)
(* images of neighbouring frames by the sequential one, no fewer than the    *)
(* least number of neighbours and none that is neither near nor among them by *)
(* the spatial one, every entry by the imported one; the transitive one      *)
(* returns nothing twice, and pairs the ends of paths that are twice as long *)
(* after every iteration: for any number of images, any positions and any    *)
(* pairs that matched, in blocks of any size (pairing.cc).                   *)
THEOREM AllPairsReturned == G!OptionsAssumption /\ G!Spec => []G!PairsComplete
<1> SUFFICES ASSUME G!OptionsAssumption PROVE G!Spec => []G!PairsComplete
  OBVIOUS
<1>1. G!Spec => []PairsInv
  BY PairsInvariant
<1>2. G!Init => ClosureInv
  BY ClosureStart
<1>3. PairsInv /\ ClosureInv /\ [G!Next]_(G!vars) => ClosureInv'
  BY ClosureKeeps
<1>4. PairsInv /\ ClosureInv => G!PairsComplete
  BY AllPairsOnce, AllFramesPaired, AllNearPaired, NoneReturnedAgain, AllClosed, AllListed
     DEF G!PairsComplete
<1> QED BY <1>1, <1>2, <1>3, <1>4, PTL DEF G!Spec

-----------------------------------------------------------------------------
(* The generator of the vocabulary tree's pairs. *)
Querying == {w \in Retrievers : taken[w] # 0}
QueriesOut == Len(waiting) + Len(retrieved) + Cardinality(Querying)
FirstBatch == 2 * Q!NumThreads + 1

(* The queries that wait are the last ones submitted, in order; those that     *)
(* are under way or answered are different from one another, and all earlier.  *)
(* As many are under way as are not answered, and as many answered as counted. *)
QueryPlaces ==
    /\ \A i \in 1 .. Len(waiting) : waiting[i] = (query - Len(waiting)) + i
    /\ \A w \in Querying : taken[w] <= query - Len(waiting)
    /\ \A w, x \in Querying : taken[w] = taken[x] => w = x
    /\ \A i \in 1 .. Len(retrieved) :
          /\ retrieved[i] <= query - Len(waiting)
          /\ retrieved[i] \notin answers /\ \A w \in Querying : taken[w] # retrieved[i]
    /\ \A i, j \in 1 .. Len(retrieved) : retrieved[i] = retrieved[j] => i = j
    /\ \A a \in answers : a <= query - Len(waiting)
    /\ \A w \in Querying : taken[w] \notin answers
    /\ Cardinality(answers) = result
    /\ open => QueriesOut = query - result
    /\ Q!HasFinished => QueriesOut = 0 /\ ~failed

(* Reset() forgets what is under way, a batch and a query at most each time.  *)
QueryBound ==
    /\ query - result \in 0 .. FirstBatch
    /\ query = 0 => result = 0
    /\ qat = "idle" => query - result < FirstBatch
    /\ qat = "pop" => query > result
    /\ QueriesOut <= qresets * FirstBatch + (query - result)

VocabularyInv ==
    /\ Q!TypeOK /\ QueryBound
    /\ open <=> qat \in {"idle", "pop", "stop queue"}
    /\ open => ~failed
    /\ ~stale => QueryPlaces

LEMMA VocabularyCardinality == \A S : Q!Cardinality(S) = Cardinality(S)
BY DEF Q!Cardinality, Cardinality

LEMMA RetrieversCounted ==
    ASSUME Q!QueriesAssumption
    PROVE  /\ IsFiniteSet(Retrievers) /\ Retrievers # {}
           /\ Q!NumThreads = Cardinality(Retrievers) /\ Q!NumThreads \in Nat \ {0}
           /\ FirstBatch \in Nat /\ FirstBatch >= 3
           /\ IsFiniteSet(Querying) /\ Cardinality(Querying) \in Nat
<1>1. IsFiniteSet(Retrievers) /\ Retrievers # {}
  BY DEF Q!QueriesAssumption, Q!IsFiniteSet, IsFiniteSet
<1>2. Q!NumThreads = Cardinality(Retrievers)
  BY VocabularyCardinality DEF Q!NumThreads
<1>3. Cardinality(Retrievers) \in Nat \ {0}
  BY <1>1, FS_CardinalityType, FS_EmptySet
<1>4. Querying \subseteq Retrievers
  BY DEF Querying
<1>5. IsFiniteSet(Querying) /\ Cardinality(Querying) \in Nat
  BY <1>1, <1>4, FS_Subset, FS_CardinalityType
<1> QED BY <1>1, <1>2, <1>3, <1>5 DEF FirstBatch

(* SetToSeq of no or one element. *)
LEMMA OneInASequence ==
    /\ Q!SetToSeq({}) = <<>>
    /\ \A x : Q!SetToSeq({x}) = <<x>>
<1>1. Q!SetToSeq({}) = <<>>
  <2>1. Q!Cardinality({}) = 0
    BY VocabularyCardinality, FS_EmptySet
  <2> DEFINE f == [i \in 1 .. 0 |-> i]
  <2>2. f \in [1 .. 0 -> {}] /\ Q!IsInjective(f)
    BY DEF Q!IsInjective
  <2>3. Q!SetToSeq({}) \in [1 .. 0 -> {}]
    BY <2>1, <2>2 DEF Q!SetToSeq
  <2> QED BY <2>3
<1>2. ASSUME NEW x PROVE Q!SetToSeq({x}) = <<x>>
  <2>1. Q!Cardinality({x}) = 1
    BY VocabularyCardinality, FS_Singleton
  <2> DEFINE f == [i \in 1 .. 1 |-> x]
  <2>2. f \in [1 .. 1 -> {x}] /\ Q!IsInjective(f)
    BY DEF Q!IsInjective
  <2>3. Q!SetToSeq({x}) \in [1 .. 1 -> {x}]
    BY <2>1, <2>2 DEF Q!SetToSeq
  <2> QED BY <2>3
<1> QED BY <1>1, <1>2

(* Submit, to the first query that is not submitted. *)
LEMMA SubmitEffect ==
    ASSUME Q!QueriesAssumption, Q!TypeOK, Q!Submit
    PROVE  /\ query' \in query .. NumQueries
           /\ waiting' \in Seq(Q!Queries) /\ Len(waiting') = Len(waiting) + (query' - query)
           /\ \A i \in 1 .. Len(waiting) : waiting'[i] = waiting[i]
           /\ \A i \in Len(waiting) + 1 .. Len(waiting') : waiting'[i] = query + (i - Len(waiting))
           /\ query = 0 => query' <= FirstBatch /\ query' > 0
           /\ query # 0 => query' = IF query < NumQueries THEN query + 1 ELSE query
<1> DEFINE first == IF query = 0 THEN Q!FirstQueries ELSE query
           more == Q!OneMore(first)
           s == [k \in 1 .. first - query |-> query + k]
           t == Q!SetToSeq(more)
<1>1. /\ query \in 0 .. NumQueries /\ result \in 0 .. NumQueries /\ NumQueries \in Nat
      /\ waiting \in Seq(Q!Queries) /\ Len(waiting) \in Nat /\ Q!NumThreads \in Nat \ {0}
  BY RetrieversCounted, LenProperties DEF Q!QueriesAssumption, Q!TypeOK
<1>2. NumQueries > 0
  BY <1>1 DEF Q!Submit, Q!HasFinished
<1>3. /\ first \in query .. NumQueries /\ first > 0
      /\ query = 0 => first <= 2 * Q!NumThreads
  BY <1>1, <1>2 DEF Q!FirstQueries
<1> HIDE DEF first
<1>4. /\ waiting' = (waiting \o s) \o t
      /\ query' = IF more = {} THEN first ELSE CHOOSE q \in more : TRUE
  BY DEF Q!Submit, first
<1>5. s \in Seq(Q!Queries) /\ Len(s) = first - query /\ \A i \in 1 .. Len(s) : s[i] = query + i
  BY <1>1, <1>3 DEF Q!Queries
<1>6. /\ t \in Seq(Q!Queries) /\ query' = first + Len(t) /\ Len(t) \in {0, 1}
      /\ Len(t) = IF first < NumQueries THEN 1 ELSE 0
      /\ \A i \in 1 .. Len(t) : t[i] = first + i
  <2>1. CASE first < NumQueries
    <3>1. more = {first + 1}
      BY <2>1 DEF Q!OneMore
    <3>2. t = <<first + 1>> /\ query' = first + 1
      BY <1>4, <3>1, OneInASequence
    <3> HIDE DEF t
    <3> QED BY <1>1, <1>3, <2>1, <3>2 DEF Q!Queries
  <2>2. CASE ~(first < NumQueries)
    <3>1. more = {}
      BY <2>2 DEF Q!OneMore
    <3>2. t = <<>> /\ query' = first
      BY <1>4, <3>1, OneInASequence
    <3> HIDE DEF t
    <3> QED BY <1>1, <1>3, <2>2, <3>2
  <2> QED BY <2>1, <2>2
<1> HIDE DEF s, t, more
<1> DEFINE u == waiting \o s
<1>7. /\ u \in Seq(Q!Queries) /\ Len(u) = Len(waiting) + Len(s)
      /\ \A i \in 1 .. Len(waiting) : u[i] = waiting[i]
      /\ \A i \in 1 .. Len(s) : u[Len(waiting) + i] = s[i]
  <2>1. Len(s) \in Nat
    BY <1>5, LenProperties
  <2>2. u \in Seq(Q!Queries) /\ Len(u) = Len(waiting) + Len(s)
    BY <1>1, <1>5, ConcatProperties
  <2>3. ASSUME NEW i \in 1 .. Len(waiting) PROVE u[i] = waiting[i]
    BY <1>1, <1>5, <2>1, ConcatProperties
  <2>4. ASSUME NEW i \in 1 .. Len(s) PROVE u[Len(waiting) + i] = s[i]
    BY <1>1, <1>5, <2>1, ConcatProperties
  <2> QED BY <2>2, <2>3, <2>4
<1>8. waiting' = u \o t
  BY <1>4
<1> HIDE DEF u
<1>9. /\ waiting' \in Seq(Q!Queries) /\ Len(waiting') = Len(u) + Len(t)
      /\ \A i \in 1 .. Len(u) : waiting'[i] = u[i]
      /\ \A i \in 1 .. Len(t) : waiting'[Len(u) + i] = t[i]
  <2>1. Len(t) \in Nat /\ Len(u) \in Nat
    BY <1>6, <1>7, LenProperties
  <2>2. waiting' \in Seq(Q!Queries) /\ Len(waiting') = Len(u) + Len(t)
    BY <1>6, <1>7, <1>8, ConcatProperties
  <2>3. ASSUME NEW i \in 1 .. Len(u) PROVE waiting'[i] = u[i]
    BY <1>6, <1>7, <1>8, <2>1, ConcatProperties
  <2>4. ASSUME NEW i \in 1 .. Len(t) PROVE waiting'[Len(u) + i] = t[i]
    BY <1>6, <1>7, <1>8, <2>1, ConcatProperties
  <2> QED BY <2>2, <2>3, <2>4
<1>10. /\ Len(s) \in Nat /\ Len(u) \in Nat /\ Len(t) \in Nat /\ Len(s) = first - query
       /\ Len(u) = Len(waiting) + Len(s) /\ query \in Nat /\ first \in Nat
  BY <1>1, <1>3, <1>5, <1>6, <1>7
<1>11. Len(waiting') = Len(waiting) + (query' - query) /\ query' \in query .. NumQueries
  <2> DEFINE n == Len(t)
  <2>1. /\ n \in Nat /\ query' = first + n /\ Len(waiting') = Len(u) + n
        /\ n = IF first < NumQueries THEN 1 ELSE 0
    BY <1>6, <1>9, <1>10
  <2> HIDE DEF n
  <2>2. Len(waiting') = Len(waiting) + (query' - query)
    BY <1>1, <1>10, <2>1
  <2>3. query' \in query .. NumQueries
    BY <1>1, <1>3, <1>10, <2>1
  <2> QED BY <2>2, <2>3
<1>12. ASSUME NEW i \in 1 .. Len(waiting) PROVE waiting'[i] = waiting[i]
  <2>1. i \in 1 .. Len(u)
    BY <1>1, <1>10
  <2> QED BY <1>7, <1>9, <2>1
<1>15. ASSUME NEW i \in Len(waiting) + 1 .. Len(waiting')
       PROVE  waiting'[i] = query + (i - Len(waiting))
  <2>1. CASE i <= Len(u)
    <3> DEFINE k == i - Len(waiting)
    <3>1. i \in 1 .. Len(u) /\ k \in 1 .. Len(s) /\ i = Len(waiting) + k
      BY <1>1, <1>10, <2>1
    <3>2. waiting'[i] = u[i]
      BY <1>9, <3>1
    <3>3. u[Len(waiting) + k] = s[k] /\ s[k] = query + k
      BY <1>5, <1>7, <3>1
    <3> QED BY <3>1, <3>2, <3>3
  <2>2. CASE i > Len(u)
    <3> DEFINE k == i - Len(u)
    <3>1. k \in 1 .. Len(t) /\ i = Len(u) + k /\ first + k = query + (i - Len(waiting))
      BY <1>1, <1>9, <1>10, <2>2
    <3>2. waiting'[Len(u) + k] = t[k] /\ t[k] = first + k
      BY <1>6, <1>9, <3>1
    <3> QED BY <3>1, <3>2
  <2> QED BY <1>1, <1>10, <2>1, <2>2
<1>13. query = 0 => query' <= FirstBatch /\ query' > 0
  BY <1>1, <1>3, <1>6 DEF FirstBatch
<1>14. query # 0 => query' = IF query < NumQueries THEN query + 1 ELSE query
  BY <1>1, <1>6 DEF first
<1> QED BY <1>9, <1>11, <1>12, <1>13, <1>14, <1>15

(* A thread takes a query or ends one. *)
LEMMA OneMoreHeld ==
    ASSUME Q!QueriesAssumption, Q!TypeOK, NEW w \in Retrievers, NEW q \in Q!Queries,
           taken[w] = 0, taken' = [taken EXCEPT ![w] = q]
    PROVE  /\ Querying' = Querying \cup {w} /\ w \notin Querying
           /\ Cardinality(Querying') = Cardinality(Querying) + 1 /\ Cardinality(Querying) \in Nat
<1>1. q # 0 /\ taken \in [Retrievers -> Q!Queries \cup {0}]
  <2>1. NumQueries \in Nat
    BY DEF Q!QueriesAssumption
  <2>2. q # 0
    BY <2>1 DEF Q!Queries
  <2> QED BY <2>2 DEF Q!TypeOK
<1>2. Querying' = Querying \cup {w} /\ w \notin Querying
  BY <1>1 DEF Querying
<1> QED BY <1>2, RetrieversCounted, FS_AddElement

LEMMA OneLessHeld ==
    ASSUME Q!QueriesAssumption, Q!TypeOK, NEW w \in Retrievers,
           taken[w] # 0, taken' = [taken EXCEPT ![w] = 0]
    PROVE  /\ Querying' = Querying \ {w} /\ w \in Querying
           /\ Cardinality(Querying') = Cardinality(Querying) - 1 /\ Cardinality(Querying) \in Nat
<1>1. taken \in [Retrievers -> Q!Queries \cup {0}]
  BY DEF Q!TypeOK
<1>2. Querying' = Querying \ {w} /\ w \in Querying
  BY <1>1 DEF Querying
<1> QED BY <1>2, RetrieversCounted, FS_RemoveElement

(* The head and the tail of a queue. *)
LEMMA HeadAndTail ==
    ASSUME NEW s \in Seq(Q!Queries), s # <<>>
    PROVE  /\ Head(s) = s[1] /\ Head(s) \in Q!Queries /\ Tail(s) \in Seq(Q!Queries)
           /\ Len(s) \in Nat \ {0} /\ Len(Tail(s)) = Len(s) - 1
           /\ \A i \in 1 .. Len(Tail(s)) : Tail(s)[i] = s[i + 1]
<1>1. Head(s) \in Q!Queries /\ Tail(s) \in Seq(Q!Queries) /\ Len(Tail(s)) = Len(s) - 1
      /\ \A i \in 1 .. Len(Tail(s)) : Tail(s)[i] = s[i + 1]
  BY HeadTailProperties
<1>2. Head(s) = s[1] /\ Len(s) \in Nat \ {0}
  BY EmptySeq, LenProperties
<1> QED BY <1>1, <1>2

LEMMA LastOfQueue ==
    ASSUME NEW s \in Seq(Q!Queries), NEW q \in Q!Queries
    PROVE  /\ s \o <<q>> \in Seq(Q!Queries) /\ Len(s \o <<q>>) = Len(s) + 1 /\ Len(s) \in Nat
           /\ \A i \in 1 .. Len(s) : (s \o <<q>>)[i] = s[i]
           /\ (s \o <<q>>)[Len(s) + 1] = q
<1> DEFINE t == <<q>>
<1>1. t \in Seq(Q!Queries) /\ Len(t) = 1 /\ t[1] = q /\ Len(s) \in Nat
  BY LenProperties
<1> HIDE DEF t
<1>2. s \o t \in Seq(Q!Queries) /\ Len(s \o t) = Len(s) + 1
  <2>1. s \o t \in Seq(Q!Queries) /\ Len(s \o t) = Len(s) + Len(t)
    BY <1>1, ConcatProperties
  <2> QED BY <1>1, <2>1
<1>3. ASSUME NEW i \in 1 .. Len(s) PROVE (s \o t)[i] = s[i]
  BY <1>1, ConcatProperties
<1>4. (s \o t)[Len(s) + 1] = t[1]
  <2>1. 1 \in 1 .. Len(t)
    BY <1>1
  <2> QED BY <1>1, <2>1, ConcatProperties
<1> QED BY <1>1, <1>2, <1>3, <1>4 DEF t

(* What the generator counts. *)
LEMMA CountsAre ==
    ASSUME Q!QueriesAssumption, Q!TypeOK
    PROVE  /\ query \in Nat /\ result \in Nat /\ NumQueries \in Nat /\ QResets \in Nat
           /\ query <= NumQueries /\ result <= NumQueries /\ qresets \in Nat /\ qresets <= QResets
           /\ waiting \in Seq(Q!Queries) /\ retrieved \in Seq(Q!Queries)
           /\ Len(waiting) \in Nat /\ Len(retrieved) \in Nat /\ Cardinality(Querying) \in Nat
           /\ QueriesOut \in Nat /\ Len(waiting) <= QueriesOut
           /\ FirstBatch \in Nat /\ FirstBatch >= 3 /\ qresets * FirstBatch \in Nat
           /\ taken \in [Retrievers -> Q!Queries \cup {0}]
           /\ Q!Queries = 1 .. NumQueries
           /\ answers \subseteq Q!Queries /\ IsFiniteSet(answers) /\ Cardinality(answers) \in Nat
<1>1. /\ query \in Nat /\ result \in Nat /\ NumQueries \in Nat /\ QResets \in Nat
      /\ query <= NumQueries /\ result <= NumQueries /\ qresets \in Nat /\ qresets <= QResets
      /\ waiting \in Seq(Q!Queries) /\ retrieved \in Seq(Q!Queries)
      /\ taken \in [Retrievers -> Q!Queries \cup {0}] /\ answers \subseteq Q!Queries
  <2>1. NumQueries \in Nat /\ QResets \in Nat
    BY DEF Q!QueriesAssumption
  <2>2. /\ waiting \in Seq(Q!Queries) /\ retrieved \in Seq(Q!Queries)
        /\ taken \in [Retrievers -> Q!Queries \cup {0}] /\ answers \subseteq Q!Queries
        /\ query \in 0 .. NumQueries /\ result \in 0 .. NumQueries /\ qresets \in 0 .. QResets
    BY DEF Q!TypeOK
  <2> QED BY <2>1, <2>2
<1>2. Len(waiting) \in Nat /\ Len(retrieved) \in Nat
  BY <1>1, LenProperties
<1>3. Cardinality(Querying) \in Nat /\ FirstBatch \in Nat /\ FirstBatch >= 3
  BY RetrieversCounted
<1>4. QueriesOut \in Nat /\ Len(waiting) <= QueriesOut
  BY <1>2, <1>3 DEF QueriesOut
<1>5. qresets * FirstBatch \in Nat
  BY <1>1, <1>3
<1>6. IsFiniteSet(answers) /\ Cardinality(answers) \in Nat
  <2>1. IsFiniteSet(1 .. NumQueries)
    BY <1>1, FS_Interval
  <2>2. IsFiniteSet(answers)
    BY <1>1, <2>1, FS_Subset DEF Q!Queries
  <2> QED BY <2>2, FS_CardinalityType
<1> QED BY <1>1, <1>2, <1>3, <1>4, <1>5, <1>6 DEF Q!Queries

(* The bound that the type invariant gives to the queries that wait. *)
LEMMA WaitingBounded ==
    ASSUME Q!QueriesAssumption, NEW n \in Nat, NEW u \in Nat, n <= u,
           NEW r \in 0 .. QResets, NEW d \in 0 .. FirstBatch, u <= r * FirstBatch + d
    PROVE  n <= (1 + QResets) * (2 * Q!NumThreads + 1)
<1>1. FirstBatch \in Nat /\ QResets \in Nat /\ FirstBatch = 2 * Q!NumThreads + 1
  BY RetrieversCounted DEF Q!QueriesAssumption, FirstBatch
<1> DEFINE m == QResets - r
<1>2. m \in Nat /\ QResets = r + m /\ r \in Nat /\ d \in Nat /\ d <= FirstBatch
  BY <1>1
<1>3. r * FirstBatch \in Nat /\ m * FirstBatch \in Nat
  BY <1>1, <1>2
<1> HIDE DEF m
<1>4. (1 + QResets) * FirstBatch = FirstBatch + r * FirstBatch + m * FirstBatch
  BY <1>1, <1>2
<1>5. n <= (1 + QResets) * FirstBatch
  BY <1>1, <1>2, <1>3, <1>4
<1> QED BY <1>1, <1>5

LEMMA SumOfThree == \A a, b, c \in Nat : a + b + c \in Nat /\ a <= a + b + c
OBVIOUS

LEMMA OneLessOfThree == \A a, b, c \in Nat : /\ a + (b - 1) + c = (a + b + c) - 1
                                            /\ (a - 1) + b + (c + 1) = a + b + c
                                            /\ a + (b + 1) + (c - 1) = a + b + c
                                            /\ a + b + (c - 1) = (a + b + c) - 1
OBVIOUS

(* The type invariant and the bound, for whatever the step has counted. *)
LEMMA CountedTypes ==
    ASSUME Q!QueriesAssumption,
           waiting' \in Seq(Q!Queries), taken' \in [Retrievers -> Q!Queries \cup {0}],
           retrieved' \in Seq(Q!Queries), Len(retrieved') <= Q!NumThreads,
           query' \in 0 .. NumQueries, result' \in 0 .. NumQueries, answers' \subseteq Q!Queries,
           stale' \in BOOLEAN, open' \in BOOLEAN, failed' \in BOOLEAN, qresets' \in 0 .. QResets,
           qat' \in {"idle", "pop", "stop queue", "stop pool", "join", "gone", "aborted"},
           QueryBound'
    PROVE  Q!TypeOK'
<1>1. Len(waiting') \in Nat /\ Len(retrieved') \in Nat
  BY LenProperties
<1>2. Cardinality(Querying') \in Nat
  <2>1. Querying' \subseteq Retrievers
    BY DEF Querying
  <2> QED BY <2>1, RetrieversCounted, FS_Subset, FS_CardinalityType
<1>3. QueriesOut' \in Nat /\ Len(waiting') <= QueriesOut'
  <2> DEFINE a == Len(waiting')
             b == Len(retrieved')
             c == Cardinality(Querying')
  <2>1. QueriesOut' = a + b + c
    BY DEF QueriesOut
  <2>2. a \in Nat /\ b \in Nat /\ c \in Nat
    BY <1>1, <1>2
  <2> HIDE DEF a, b, c
  <2>3. a + b + c \in Nat /\ a <= a + b + c
    BY <2>2, SumOfThree
  <2> QED BY <2>1, <2>3 DEF a
<1>4. query' - result' \in 0 .. FirstBatch
      /\ QueriesOut' <= qresets' * FirstBatch + (query' - result')
  BY DEF QueryBound, FirstBatch, Q!NumThreads
<1>5. Len(waiting') <= (1 + QResets) * (2 * Q!NumThreads + 1)
  BY <1>1, <1>3, <1>4, WaitingBounded
<1> QED BY <1>5 DEF Q!TypeOK, Q!Queries, Q!NumThreads

-----------------------------------------------------------------------------
LEMMA VocabularyStarts == Q!QueriesAssumption /\ Q!Init => VocabularyInv
<1> SUFFICES ASSUME Q!QueriesAssumption, Q!Init PROVE VocabularyInv
  OBVIOUS
<1>1. Querying = {} /\ Cardinality(Querying) = 0 /\ Cardinality(answers) = 0
  BY FS_EmptySet DEF Q!Init, Querying
<1>2. QueriesOut = 0 /\ Len(waiting) = 0 /\ Len(retrieved) = 0
  BY <1>1 DEF Q!Init, QueriesOut
<1>3. FirstBatch \in Nat /\ FirstBatch >= 3 /\ NumQueries \in Nat /\ QResets \in Nat
      /\ Q!NumThreads \in Nat
  BY RetrieversCounted DEF Q!QueriesAssumption
<1>4. (1 + QResets) * (2 * Q!NumThreads + 1) >= 0
  BY <1>2, <1>3, WaitingBounded
<1>5. Q!TypeOK
  <2>1. waiting \in Seq(Q!Queries) /\ retrieved \in Seq(Q!Queries)
    BY DEF Q!Init
  <2>2. taken \in [Retrievers -> Q!Queries \cup {0}]
    BY DEF Q!Init
  <2>3. query \in 0 .. NumQueries /\ result \in 0 .. NumQueries /\ qresets \in 0 .. QResets
    BY <1>3 DEF Q!Init
  <2>4. Len(waiting) <= (1 + QResets) * (2 * Q!NumThreads + 1) /\ Len(retrieved) <= Q!NumThreads
    BY <1>2, <1>3, <1>4
  <2> QED BY <2>1, <2>2, <2>3, <2>4 DEF Q!TypeOK, Q!Init
<1>6. QueryBound
  BY <1>2, <1>3 DEF QueryBound, Q!Init
<1>7. QueryPlaces
  BY <1>1, <1>2, <1>3 DEF QueryPlaces, Q!Init
<1> QED BY <1>5, <1>6, <1>7 DEF VocabularyInv, Q!Init

LEMMA NumbersBetween ==
    \A a, c \in Nat : \A b \in a .. c : b - a \in Nat /\ b = a + (b - a) /\ b \in Nat /\ b <= c
OBVIOUS

LEMMA SubmitKeeps ==
    ASSUME Q!QueriesAssumption, VocabularyInv, Q!Submit PROVE VocabularyInv'
<1> DEFINE n == query' - query
<1>1. Q!TypeOK /\ QueryBound /\ open /\ ~failed /\ (~stale => QueryPlaces)
  BY DEF VocabularyInv, Q!Submit
<1>2. /\ qat = "idle" /\ qat' = "pop" /\ ~(result >= NumQueries)
      /\ UNCHANGED <<taken, retrieved, result, answers, stale, open, failed, qresets>>
  BY DEF Q!Submit, Q!HasFinished
<1>3. /\ query' \in query .. NumQueries
      /\ waiting' \in Seq(Q!Queries) /\ Len(waiting') = Len(waiting) + n
      /\ \A i \in 1 .. Len(waiting) : waiting'[i] = waiting[i]
      /\ \A i \in Len(waiting) + 1 .. Len(waiting') : waiting'[i] = query + (i - Len(waiting))
      /\ query = 0 => query' <= FirstBatch /\ query' > 0
      /\ query # 0 => query' = IF query < NumQueries THEN query + 1 ELSE query
  BY <1>1, SubmitEffect
<1>4. Querying' = Querying
  BY <1>2 DEF Querying
<1> DEFINE base == qresets * FirstBatch
<1>0. /\ query \in Nat /\ result \in Nat /\ NumQueries \in Nat /\ query <= NumQueries
      /\ Len(waiting) \in Nat /\ Len(retrieved) \in Nat /\ Cardinality(Querying) \in Nat
      /\ FirstBatch \in Nat /\ base \in Nat /\ QueriesOut \in Nat
  BY <1>1, CountsAre
<1>5. n \in Nat /\ query' = query + n /\ query' \in Nat /\ query' <= NumQueries
  <2>1. query' \in query .. NumQueries
    BY <1>3
  <2> QED BY <1>0, <2>1, NumbersBetween
<1> HIDE DEF n, base
<1>6. QueriesOut' = QueriesOut + n
  <2>1. QueriesOut' = Len(waiting') + Len(retrieved) + Cardinality(Querying)
    BY <1>2, <1>4 DEF QueriesOut
  <2>2. Len(waiting') = Len(waiting) + n
    BY <1>3
  <2> QED BY <1>0, <1>5, <2>1, <2>2 DEF QueriesOut
<1>7. QueryBound'
  <2>1. /\ query - result \in Nat /\ (query = 0 => result = 0) /\ query - result < FirstBatch
        /\ QueriesOut <= base + (query - result)
    BY <1>0, <1>1, <1>2 DEF QueryBound, base
  <2>2. query' - result \in 0 .. FirstBatch /\ query' > result
    <3>1. CASE query = 0
      BY <1>0, <1>2, <1>3, <1>5, <2>1, <3>1
    <3>2. CASE query # 0
      <4>1. query' = IF query < NumQueries THEN query + 1 ELSE query
        BY <1>3, <3>2
      <4> QED BY <1>0, <1>2, <2>1, <4>1
    <3> QED BY <3>1, <3>2
  <2>3. QueriesOut' <= base + (query' - result)
    BY <1>0, <1>5, <1>6, <2>1
  <2>4. FirstBatch' = FirstBatch
    BY DEF FirstBatch, Q!NumThreads
  <2>5. /\ query' - result' \in 0 .. FirstBatch' /\ query' > result' /\ query' # 0
        /\ QueriesOut' <= qresets' * FirstBatch' + (query' - result')
    BY <1>0, <1>2, <1>5, <2>2, <2>3, <2>4 DEF base
  <2> QED BY <1>2, <2>5 DEF QueryBound
<1>8. Q!TypeOK'
  <2>1. query' \in 0 .. NumQueries
    BY <1>0, <1>5
  <2> QED BY <1>1, <1>2, <1>3, <1>7, <2>1, CountedTypes DEF Q!TypeOK
<1>9. ASSUME ~stale PROVE QueryPlaces'
  <2>1. QueryPlaces
    BY <1>1, <1>9
  <2>2. query' - Len(waiting') = query - Len(waiting)
    BY <1>0, <1>3, <1>5
  <2>3. ASSUME NEW i \in 1 .. Len(waiting')
        PROVE  waiting'[i] = (query' - Len(waiting')) + i
    <3>1. CASE i <= Len(waiting)
      <4>1. i \in 1 .. Len(waiting) /\ waiting'[i] = waiting[i]
        BY <1>0, <1>3, <3>1
      <4>2. waiting[i] = (query - Len(waiting)) + i
        BY <2>1, <4>1 DEF QueryPlaces
      <4> QED BY <2>2, <4>1, <4>2
    <3>2. CASE ~(i <= Len(waiting))
      <4>1. i \in Len(waiting) + 1 .. Len(waiting')
        BY <1>0, <3>2
      <4>2. waiting'[i] = query + (i - Len(waiting))
        BY <1>3, <4>1
      <4> QED BY <1>0, <2>2, <4>2
    <3> QED BY <3>1, <3>2
  <2>4. QueriesOut' = query' - result
    <3>1. QueriesOut = query - result
      BY <1>1, <2>1 DEF QueryPlaces
    <3> QED BY <1>0, <1>5, <1>6, <3>1
  <2>5. ~Q!HasFinished'
    BY <1>2 DEF Q!HasFinished
  <2>6. \A w \in Querying' : taken'[w] <= query' - Len(waiting')
    BY <1>2, <1>4, <2>1, <2>2 DEF QueryPlaces
  <2>7. \A w, x \in Querying' : taken'[w] = taken'[x] => w = x
    BY <1>2, <1>4, <2>1 DEF QueryPlaces
  <2>8. \A i \in 1 .. Len(retrieved') :
          /\ retrieved'[i] <= query' - Len(waiting')
          /\ retrieved'[i] \notin answers' /\ \A w \in Querying' : taken'[w] # retrieved'[i]
    BY <1>2, <1>4, <2>1, <2>2 DEF QueryPlaces
  <2>9. \A i, j \in 1 .. Len(retrieved') : retrieved'[i] = retrieved'[j] => i = j
    BY <1>2, <2>1 DEF QueryPlaces
  <2>10. /\ \A a \in answers' : a <= query' - Len(waiting')
         /\ \A w \in Querying' : taken'[w] \notin answers'
         /\ Cardinality(answers') = result'
    BY <1>2, <1>4, <2>1, <2>2 DEF QueryPlaces
  <2> QED BY <1>2, <2>3, <2>4, <2>5, <2>6, <2>7, <2>8, <2>9, <2>10 DEF QueryPlaces
<1> QED BY <1>1, <1>2, <1>7, <1>8, <1>9 DEF VocabularyInv

LEMMA PopKeeps ==
    ASSUME Q!QueriesAssumption, VocabularyInv, Q!PopResult PROVE VocabularyInv'
<1> DEFINE base == qresets * FirstBatch
           a == Head(retrieved)
<1>1. Q!TypeOK /\ QueryBound /\ open /\ ~failed /\ (~stale => QueryPlaces)
  BY DEF VocabularyInv, Q!PopResult
<1>2. /\ qat = "pop" /\ qat' = "idle" /\ retrieved # <<>>
      /\ answers' = answers \cup {a} /\ retrieved' = Tail(retrieved) /\ result' = result + 1
      /\ UNCHANGED <<waiting, taken, query, stale, open, failed, qresets>>
  BY DEF Q!PopResult
<1>0. /\ query \in Nat /\ result \in Nat /\ NumQueries \in Nat /\ query <= NumQueries
      /\ Len(waiting) \in Nat /\ Len(retrieved) \in Nat /\ Cardinality(Querying) \in Nat
      /\ FirstBatch \in Nat /\ base \in Nat /\ QueriesOut \in Nat
  BY <1>1, CountsAre
<1>3. /\ a = retrieved[1] /\ a \in Q!Queries /\ Tail(retrieved) \in Seq(Q!Queries)
      /\ Len(retrieved) \in Nat \ {0} /\ Len(Tail(retrieved)) = Len(retrieved) - 1
      /\ \A i \in 1 .. Len(Tail(retrieved)) : Tail(retrieved)[i] = retrieved[i + 1]
  BY <1>1, <1>2, CountsAre, HeadAndTail
<1> HIDE DEF base, a
<1>4. Querying' = Querying /\ FirstBatch' = FirstBatch
  BY <1>2 DEF Querying, FirstBatch, Q!NumThreads
<1>5. QueriesOut' = QueriesOut - 1
  <2>1. QueriesOut' = Len(waiting) + Len(Tail(retrieved)) + Cardinality(Querying)
    BY <1>2, <1>4 DEF QueriesOut
  <2>2. Len(Tail(retrieved)) = Len(retrieved) - 1
    BY <1>3
  <2>3. QueriesOut' = Len(waiting) + (Len(retrieved) - 1) + Cardinality(Querying)
    BY <2>1, <2>2
  <2> QED BY <1>0, <2>3, OneLessOfThree DEF QueriesOut
<1>6. /\ query - result \in 0 .. FirstBatch /\ query > result
      /\ QueriesOut <= base + (query - result)
  BY <1>1, <1>2 DEF QueryBound, base
<1>7. QueryBound'
  <2>1. /\ query - (result + 1) \in 0 .. FirstBatch /\ query - (result + 1) < FirstBatch
        /\ query # 0 /\ QueriesOut - 1 <= base + (query - (result + 1))
    BY <1>0, <1>6
  <2> QED BY <1>2, <1>4, <1>5, <2>1 DEF QueryBound, base
<1>8. Q!TypeOK'
  <2>1. result' \in 0 .. NumQueries
    BY <1>0, <1>2, <1>6
  <2>2. Len(retrieved') <= Q!NumThreads
    <3>1. Len(retrieved) <= Q!NumThreads /\ Q!NumThreads \in Nat
      BY <1>1, RetrieversCounted DEF Q!TypeOK
    <3>2. Len(retrieved') = Len(retrieved) - 1
      BY <1>2, <1>3
    <3> QED BY <1>0, <3>1, <3>2
  <2> QED BY <1>1, <1>2, <1>3, <1>7, <2>1, <2>2, CountedTypes DEF Q!TypeOK
<1>9. ASSUME ~stale PROVE QueryPlaces'
  <2>1. QueryPlaces
    BY <1>1, <1>9
  <2>2. /\ a <= query - Len(waiting) /\ a \notin answers /\ \A w \in Querying : taken[w] # a
    <3>1. 1 \in 1 .. Len(retrieved)
      BY <1>3
    <3> QED BY <1>3, <2>1, <3>1 DEF QueryPlaces
  <2>3. ASSUME NEW i \in 1 .. Len(Tail(retrieved))
        PROVE  /\ i + 1 \in 1 .. Len(retrieved) /\ Tail(retrieved)[i] = retrieved[i + 1]
               /\ retrieved[i + 1] # a
    <3>1. i + 1 \in 1 .. Len(retrieved) /\ 1 \in 1 .. Len(retrieved) /\ i + 1 # 1
      <4>1. Len(Tail(retrieved)) = Len(retrieved) - 1
        BY <1>3
      <4> QED BY <1>0, <4>1
    <3>2. retrieved[i + 1] # retrieved[1]
      BY <2>1, <3>1 DEF QueryPlaces
    <3> QED BY <1>3, <3>1, <3>2
  <2>4. \A i \in 1 .. Len(retrieved') :
          /\ retrieved'[i] <= query' - Len(waiting')
          /\ retrieved'[i] \notin answers' /\ \A w \in Querying' : taken'[w] # retrieved'[i]
    BY <1>2, <1>4, <2>1, <2>3 DEF QueryPlaces
  <2>5. \A i, j \in 1 .. Len(retrieved') : retrieved'[i] = retrieved'[j] => i = j
    <3> SUFFICES ASSUME NEW i \in 1 .. Len(Tail(retrieved)), NEW j \in 1 .. Len(Tail(retrieved)),
                        Tail(retrieved)[i] = Tail(retrieved)[j]
                 PROVE  i = j
      BY <1>2
    <3>1. i + 1 = j + 1
      BY <2>1, <2>3 DEF QueryPlaces
    <3> QED BY <3>1
  <2>6. Cardinality(answers') = result'
    <3>1. Cardinality(answers) = result /\ IsFiniteSet(answers)
      BY <1>1, <2>1, CountsAre DEF QueryPlaces
    <3> QED BY <1>2, <2>2, <3>1, FS_AddElement
  <2>7. QueriesOut = query - result
    BY <1>1, <2>1 DEF QueryPlaces
  <2>8. QueriesOut' = query' - result'
    BY <1>0, <1>2, <1>5, <2>7
  <2>9. Q!HasFinished' => QueriesOut' = 0 /\ ~failed'
    <3>1. Q!HasFinished' => result + 1 >= NumQueries
      BY <1>2 DEF Q!HasFinished
    <3>2. result + 1 >= NumQueries => query - (result + 1) = 0
      BY <1>0, <1>6
    <3> QED BY <1>1, <1>2, <2>8, <3>1, <3>2
  <2>10. /\ \A w \in Querying' : taken'[w] <= query' - Len(waiting')
         /\ \A w, x \in Querying' : taken'[w] = taken'[x] => w = x
         /\ \A i \in 1 .. Len(waiting') : waiting'[i] = (query' - Len(waiting')) + i
    BY <1>2, <1>4, <2>1 DEF QueryPlaces
  <2>11. /\ \A x \in answers' : x <= query' - Len(waiting')
         /\ \A w \in Querying' : taken'[w] \notin answers'
    BY <1>2, <1>4, <2>1, <2>2 DEF QueryPlaces
  <2> QED BY <2>4, <2>5, <2>6, <2>8, <2>9, <2>10, <2>11 DEF QueryPlaces
<1> QED BY <1>1, <1>2, <1>7, <1>8, <1>9 DEF VocabularyInv

(* Nothing is under way when Reset() is called and all is answered.          *)
LEMMA ResetKeeps ==
    ASSUME Q!QueriesAssumption, VocabularyInv, Q!Reset PROVE VocabularyInv'
<1> DEFINE base == qresets * FirstBatch
<1>1. Q!TypeOK /\ QueryBound /\ open /\ ~failed /\ (~stale => QueryPlaces)
  BY DEF VocabularyInv, Q!Reset
<1>2. /\ qat = "idle" /\ qresets < QResets /\ query' = 0 /\ result' = 0 /\ answers' = {}
      /\ qresets' = qresets + 1 /\ stale' = (stale \/ query # result)
      /\ UNCHANGED <<waiting, taken, retrieved, open, failed, qat>>
  BY DEF Q!Reset
<1>0. /\ query \in Nat /\ result \in Nat /\ NumQueries \in Nat /\ QResets \in Nat
      /\ qresets \in Nat
      /\ Len(waiting) \in Nat /\ Len(retrieved) \in Nat /\ Cardinality(Querying) \in Nat
      /\ FirstBatch \in Nat /\ FirstBatch >= 3 /\ base \in Nat /\ QueriesOut \in Nat
  BY <1>1, CountsAre
<1>3. Querying' = Querying /\ FirstBatch' = FirstBatch
  BY <1>2 DEF Querying, FirstBatch, Q!NumThreads
<1>4. QueriesOut' = QueriesOut
  BY <1>2, <1>3 DEF QueriesOut
<1>5. query - result \in 0 .. FirstBatch /\ QueriesOut <= base + (query - result)
  BY <1>1, <1>2 DEF QueryBound, base
<1>6. qresets' * FirstBatch = base + FirstBatch
  BY <1>0, <1>2
<1> HIDE DEF base
<1>7. QueryBound'
  <2>1. QueriesOut <= (base + FirstBatch) + (0 - 0) /\ 0 - 0 \in 0 .. FirstBatch /\ 0 - 0 < FirstBatch
    BY <1>0, <1>5
  <2> QED BY <1>2, <1>3, <1>4, <1>6, <2>1 DEF QueryBound
<1>8. Q!TypeOK'
  <2>1. qresets' \in 0 .. QResets /\ query' \in 0 .. NumQueries /\ result' \in 0 .. NumQueries
    BY <1>0, <1>2
  <2>2. answers' \subseteq Q!Queries /\ stale' \in BOOLEAN
    BY <1>1, <1>2 DEF Q!TypeOK
  <2> QED BY <1>1, <1>2, <1>7, <2>1, <2>2, CountedTypes DEF Q!TypeOK
<1>9. ASSUME ~stale' PROVE QueryPlaces'
  <2>1. ~stale /\ query = result /\ QueryPlaces
    BY <1>1, <1>2, <1>9
  <2>2. QueriesOut = 0
    BY <1>0, <1>1, <2>1 DEF QueryPlaces
  <2>3. Len(waiting) = 0 /\ Len(retrieved) = 0 /\ Cardinality(Querying) = 0
    BY <1>0, <2>2 DEF QueriesOut
  <2>4. Querying = {}
    BY <2>3, RetrieversCounted, FS_EmptySet
  <2>5. Cardinality(answers') = 0
    BY <1>2, FS_EmptySet
  <2> QED BY <1>1, <1>2, <1>3, <1>4, <2>2, <2>3, <2>4, <2>5 DEF QueryPlaces
<1> QED BY <1>1, <1>2, <1>7, <1>8, <1>9 DEF VocabularyInv

-----------------------------------------------------------------------------
(* The steps of the threads count no query and no result. *)
LEMMA BoundStays ==
    ASSUME Q!QueriesAssumption, Q!TypeOK, QueryBound,
           UNCHANGED <<query, result, qresets>>, QueriesOut' \in Nat, QueriesOut' <= QueriesOut,
           qat' = qat \/ qat' \notin {"idle", "pop"}
    PROVE  QueryBound'
<1> DEFINE base == qresets * FirstBatch
<1>1. /\ query \in Nat /\ result \in Nat /\ QueriesOut \in Nat /\ base \in Nat
  BY CountsAre
<1>2. FirstBatch' = FirstBatch
  BY DEF FirstBatch, Q!NumThreads
<1>3. QueriesOut <= base + (query - result) /\ query - result \in Nat
  BY DEF QueryBound
<1> HIDE DEF base
<1>4. QueriesOut' <= base + (query - result)
  BY <1>1, <1>3
<1> QED BY <1>2, <1>4 DEF QueryBound, base

LEMMA Earlier == \A n \in Int : \A q \in Nat : q <= n => q <= n + 1 /\ q # n + 1
OBVIOUS

LEMMA TakeKeeps ==
    ASSUME Q!QueriesAssumption, VocabularyInv, NEW w \in Retrievers, Q!Take(w)
    PROVE  VocabularyInv'
<1> DEFINE a == Head(waiting)
<1>1. Q!TypeOK /\ QueryBound /\ (~stale => QueryPlaces)
  BY DEF VocabularyInv
<1>2. /\ taken[w] = 0 /\ waiting # <<>>
      /\ taken' = [taken EXCEPT ![w] = a] /\ waiting' = Tail(waiting)
      /\ UNCHANGED <<retrieved, query, result, answers, stale, open, failed, qresets, qat>>
  BY DEF Q!Take
<1>0. /\ query \in Nat /\ result \in Nat /\ Len(waiting) \in Nat /\ Len(retrieved) \in Nat
      /\ Cardinality(Querying) \in Nat /\ QueriesOut \in Nat
      /\ taken \in [Retrievers -> Q!Queries \cup {0}]
  BY <1>1, CountsAre
<1>3. /\ a = waiting[1] /\ a \in Q!Queries /\ Tail(waiting) \in Seq(Q!Queries)
      /\ Len(waiting) \in Nat \ {0} /\ Len(Tail(waiting)) = Len(waiting) - 1
      /\ \A i \in 1 .. Len(Tail(waiting)) : Tail(waiting)[i] = waiting[i + 1]
  BY <1>1, <1>2, CountsAre, HeadAndTail
<1> HIDE DEF a
<1>4. /\ Querying' = Querying \cup {w} /\ w \notin Querying
      /\ Cardinality(Querying') = Cardinality(Querying) + 1
  BY <1>1, <1>2, <1>3, OneMoreHeld
<1>5. QueriesOut' = QueriesOut
  <2>1. QueriesOut' = Len(Tail(waiting)) + Len(retrieved) + Cardinality(Querying')
    BY <1>2 DEF QueriesOut
  <2>2. Len(Tail(waiting)) = Len(waiting) - 1
    BY <1>3
  <2>3. QueriesOut' = (Len(waiting) - 1) + Len(retrieved) + (Cardinality(Querying) + 1)
    BY <1>4, <2>1, <2>2
  <2> QED BY <1>0, <2>3, OneLessOfThree DEF QueriesOut
<1>6. QueryBound'
  BY <1>0, <1>1, <1>2, <1>5, BoundStays
<1>7. Q!TypeOK'
  <2>1. taken' \in [Retrievers -> Q!Queries \cup {0}]
    BY <1>0, <1>2, <1>3
  <2> QED BY <1>1, <1>2, <1>3, <1>6, <2>1, CountedTypes DEF Q!TypeOK
<1>8. ASSUME ~stale PROVE QueryPlaces'
  <2>1. QueryPlaces
    BY <1>1, <1>8
  <2>2. Len(waiting') = Len(waiting) - 1
    BY <1>2, <1>3
  <2>3. query - Len(waiting') = (query - Len(waiting)) + 1
    BY <1>0, <2>2
  <2> DEFINE old == query - Len(waiting)
  <2>4. old \in Int /\ query' - Len(waiting') = old + 1
    BY <1>0, <1>2, <2>3
  <2>5. a = old + 1
    <3>1. 1 \in 1 .. Len(waiting)
      BY <1>3
    <3> QED BY <1>3, <2>1, <3>1 DEF QueryPlaces
  <2>6. ASSUME NEW i \in 1 .. Len(waiting') PROVE waiting'[i] = (old + 1) + i
    <3>1. i \in 1 .. Len(Tail(waiting)) /\ i + 1 \in 1 .. Len(waiting)
      BY <1>0, <1>2, <2>2
    <3>2. waiting'[i] = waiting[i + 1]
      BY <1>2, <1>3, <3>1
    <3>3. waiting[i + 1] = old + (i + 1)
      BY <2>1, <3>1 DEF QueryPlaces
    <3> QED BY <2>4, <3>2, <3>3
  <2>7. ASSUME NEW q \in Nat, q <= old PROVE q <= old + 1 /\ q # a
    <3> HIDE DEF old
    <3>1. q <= old + 1 /\ q # old + 1
      BY <2>4, <2>7, Earlier
    <3> QED BY <2>5, <3>1
  <2>8. \A x \in Querying : taken[x] \in Nat /\ taken[x] <= old
    <3>1. \A x \in Querying : taken[x] \in Nat
      BY <1>0, <1>1, CountsAre DEF Querying
    <3> QED BY <2>1, <3>1 DEF QueryPlaces
  <2>9. \A x \in Querying' : taken'[x] = IF x = w THEN a ELSE taken[x]
    BY <1>0, <1>2, <1>4 DEF Querying
  <2>10. \A i \in 1 .. Len(retrieved) : retrieved[i] \in Nat /\ retrieved[i] <= old
    <3>1. \A i \in 1 .. Len(retrieved) : retrieved[i] \in Nat
      <4>1. retrieved \in Seq(Q!Queries) /\ Q!Queries \subseteq Nat
        BY <1>1, CountsAre
      <4> QED BY <4>1, ElementOfSeq
    <3> QED BY <2>1, <3>1 DEF QueryPlaces
  <2>11. \A x \in answers : x \in Nat /\ x <= old
    <3>1. \A x \in answers : x \in Nat
      BY <1>1, CountsAre
    <3> QED BY <2>1, <3>1 DEF QueryPlaces
  <2>12. \A x \in Querying' : taken'[x] <= old + 1 /\ taken'[x] \notin answers'
    <3>1. \A x \in Querying : taken[x] <= old + 1 /\ taken[x] \notin answers
      BY <2>1, <2>7, <2>8 DEF QueryPlaces
    <3>2. a <= old + 1 /\ a \notin answers
      BY <2>4, <2>5, <2>7, <2>11
    <3> QED BY <1>2, <1>4, <2>9, <3>1, <3>2
  <2>13. \A x, y \in Querying' : taken'[x] = taken'[y] => x = y
    <3>1. \A x, y \in Querying : taken[x] = taken[y] => x = y
      BY <2>1 DEF QueryPlaces
    <3>2. \A x \in Querying : taken[x] # a
      BY <2>7, <2>8
    <3> QED BY <1>4, <2>9, <3>1, <3>2
  <2>14. \A i \in 1 .. Len(retrieved') :
          /\ retrieved'[i] <= old + 1 /\ retrieved'[i] \notin answers'
          /\ \A x \in Querying' : taken'[x] # retrieved'[i]
    <3>1. \A i \in 1 .. Len(retrieved) :
             /\ retrieved[i] <= old + 1 /\ retrieved[i] # a /\ retrieved[i] \notin answers
             /\ \A x \in Querying : taken[x] # retrieved[i]
      BY <2>1, <2>7, <2>10 DEF QueryPlaces
    <3> QED BY <1>2, <1>4, <2>9, <3>1
  <2>15. \A x \in answers' : x <= old + 1
    BY <1>2, <2>7, <2>11
  <2>16. /\ \A i, j \in 1 .. Len(retrieved') : retrieved'[i] = retrieved'[j] => i = j
         /\ Cardinality(answers') = result'
         /\ open' => QueriesOut' = query' - result'
         /\ Q!HasFinished' => QueriesOut' = 0 /\ ~failed'
    BY <1>2, <1>5, <2>1 DEF QueryPlaces, Q!HasFinished
  <2> HIDE DEF old
  <2> QED BY <2>4, <2>6, <2>12, <2>13, <2>14, <2>15, <2>16 DEF QueryPlaces
<1> QED BY <1>2, <1>6, <1>7, <1>8 DEF VocabularyInv

LEMMA PushKeeps ==
    ASSUME Q!QueriesAssumption, VocabularyInv, NEW w \in Retrievers, Q!Push(w)
    PROVE  VocabularyInv'
<1> DEFINE a == taken[w]
           n == Len(retrieved)
<1>1. Q!TypeOK /\ QueryBound /\ open /\ ~failed /\ (~stale => QueryPlaces)
  BY DEF VocabularyInv, Q!Push
<1>2. /\ a # 0 /\ n < Q!NumThreads
      /\ retrieved' = retrieved \o <<a>> /\ taken' = [taken EXCEPT ![w] = 0]
      /\ UNCHANGED <<waiting, query, result, answers, stale, open, failed, qresets, qat>>
  BY DEF Q!Push, Q!Pushed
<1>0. /\ query \in Nat /\ result \in Nat /\ Len(waiting) \in Nat /\ n \in Nat
      /\ Cardinality(Querying) \in Nat /\ QueriesOut \in Nat
      /\ taken \in [Retrievers -> Q!Queries \cup {0}] /\ retrieved \in Seq(Q!Queries)
  BY <1>1, CountsAre
<1>3. a \in Q!Queries
  BY <1>0, <1>2
<1>4. /\ Querying' = Querying \ {w} /\ w \in Querying
      /\ Cardinality(Querying') = Cardinality(Querying) - 1
  BY <1>1, <1>2, OneLessHeld
<1> HIDE DEF a
<1>5. /\ retrieved' \in Seq(Q!Queries) /\ Len(retrieved') = n + 1
      /\ \A i \in 1 .. n : retrieved'[i] = retrieved[i]
      /\ retrieved'[n + 1] = a
  BY <1>0, <1>2, <1>3, LastOfQueue
<1>6. QueriesOut' = QueriesOut
  <2>1. QueriesOut' = Len(waiting) + Len(retrieved') + Cardinality(Querying')
    BY <1>2 DEF QueriesOut
  <2>2. QueriesOut' = Len(waiting) + (n + 1) + (Cardinality(Querying) - 1)
    BY <1>4, <1>5, <2>1
  <2> QED BY <1>0, <2>2, OneLessOfThree DEF QueriesOut
<1> HIDE DEF n
<1>7. QueryBound'
  BY <1>0, <1>1, <1>2, <1>6, BoundStays
<1>8. Q!TypeOK'
  <2>1. taken' \in [Retrievers -> Q!Queries \cup {0}]
    BY <1>0, <1>2
  <2>2. Len(retrieved') <= Q!NumThreads
    <3>1. Q!NumThreads \in Nat
      BY RetrieversCounted
    <3> QED BY <1>0, <1>2, <1>5, <3>1
  <2> QED BY <1>1, <1>2, <1>5, <1>7, <2>1, <2>2, CountedTypes DEF Q!TypeOK
<1>9. ASSUME ~stale PROVE QueryPlaces'
  <2>1. QueryPlaces
    BY <1>1, <1>9
  <2>2. \A x \in Querying' : x \in Querying /\ x # w /\ taken'[x] = taken[x]
    BY <1>0, <1>2, <1>4 DEF Querying
  <2>3. /\ a <= query - Len(waiting) /\ a \notin answers
        /\ \A x \in Querying : x # w => taken[x] # a
        /\ \A i \in 1 .. n : retrieved[i] # a
    BY <1>4, <2>1 DEF QueryPlaces, a, n
  <2>4. \A i \in 1 .. Len(retrieved') : i \in 1 .. n \/ i = n + 1
    BY <1>0, <1>5
  <2>5. \A i \in 1 .. n :
          /\ retrieved[i] <= query - Len(waiting)
          /\ retrieved[i] \notin answers /\ \A x \in Querying : taken[x] # retrieved[i]
    BY <2>1 DEF QueryPlaces, n
  <2>6. \A i \in 1 .. Len(retrieved') :
          /\ retrieved'[i] <= query' - Len(waiting')
          /\ retrieved'[i] \notin answers' /\ \A x \in Querying' : taken'[x] # retrieved'[i]
    BY <1>2, <1>5, <2>2, <2>3, <2>4, <2>5
  <2>7. \A i, j \in 1 .. Len(retrieved') : retrieved'[i] = retrieved'[j] => i = j
    <3>1. \A i, j \in 1 .. n : retrieved[i] = retrieved[j] => i = j
      BY <2>1 DEF QueryPlaces, n
    <3> QED BY <1>5, <2>3, <2>4, <3>1
  <2>8. /\ \A x \in Querying' : taken'[x] <= query' - Len(waiting')
        /\ \A x, y \in Querying' : taken'[x] = taken'[y] => x = y
        /\ \A x \in Querying' : taken'[x] \notin answers'
    BY <1>2, <2>1, <2>2 DEF QueryPlaces
  <2>9. /\ \A i \in 1 .. Len(waiting') : waiting'[i] = (query' - Len(waiting')) + i
        /\ \A x \in answers' : x <= query' - Len(waiting')
        /\ Cardinality(answers') = result'
        /\ open' => QueriesOut' = query' - result'
        /\ Q!HasFinished' => QueriesOut' = 0 /\ ~failed'
    BY <1>2, <1>6, <2>1 DEF QueryPlaces, Q!HasFinished
  <2> QED BY <2>6, <2>7, <2>8, <2>9 DEF QueryPlaces
<1> QED BY <1>1, <1>2, <1>7, <1>8, <1>9 DEF VocabularyInv

(* When the generator has finished, no query is left whose check could throw. *)
LEMMA PushFailsKeeps ==
    ASSUME Q!QueriesAssumption, VocabularyInv, NEW w \in Retrievers, Q!PushFails(w)
    PROVE  VocabularyInv'
<1>1. Q!TypeOK /\ QueryBound /\ ~open /\ (~stale => QueryPlaces)
  BY DEF VocabularyInv, Q!PushFails
<1>2. /\ taken[w] # 0 /\ taken' = [taken EXCEPT ![w] = 0] /\ failed' = TRUE
      /\ UNCHANGED <<waiting, retrieved, query, result, answers, stale, open, qresets, qat>>
  BY DEF Q!PushFails
<1>0. /\ Len(waiting) \in Nat /\ Len(retrieved) \in Nat
      /\ Cardinality(Querying) \in Nat /\ QueriesOut \in Nat
      /\ taken \in [Retrievers -> Q!Queries \cup {0}]
  BY <1>1, CountsAre
<1>4. /\ Querying' = Querying \ {w} /\ w \in Querying
      /\ Cardinality(Querying') = Cardinality(Querying) - 1
  BY <1>1, <1>2, OneLessHeld
<1>5. Cardinality(Querying) # 0
  BY <1>4, RetrieversCounted, FS_EmptySet
<1>6. QueriesOut' = QueriesOut - 1 /\ QueriesOut # 0
  <2>1. QueriesOut' = Len(waiting) + Len(retrieved) + (Cardinality(Querying) - 1)
    BY <1>2, <1>4 DEF QueriesOut
  <2>2. QueriesOut' = QueriesOut - 1
    BY <1>0, <2>1, OneLessOfThree DEF QueriesOut
  <2>3. QueriesOut # 0
    BY <1>0, <1>5 DEF QueriesOut
  <2> QED BY <2>2, <2>3
<1>7. QueryBound'
  <2>1. QueriesOut' \in Nat /\ QueriesOut' <= QueriesOut
    BY <1>0, <1>6
  <2> QED BY <1>1, <1>2, <2>1, BoundStays
<1>8. Q!TypeOK'
  <2>1. taken' \in [Retrievers -> Q!Queries \cup {0}]
    BY <1>0, <1>2
  <2> QED BY <1>1, <1>2, <1>7, <2>1, CountedTypes DEF Q!TypeOK
<1>9. ASSUME ~stale PROVE QueryPlaces'
  <2>1. QueryPlaces
    BY <1>1, <1>9
  <2>2. \A x \in Querying' : x \in Querying /\ taken'[x] = taken[x]
    BY <1>0, <1>2, <1>4 DEF Querying
  <2>3. ~Q!HasFinished'
    BY <1>2, <1>6, <2>1 DEF QueryPlaces, Q!HasFinished
  <2> QED BY <1>1, <1>2, <2>1, <2>2, <2>3 DEF QueryPlaces
<1> QED BY <1>1, <1>2, <1>7, <1>8, <1>9 DEF VocabularyInv

LEMMA DestroyKeeps ==
    ASSUME Q!QueriesAssumption, VocabularyInv, Q!Destroy \/ Q!StopQueue \/ Q!StopPool \/ Q!Join
    PROVE  VocabularyInv'
<1>1. Q!TypeOK /\ QueryBound /\ (~stale => QueryPlaces)
  BY DEF VocabularyInv
<1>2. /\ UNCHANGED <<taken, retrieved, query, result, answers, stale, failed, qresets>>
      /\ waiting' = waiting \/ (~open /\ waiting' = <<>>)
      /\ qat' \in {"stop queue", "stop pool", "join", "gone", "aborted"}
      /\ open' \in BOOLEAN /\ (open' => open) /\ (open' <=> qat' = "stop queue")
  <2>1. open \in BOOLEAN /\ (open <=> qat \in {"idle", "pop", "stop queue"})
    BY DEF VocabularyInv, Q!TypeOK
  <2>2. CASE Q!Destroy
    BY <2>1, <2>2 DEF Q!Destroy
  <2>3. CASE Q!StopQueue
    BY <2>1, <2>3 DEF Q!StopQueue
  <2>4. CASE Q!StopPool
    BY <2>1, <2>4 DEF Q!StopPool
  <2>5. CASE Q!Join
    BY <2>1, <2>5 DEF Q!Join
  <2> QED BY <2>2, <2>3, <2>4, <2>5
<1>0. /\ Len(waiting) \in Nat /\ Len(retrieved) \in Nat
      /\ Cardinality(Querying) \in Nat /\ QueriesOut \in Nat
  BY <1>1, CountsAre
<1>3. Querying' = Querying
  BY <1>2 DEF Querying
<1>4. QueriesOut' \in Nat /\ QueriesOut' <= QueriesOut /\ (waiting' = waiting => QueriesOut' = QueriesOut)
  <2>1. CASE waiting' = waiting
    <3>1. QueriesOut' = QueriesOut
      BY <1>2, <1>3, <2>1 DEF QueriesOut
    <3> QED BY <1>0, <3>1
  <2>2. CASE waiting' = <<>> /\ waiting' # waiting
    <3>1. QueriesOut' = Len(<<>>) + Len(retrieved) + Cardinality(Querying) /\ Len(<<>>) = 0
      BY <1>2, <1>3, <2>2 DEF QueriesOut
    <3> DEFINE b == Len(retrieved)
               c == Cardinality(Querying)
    <3>2. QueriesOut' = 0 + b + c /\ QueriesOut = Len(waiting) + b + c
      BY <3>1 DEF QueriesOut
    <3>3. b \in Nat /\ c \in Nat
      BY <1>0
    <3> HIDE DEF b, c
    <3>4. QueriesOut' \in Nat /\ QueriesOut' <= QueriesOut
      BY <1>0, <3>2, <3>3
    <3> QED BY <2>2, <3>4
  <2> QED BY <1>2, <2>1, <2>2
<1>5. QueryBound'
  BY <1>1, <1>2, <1>4, BoundStays
<1>6. Q!TypeOK'
  <2>1. waiting' \in Seq(Q!Queries)
    <3>1. waiting \in Seq(Q!Queries)
      BY <1>1 DEF Q!TypeOK
    <3>2. <<>> \in Seq(Q!Queries)
      BY EmptySeq
    <3> QED BY <1>2, <3>1, <3>2
  <2> QED BY <1>1, <1>2, <1>5, <2>1, CountedTypes DEF Q!TypeOK
<1>7. ASSUME ~stale PROVE QueryPlaces'
  <2>1. QueryPlaces
    BY <1>1, <1>7
  <2>2. CASE waiting' = waiting
    BY <1>2, <1>3, <1>4, <2>1, <2>2 DEF QueryPlaces, Q!HasFinished
  <2>3. CASE ~open /\ waiting' = <<>>
    <3>1. /\ query \in Nat /\ NumQueries \in Nat /\ Len(waiting) \in Nat
          /\ Len(waiting') = 0 /\ ~open'
      BY <1>1, <1>2, <2>3, CountsAre
    <3>2. ASSUME NEW q \in Nat, q <= query - Len(waiting) PROVE q <= query - 0
      BY <3>1, <3>2
    <3>3. /\ taken \in [Retrievers -> Q!Queries \cup {0}] /\ retrieved \in Seq(Q!Queries)
          /\ Q!Queries \subseteq Nat /\ answers \subseteq Nat
      BY <1>1, CountsAre
    <3>4. /\ \A x \in Querying : taken[x] \in Nat
          /\ \A i \in 1 .. Len(retrieved) : retrieved[i] \in Nat
      BY <3>3, ElementOfSeq DEF Querying
    <3>5. /\ \A x \in Querying : taken[x] <= query - 0
          /\ \A i \in 1 .. Len(retrieved) : retrieved[i] <= query - 0
          /\ \A x \in answers : x <= query - 0
      BY <2>1, <3>2, <3>3, <3>4 DEF QueryPlaces
    <3>6. Q!HasFinished' => QueriesOut' = 0 /\ ~failed'
      <4>1. Q!HasFinished' => QueriesOut = 0 /\ ~failed
        BY <1>2, <2>1 DEF QueryPlaces, Q!HasFinished
      <4>2. QueriesOut = 0 => QueriesOut' = 0
        BY <1>0, <1>4
      <4> QED BY <1>2, <4>1, <4>2
    <3>7. \A i \in 1 .. Len(waiting') : waiting'[i] = (query' - Len(waiting')) + i
      BY <3>1
    <3>8. /\ \A x \in Querying' : taken'[x] <= query' - Len(waiting') /\ taken'[x] \notin answers'
          /\ \A x, y \in Querying' : taken'[x] = taken'[y] => x = y
          /\ \A x \in answers' : x <= query' - Len(waiting')
      BY <1>2, <1>3, <2>1, <3>1, <3>5 DEF QueryPlaces
    <3>9. /\ \A i \in 1 .. Len(retrieved') :
                /\ retrieved'[i] <= query' - Len(waiting')
                /\ retrieved'[i] \notin answers' /\ \A x \in Querying' : taken'[x] # retrieved'[i]
          /\ \A i, j \in 1 .. Len(retrieved') : retrieved'[i] = retrieved'[j] => i = j
          /\ Cardinality(answers') = result'
      BY <1>2, <1>3, <2>1, <3>1, <3>5 DEF QueryPlaces
    <3> QED BY <3>1, <3>6, <3>7, <3>8, <3>9 DEF QueryPlaces
  <2> QED BY <1>2, <2>2, <2>3
<1>8. open' => ~failed'
  BY <1>2 DEF VocabularyInv
<1> QED BY <1>2, <1>5, <1>6, <1>7, <1>8 DEF VocabularyInv

LEMMA VocabularyStill ==
    ASSUME VocabularyInv, UNCHANGED Q!vars
    PROVE  VocabularyInv'
<1>1. UNCHANGED <<waiting, taken, retrieved, query, result, answers, stale, open, failed, qresets, qat>>
  BY DEF Q!vars
<1>2. Querying' = Querying
  BY <1>1 DEF Querying
<1>3. QueriesOut' = QueriesOut
  BY <1>1, <1>2 DEF QueriesOut
<1>4. Q!TypeOK'
  BY <1>1 DEF VocabularyInv, Q!TypeOK, Q!Queries, Q!NumThreads
<1>5. QueryBound'
  BY <1>1, <1>3 DEF VocabularyInv, QueryBound, FirstBatch, Q!NumThreads
<1>6. ~stale => QueryPlaces'
  BY <1>1, <1>2, <1>3 DEF VocabularyInv, QueryPlaces, Q!HasFinished
<1> QED BY <1>1, <1>4, <1>5, <1>6 DEF VocabularyInv

LEMMA VocabularyInvariance == Q!QueriesAssumption /\ Q!Spec => []VocabularyInv
<1> SUFFICES ASSUME Q!QueriesAssumption PROVE Q!Spec => []VocabularyInv
  OBVIOUS
<1>1. Q!Init => VocabularyInv
  BY VocabularyStarts
<1>2. VocabularyInv /\ [Q!Next]_(Q!vars) => VocabularyInv'
  <2> SUFFICES ASSUME VocabularyInv, Q!Next \/ UNCHANGED Q!vars
               PROVE  VocabularyInv'
    OBVIOUS
  <2>1. CASE Q!Call
    BY <2>1, SubmitKeeps, PopKeeps, DestroyKeeps DEF Q!Call
  <2>2. CASE Q!Reset
    BY <2>2, ResetKeeps
  <2>3. CASE Q!Destroy
    BY <2>3, DestroyKeeps
  <2>4. CASE \E w \in Retrievers : Q!Work(w)
    BY <2>4, TakeKeeps, PushKeeps, PushFailsKeeps DEF Q!Work
  <2>5. CASE UNCHANGED Q!vars
    BY <2>5, VocabularyStill
  <2> QED BY <2>1, <2>2, <2>3, <2>4, <2>5 DEF Q!Next
<1> QED BY <1>1, <1>2, PTL DEF Q!Spec

(* The type invariant of the generator of the vocabulary tree's pairs: no more *)
(* queries wait than a batch and one for each time it was reset               *)
(* (pairing.cc:312-351, 391-420).                                          *)
THEOREM VocabularyTypeCorrect == Q!QueriesAssumption /\ Q!Spec => []Q!TypeOK
<1>1. VocabularyInv => Q!TypeOK
  BY DEF VocabularyInv
<1> QED BY <1>1, VocabularyInvariance, PTL

(* Every image is answered once, and none is under way when the generator has *)
(* finished, however the threads take turns and whichever queries fail, unless *)
(* Reset() was called while queries were under way (pairing.cc:312-351, 391-420).*)
THEOREM AnsweredAlwaysOnce == Q!QueriesAssumption /\ Q!Spec => []Q!AnsweredOnce
<1>1. Q!UnderWay = QueriesOut
  <2>1. {w \in Retrievers : taken[w] # 0} = Querying
    BY DEF Querying
  <2> QED BY <2>1, VocabularyCardinality DEF Q!UnderWay, QueriesOut
<1>2. VocabularyInv => Q!AnsweredOnce
  BY <1>1, VocabularyCardinality DEF VocabularyInv, QueryPlaces, Q!AnsweredOnce
<1> QED BY <1>2, VocabularyInvariance, PTL

(* What the generators return, and what is matched of it, all at once.       *)
THEOREM MatchingComplete ==
    G!OptionsAssumption /\ Q!QueriesAssumption /\ Spec /\ G!Spec /\ Q!Spec => []EveryPairMatched
<1>1. AllMatched /\ G!PairsComplete /\ Q!AnsweredOnce => EveryPairMatched
  BY DEF EveryPairMatched
<1> QED BY NoneLeftOut, AllPairsReturned, AnsweredAlwaysOnce, <1>1, PTL
================================================================================

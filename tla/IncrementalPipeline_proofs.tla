----------------------- MODULE IncrementalPipeline_proofs -----------------------
(***************************************************************************)
(* The incremental pipeline, for any images in any frames and any options,  *)
(* and the search for its initial pairs, for any number of workers and any  *)
(* images in any order.  And the union-find with what is made of it: the    *)
(* parts of a model, for any scene, and the tracks of the global mapper,    *)
(* for any matches.                                                         *)
(***************************************************************************)
EXTENDS MappingSearch, UnionFind, Integers, FiniteSetTheorems, NaturalsInduction,
        WellFoundedInduction, SequenceTheorems, TLAPS

-----------------------------------------------------------------------------
(* The search for an initial pair: no task outlives the call, no pair is      *)
(* estimated twice at once, and the search fails only when it has looked at   *)
(* every good pair.                                                          *)
Busy(w) == work[w].at # "free"
Estimates(w) == work[w].at = "estimate"
PairAt(n, k) == P!PairId(P!PairsOf(n)[k])
Pair(w) == PairAt(work[w].task, work[w].pos)

Shapes ==
    /\ work \in [Workers -> [at : {"free", "begin", "check", "claim", "estimate"},
                             task : Nat, pos : Nat]]
    /\ info = [n \in P!Tasks |-> info[n]]
    /\ ready \subseteq P!Tasks /\ next \in 1 .. Len(First) + 1 /\ awaited \in Nat \ {0}
    /\ stop \in BOOLEAN
    /\ good \subseteq P!AllPairs
    /\ caller \in {"waiting", "stopping", "returned"}

(* P!Tasks begin in order.  A task is with one worker, and has no value while it *)
(* is.                                                                       *)
InOrder == \A n \in ready : n < next
TasksHeld ==
    \A w \in Workers : Busy(w) =>
        /\ work[w].task \in P!Tasks /\ work[w].task < next /\ work[w].task \notin ready
        /\ \A v \in Workers : v # w /\ Busy(v) => work[v].task # work[w].task

(* What is behind a worker on its walk is in the set, and what it estimates,  *)
(* which nobody else does.                                                   *)
PairsClaimed ==
    \A w \in Workers :
        /\ Busy(w) => work[w].pos > 0
        /\ Busy(w) => \A k \in DOMAIN P!PairsOf(work[w].task) :
                         k < work[w].pos => PairAt(work[w].task, k) \in tried_pairs
        /\ work[w].at \in {"claim", "estimate"} =>
              work[w].pos \in DOMAIN P!PairsOf(work[w].task)
        /\ Estimates(w) =>
              /\ Pair(w) \in tried_pairs
              /\ \A v \in Workers : v # w /\ Estimates(v) => Pair(v) # Pair(w)

(* Only a success stops the search, and it leaves a value.                    *)
StopMeansSuccess == stop => \E n \in ready : info[n] # <<>>
ReadyMeansWalked ==
    ~stop => \A n \in ready : \A k \in DOMAIN P!PairsOf(n) : PairAt(n, k) \in tried_pairs
GoodIsFound ==
    \A p \in good \cap tried_pairs :
        p \in before \/ stop \/ \E w \in Workers : Estimates(w) /\ Pair(w) = p

(* The caller has passed the futures that had no success, and gives up after  *)
(* the last one.                                                             *)
CallerWaits ==
    /\ \A n \in P!Tasks : n < awaited => n \in ready /\ info[n] = <<>>
    /\ caller # "waiting" /\ result = <<>> => awaited > Len(First)
    /\ caller = "returned" => next = Len(First) + 1 /\ \A w \in Workers : ~Busy(w)

SearchInv ==
    /\ Shapes /\ InOrder /\ TasksHeld /\ PairsClaimed /\ StopMeansSuccess
    /\ ReadyMeansWalked /\ GoodIsFound /\ CallerWaits

-----------------------------------------------------------------------------
LEMMA Indices ==
    ASSUME P!SearchAssumption
    PROVE  /\ Len(First) \in Nat /\ P!Tasks = 1 .. Len(First)
           /\ \A n \in P!Tasks : \E l \in Nat : DOMAIN P!PairsOf(n) = 1 .. l
<1>1. Len(First) \in Nat /\ P!Tasks = 1 .. Len(First)
  BY DEF P!SearchAssumption, P!Tasks
<1>2. ASSUME NEW n \in P!Tasks PROVE \E l \in Nat : DOMAIN P!PairsOf(n) = 1 .. l
  <2>1. First[n] \in DOMAIN Second
    BY <1>1 DEF P!SearchAssumption
  <2> QED BY <2>1 DEF P!SearchAssumption, P!PairsOf
<1> QED BY <1>1, <1>2

LEMMA NoEmptyPair == ASSUME NEW a, NEW b PROVE <<a, b>> # <<>>
<1>1. Len(<<a, b>>) = 2 /\ Len(<<>>) = 0
  OBVIOUS
<1> QED BY <1>1

LEMMA SearchInit == P!SearchAssumption /\ P!Init => SearchInv
<1> SUFFICES ASSUME P!SearchAssumption, P!Init PROVE SearchInv
  OBVIOUS
<1>1. \A w \in Workers : ~Busy(w) /\ ~Estimates(w) /\ work[w].at = "free"
  BY DEF P!Init, Busy, Estimates, P!Free
<1>2. Shapes
  <2>1. info = [n \in P!Tasks |-> info[n]]
    BY DEF P!Init
  <2>2. next \in 1 .. Len(First) + 1
    BY Indices DEF P!Init
  <2>3. work \in [Workers -> [at : {"free", "begin", "check", "claim", "estimate"},
                             task : Nat, pos : Nat]]
    BY DEF P!Init, P!Free
  <2>4. awaited \in Nat \ {0} /\ caller \in {"waiting", "stopping", "returned"}
    BY DEF P!Init
  <2> QED BY <2>1, <2>2, <2>3, <2>4 DEF P!Init, Shapes
<1> QED BY <1>1, <1>2, Indices DEF P!Init, SearchInv, InOrder, TasksHeld, PairsClaimed,
           StopMeansSuccess,
      ReadyMeansWalked, GoodIsFound, CallerWaits

(* A worker goes on with its task, and claims at most the pair that it is to  *)
(* estimate next.                                                            *)
LEMMA Moves ==
    ASSUME P!SearchAssumption, SearchInv, NEW w \in Workers, Busy(w),
           NEW at \in {"check", "claim", "estimate"}, NEW pos \in Nat, pos > 0,
           work' \in [Workers -> [at : {"free", "begin", "check", "claim", "estimate"},
                                  task : Nat, pos : Nat]],
           \A v \in Workers : v # w => work'[v] = work[v],
           work'[w].at = at, work'[w].task = work[w].task, work'[w].pos = pos,
           tried_pairs \subseteq tried_pairs',
           \A p \in tried_pairs' \ tried_pairs :
               at = "estimate" /\ p = PairAt(work[w].task, pos),
           at = "estimate" => PairAt(work[w].task, pos) \in tried_pairs' \ tried_pairs,
           at # "check" => pos \in DOMAIN P!PairsOf(work[w].task),
           \A k \in DOMAIN P!PairsOf(work[w].task) :
               k < pos => PairAt(work[w].task, k) \in tried_pairs',
           Estimates(w) => Pair(w) \notin good,
           UNCHANGED <<good, before, stop, next, ready, info, awaited, caller, result>>
    PROVE  SearchInv'
<1>1. \A v \in Workers : v # w => work'[v] = work[v]
  OBVIOUS
<1>2. work'[w].at = at /\ work'[w].task = work[w].task /\ work'[w].pos = pos
  OBVIOUS
<1>3. \A v \in Workers : Busy(v)' <=> Busy(v)
  BY <1>1, <1>2 DEF Busy
<1>4. \A v \in Workers : work'[v].task = work[v].task
  BY <1>1, <1>2
<1>5. \A v \in Workers : v # w => (Estimates(v)' <=> Estimates(v)) /\ Pair(v)' = Pair(v)
  <2>1. \A v \in Workers : v # w => (Estimates(v)' <=> Estimates(v))
    BY <1>1 DEF Estimates
  <2>2. \A v \in Workers : v # w => Pair(v)' = Pair(v)
    BY <1>1 DEF Pair
  <2> QED BY <2>1, <2>2
<1>6. Pair(w)' = PairAt(work[w].task, pos) /\ (Estimates(w)' <=> at = "estimate")
  <2>1. Pair(w)' = PairAt(work[w].task, pos)
    BY <1>2 DEF Pair
  <2>2. Estimates(w)' <=> at = "estimate"
    BY <1>2 DEF Estimates
  <2> QED BY <2>1, <2>2
<1>7. Shapes'
  BY DEF SearchInv, Shapes, P!AllPairs, P!PairsOf, P!PairId, P!Tasks
<1>8. TasksHeld' /\ InOrder'
  BY <1>3, <1>4 DEF SearchInv, TasksHeld, InOrder
<1>9. PairsClaimed'
  <2> SUFFICES ASSUME NEW v \in Workers PROVE
        /\ Busy(v)' => work'[v].pos > 0
        /\ Busy(v)' => \A k \in DOMAIN P!PairsOf(work'[v].task) :
                         k < work'[v].pos => PairAt(work'[v].task, k) \in tried_pairs'
        /\ work'[v].at \in {"claim", "estimate"} =>
              work'[v].pos \in DOMAIN P!PairsOf(work'[v].task)
        /\ Estimates(v)' =>
              /\ Pair(v)' \in tried_pairs'
              /\ \A u \in Workers : u # v /\ Estimates(u)' => Pair(u)' # Pair(v)'
    BY DEF PairsClaimed, PairAt, P!PairId, P!PairsOf
  <2>1. CASE v = w
    <3>1. \A u \in Workers : u # w /\ Estimates(u)' => Pair(u)' \in tried_pairs
      BY <1>5 DEF SearchInv, PairsClaimed
    <3> QED BY <2>1, <3>1, <1>2, <1>6
  <2>2. CASE v # w
    <3>1. Estimates(v)' => Pair(v)' \in tried_pairs
      BY <2>2, <1>5 DEF SearchInv, PairsClaimed
    <3>2. \A u \in Workers : u # v /\ Estimates(u)' /\ Estimates(v)' => Pair(u)' # Pair(v)'
      BY <2>2, <3>1, <1>5, <1>6 DEF SearchInv, PairsClaimed
    <3> QED BY <2>2, <3>1, <3>2, <1>1, <1>3 DEF SearchInv, PairsClaimed
  <2> QED BY <2>1, <2>2
<1>10. StopMeansSuccess' /\ CallerWaits'
  BY <1>3, SMTT(30) DEF SearchInv, StopMeansSuccess, CallerWaits, P!Tasks
<1>11. ReadyMeansWalked'
  BY DEF SearchInv, ReadyMeansWalked, PairAt, P!PairId, P!PairsOf
<1>12. GoodIsFound'
  <2> SUFFICES ASSUME NEW p \in good, p \in tried_pairs', p \notin before, ~stop
               PROVE  \E v \in Workers : Estimates(v)' /\ Pair(v)' = p
    BY DEF GoodIsFound
  <2>1. CASE p \in tried_pairs
    <3>1. PICK v \in Workers : Estimates(v) /\ Pair(v) = p
      BY <2>1 DEF SearchInv, GoodIsFound
    <3>2. v # w
      BY <3>1
    <3> QED BY <3>1, <3>2, <1>5
  <2>2. CASE p \notin tried_pairs
    BY <2>2, <1>6
  <2> QED BY <2>1, <2>2
<1> QED BY <1>7, <1>8, <1>9, <1>10, <1>11, <1>12 DEF SearchInv

(* A worker ends its task with a value; only with one may it stop the search. *)
LEMMA TaskEnds ==
    ASSUME P!SearchAssumption, SearchInv, NEW w \in Workers, Busy(w), NEW value,
           P!EndTask(w, value),
           stop' \in BOOLEAN, stop => stop', stop' => stop \/ value # <<>>,
           ~stop' => \A k \in DOMAIN P!PairsOf(work[w].task) :
                        PairAt(work[w].task, k) \in tried_pairs,
           Estimates(w) => stop',
           UNCHANGED <<good, before, tried_pairs, next, awaited, caller, result>>
    PROVE  SearchInv'
<1> DEFINE n == work[w].task
<1>1. /\ \A v \in Workers : v # w => work'[v] = work[v]
      /\ work'[w] = P!Free
      /\ ready' = ready \cup {n}
  BY DEF SearchInv, Shapes, P!EndTask
<1>2. n \in P!Tasks /\ n \notin ready
  BY DEF SearchInv, TasksHeld
<1>3. info'[n] = value /\ \A m \in P!Tasks : m # n => info'[m] = info[m]
  BY <1>2 DEF SearchInv, Shapes, P!EndTask
<1>4. ~Busy(w)' /\ ~Estimates(w)' /\ work'[w].at = "free"
  BY <1>1, SMTT(30) DEF Busy, Estimates, P!Free
<1>5. \A v \in Workers : v # w =>
          (Busy(v)' <=> Busy(v)) /\ (Estimates(v)' <=> Estimates(v)) /\ Pair(v)' = Pair(v)
  BY <1>1 DEF Busy, Estimates, Pair, PairAt, P!PairId, P!PairsOf
<1>6. Shapes'
  <2>1. work' \in [Workers -> [at : {"free", "begin", "check", "claim", "estimate"},
                               task : Nat, pos : Nat]]
    BY DEF SearchInv, Shapes, P!EndTask, P!Free
  <2>2. info' = [m \in P!Tasks |-> info'[m]]
    BY DEF SearchInv, Shapes, P!EndTask
  <2> QED BY <2>1, <2>2, <1>1, <1>2 DEF SearchInv, Shapes, P!AllPairs, P!PairsOf, P!PairId,
             P!Tasks
<1>7. TasksHeld'
  <2> SUFFICES ASSUME NEW v \in Workers, Busy(v)'
               PROVE  /\ work'[v].task \in P!Tasks /\ work'[v].task < next
                      /\ work'[v].task \notin ready'
                      /\ \A u \in Workers : u # v /\ Busy(u)' => work'[u].task # work'[v].task
    BY DEF TasksHeld, P!Tasks
  <2>1. v # w /\ Busy(v)
    BY <1>4, <1>5
  <2>2. work[v].task # n
    BY <2>1 DEF SearchInv, TasksHeld
  <2> QED BY <2>1, <2>2, <1>1, <1>4, <1>5 DEF SearchInv, TasksHeld
<1>13. InOrder'
  BY <1>1, SMTT(30) DEF SearchInv, TasksHeld, InOrder
<1>8. PairsClaimed'
  BY <1>1, <1>4, <1>5, ZenonT(40) DEF SearchInv, PairsClaimed, PairAt, P!PairId, P!PairsOf
<1>9. StopMeansSuccess'
  <2>1. CASE value # <<>>
    BY <2>1, <1>1, <1>3 DEF StopMeansSuccess
  <2>2. CASE stop
    <3>1. PICK m \in ready : info[m] # <<>>
      BY <2>2 DEF SearchInv, StopMeansSuccess
    <3>2. m \in P!Tasks /\ m # n
      BY <1>2, <3>1 DEF SearchInv, Shapes
    <3> QED BY <3>1, <3>2, <1>1, <1>3 DEF StopMeansSuccess
  <2> QED BY <2>1, <2>2 DEF StopMeansSuccess
<1>10. ReadyMeansWalked'
  BY <1>1 DEF SearchInv, ReadyMeansWalked, PairAt, P!PairId, P!PairsOf
<1>11. GoodIsFound'
  <2> SUFFICES ASSUME NEW p \in good, p \in tried_pairs, p \notin before, ~stop'
               PROVE  \E v \in Workers : Estimates(v)' /\ Pair(v)' = p
    BY DEF GoodIsFound
  <2>1. PICK v \in Workers : Estimates(v) /\ Pair(v) = p
    BY DEF SearchInv, GoodIsFound
  <2>2. v # w
    BY <2>1
  <2> QED BY <2>1, <2>2, <1>5
<1>12. CallerWaits'
  <2>1. \A m \in P!Tasks : m < awaited => m \in ready' /\ info'[m] = <<>>
    BY <1>1, <1>2, <1>3 DEF SearchInv, CallerWaits
  <2>2. caller = "returned" => next = Len(First) + 1 /\ \A v \in Workers : ~Busy(v)'
    BY <1>4, <1>5 DEF SearchInv, CallerWaits
  <2> QED BY <2>1, <2>2 DEF SearchInv, CallerWaits, P!Tasks
<1> QED BY <1>6, <1>7, <1>8, <1>9, <1>10, <1>11, <1>12, <1>13 DEF SearchInv

-----------------------------------------------------------------------------
LEMMA BeginInductive ==
    ASSUME P!SearchAssumption, SearchInv, NEW w \in Workers, P!Begin(w) PROVE SearchInv'
<1>1. work' = [work EXCEPT ![w] = [at |-> "begin", task |-> next, pos |-> 1]]
  BY DEF P!Begin
<1>2. next \in P!Tasks /\ next' = next + 1 /\ next \in Nat /\ ~Busy(w)
  BY Indices DEF P!Begin, Busy
<1>3. /\ \A v \in Workers : v # w => work'[v] = work[v]
      /\ work'[w] = [at |-> "begin", task |-> next, pos |-> 1]
  BY <1>1 DEF SearchInv, Shapes
<1>4. Busy(w)' /\ ~Estimates(w)'
  BY <1>3 DEF Busy, Estimates
<1>5. \A v \in Workers : v # w => (Busy(v)' <=> Busy(v))
  BY <1>3 DEF Busy
<1>6. \A v \in Workers : v # w => (Estimates(v)' <=> Estimates(v))
  BY <1>3 DEF Estimates
<1>7. \A v \in Workers : v # w => Pair(v)' = Pair(v)
  BY <1>3 DEF Pair
<1>8. UNCHANGED <<good, before, tried_pairs, stop, ready, info, awaited, caller, result>>
  BY DEF P!Begin
<1>9. Shapes'
  <2>1. work' \in [Workers -> [at : {"free", "begin", "check", "claim", "estimate"},
                               task : Nat, pos : Nat]]
    BY <1>1, <1>2 DEF SearchInv, Shapes
  <2>2. next' \in 1 .. Len(First) + 1
    BY <1>2, Indices
  <2> QED BY <2>1, <2>2, <1>8 DEF SearchInv, Shapes, P!AllPairs, P!PairsOf, P!PairId, P!Tasks
<1>10. next \notin ready /\ \A v \in Workers : Busy(v) => work[v].task < next
  <2>1. next \notin ready
    BY <1>2 DEF SearchInv, InOrder
  <2> QED BY <2>1 DEF SearchInv, TasksHeld
<1>11. TasksHeld'
  <2> SUFFICES ASSUME NEW v \in Workers, Busy(v)'
               PROVE  /\ work'[v].task \in P!Tasks /\ work'[v].task < next'
                      /\ work'[v].task \notin ready'
                      /\ \A u \in Workers : u # v /\ Busy(u)' => work'[u].task # work'[v].task
    BY DEF TasksHeld, P!Tasks
  <2>1. \A u \in Workers : Busy(u) => work[u].task \in Nat /\ work[u].task # next
    BY <1>2, <1>10 DEF SearchInv, Shapes
  <2>2. CASE v = w
    BY <2>1, <2>2, <1>2, <1>3, <1>5, <1>8, <1>10
  <2>3. CASE v # w
    BY <2>1, <2>3, <1>2, <1>3, <1>5, <1>8 DEF SearchInv, TasksHeld
  <2> QED BY <2>2, <2>3
<1>12. InOrder'
  BY <1>2, <1>8, Indices DEF SearchInv, InOrder, Shapes
<1>13. PairsClaimed'
  <2>1. \A k \in DOMAIN P!PairsOf(next) : ~(k < 1)
    BY <1>2, Indices
  <2>2. /\ 1 > 0 /\ work'[w].pos = 1 /\ work'[w].task = next
        /\ work'[w].at \notin {"claim", "estimate"}
    BY <1>3
  <2>3. \A v \in Workers : Estimates(v)' => v # w
    BY <1>4, SMTT(30)
  <2> SUFFICES ASSUME NEW v \in Workers PROVE
        /\ Busy(v)' => work'[v].pos > 0
        /\ Busy(v)' => \A k \in DOMAIN P!PairsOf(work'[v].task) :
                         k < work'[v].pos => PairAt(work'[v].task, k) \in tried_pairs'
        /\ work'[v].at \in {"claim", "estimate"} =>
              work'[v].pos \in DOMAIN P!PairsOf(work'[v].task)
        /\ Estimates(v)' =>
              /\ Pair(v)' \in tried_pairs'
              /\ \A u \in Workers : u # v /\ Estimates(u)' => Pair(u)' # Pair(v)'
    BY DEF PairsClaimed, PairAt, P!PairId, P!PairsOf
  <2>4. CASE v = w
    BY <2>1, <2>2, <2>3, <2>4
  <2>5. CASE v # w
    BY <2>3, <2>5, <1>3, <1>5, <1>6, <1>7, <1>8 DEF SearchInv, PairsClaimed
  <2> QED BY <2>4, <2>5
<1>14. StopMeansSuccess'
  BY <1>8 DEF SearchInv, StopMeansSuccess
<1>15. ReadyMeansWalked'
  BY <1>8 DEF SearchInv, ReadyMeansWalked, PairAt, P!PairId, P!PairsOf
<1>16. GoodIsFound'
  <2> SUFFICES ASSUME NEW p \in good, p \in tried_pairs, p \notin before, ~stop
               PROVE  \E v \in Workers : Estimates(v)' /\ Pair(v)' = p
    BY <1>8 DEF GoodIsFound
  <2>1. PICK v \in Workers : Estimates(v) /\ Pair(v) = p
    BY DEF SearchInv, GoodIsFound
  <2>2. v # w
    BY <2>1, <1>2 DEF Estimates, Busy
  <2> QED BY <2>1, <2>2, <1>6, <1>7
<1>17. CallerWaits'
  <2>1. caller # "returned"
    BY <1>2, Indices DEF SearchInv, CallerWaits
  <2> QED BY <2>1, <1>8 DEF SearchInv, CallerWaits, P!Tasks
<1> QED BY <1>9, <1>11, <1>12, <1>13, <1>14, <1>15, <1>16, <1>17 DEF SearchInv

(* What a worker knows of its own pair. *)
LEMMA Own ==
    ASSUME P!SearchAssumption, SearchInv, NEW w \in Workers, Busy(w)
    PROVE  /\ work[w] \in [at : {"free", "begin", "check", "claim", "estimate"},
                           task : Nat, pos : Nat]
           /\ work[w].pos \in Nat /\ work[w].pos > 0 /\ work[w].task \in P!Tasks
           /\ \E l \in Nat : DOMAIN P!PairsOf(work[w].task) = 1 .. l
<1>1. work[w].task \in P!Tasks
  BY DEF SearchInv, TasksHeld
<1> QED BY <1>1, Indices DEF SearchInv, Shapes, PairsClaimed

LEMMA CheckInductive ==
    ASSUME P!SearchAssumption, SearchInv, NEW w \in Workers, P!CheckStop(w) PROVE SearchInv'
<1>1. Busy(w) /\ ~Estimates(w)
  BY DEF P!CheckStop, Busy, Estimates
<1>2. CASE stop \/ (work[w].at = "check" /\ work[w].pos \notin DOMAIN P!PairsOf(work[w].task))
  <2>1. ~stop => \A k \in DOMAIN P!PairsOf(work[w].task) : k < work[w].pos
    BY <1>1, <1>2, Own
  <2>2. ~stop => \A k \in DOMAIN P!PairsOf(work[w].task) :
                    PairAt(work[w].task, k) \in tried_pairs
    BY <1>1, <2>1 DEF SearchInv, PairsClaimed
  <2>3. /\ P!EndTask(w, <<>>)
        /\ UNCHANGED <<good, before, tried_pairs, stop, next, awaited, caller, result>>
        /\ stop' \in BOOLEAN
    BY <1>2 DEF P!CheckStop, SearchInv, Shapes
  <2> QED BY <1>1, <2>2, <2>3, TaskEnds
<1>3. CASE ~(stop \/ (work[w].at = "check" /\ work[w].pos \notin DOMAIN P!PairsOf(work[w].task)))
  <2> DEFINE at == IF work[w].at = "begin" THEN "check" ELSE "claim"
  <2>1. /\ work' \in [Workers -> [at : {"free", "begin", "check", "claim", "estimate"},
                                   task : Nat, pos : Nat]]
        /\ \A v \in Workers : v # w => work'[v] = work[v]
        /\ work'[w].at = at /\ work'[w].task = work[w].task /\ work'[w].pos = work[w].pos
    <3>1. work' = [work EXCEPT ![w].at = at]
      BY <1>3 DEF P!CheckStop
    <3> QED BY <3>1 DEF SearchInv, Shapes
  <2>2. at \in {"check", "claim", "estimate"} /\ at # "estimate"
    OBVIOUS
  <2>3. at # "check" => work[w].pos \in DOMAIN P!PairsOf(work[w].task)
    BY <1>3 DEF P!CheckStop
  <2>4. UNCHANGED <<good, before, tried_pairs, stop, next, ready, info, awaited,
                    caller, result>>
    BY <1>3 DEF P!CheckStop
  <2>5. \A k \in DOMAIN P!PairsOf(work[w].task) :
            k < work[w].pos => PairAt(work[w].task, k) \in tried_pairs'
    BY <1>1, <2>4 DEF SearchInv, PairsClaimed
  <2>6. work[w].pos \in Nat /\ work[w].pos > 0
    BY <1>1, Own
  <2> HIDE DEF at
  <2> QED BY <1>1, <2>1, <2>2, <2>3, <2>4, <2>5, <2>6, Moves
<1> QED BY <1>2, <1>3

LEMMA ClaimInductive ==
    ASSUME P!SearchAssumption, SearchInv, NEW w \in Workers, P!Claim(w) PROVE SearchInv'
<1> DEFINE p == PairAt(work[w].task, work[w].pos)
<1>1. Busy(w) /\ ~Estimates(w) /\ work[w].pos \in DOMAIN P!PairsOf(work[w].task)
  BY DEF P!Claim, Busy, Estimates, SearchInv, PairsClaimed
<1>2. /\ tried_pairs' = tried_pairs \cup {p}
      /\ UNCHANGED <<good, before, stop, next, ready, info, awaited, caller, result>>
  BY DEF P!Claim, PairAt
<1>3. work[w].pos \in Nat /\ work[w].pos > 0 /\ work[w].pos + 1 \in Nat /\ work[w].pos + 1 > 0
  BY <1>1, Own
<1>4. \A k \in DOMAIN P!PairsOf(work[w].task) :
          k < work[w].pos => PairAt(work[w].task, k) \in tried_pairs'
  BY <1>1, <1>2 DEF SearchInv, PairsClaimed
<1>5. CASE p \in tried_pairs
  <2>1. /\ work' \in [Workers -> [at : {"free", "begin", "check", "claim", "estimate"},
                                   task : Nat, pos : Nat]]
        /\ \A v \in Workers : v # w => work'[v] = work[v]
        /\ work'[w].at = "check" /\ work'[w].task = work[w].task /\ work'[w].pos = work[w].pos + 1
    <3>1. work' = P!NextPair(w)
      BY <1>5 DEF P!Claim, PairAt
    <3> QED BY <3>1 DEF P!NextPair, SearchInv, Shapes
  <2>2. \A k \in DOMAIN P!PairsOf(work[w].task) :
            k < work[w].pos + 1 => PairAt(work[w].task, k) \in tried_pairs'
    <3>1. \A k \in DOMAIN P!PairsOf(work[w].task) : k \in Nat
      BY <1>1, Own
    <3> QED BY <3>1, <1>2, <1>3, <1>4
  <2>3. tried_pairs' = tried_pairs
    BY <1>2, <1>5
  <2> HIDE DEF p
  <2> QED BY <1>1, <1>2, <1>3, <2>1, <2>2, <2>3, Moves
<1>6. CASE p \notin tried_pairs
  <2>1. /\ work' \in [Workers -> [at : {"free", "begin", "check", "claim", "estimate"},
                                   task : Nat, pos : Nat]]
        /\ \A v \in Workers : v # w => work'[v] = work[v]
        /\ work'[w].at = "estimate" /\ work'[w].task = work[w].task /\ work'[w].pos = work[w].pos
    <3>1. work' = [work EXCEPT ![w].at = "estimate"]
      BY <1>6 DEF P!Claim, PairAt
    <3> QED BY <3>1 DEF SearchInv, Shapes
  <2>2. tried_pairs' \ tried_pairs = {PairAt(work[w].task, work[w].pos)}
    BY <1>2, <1>6
  <2> HIDE DEF p
  <2> QED BY <1>1, <1>2, <1>3, <1>4, <2>1, <2>2, Moves
<1> QED BY <1>5, <1>6

LEMMA EstimateInductive ==
    ASSUME P!SearchAssumption, SearchInv, NEW w \in Workers, P!Estimate(w) PROVE SearchInv'
<1> DEFINE p == P!PairsOf(work[w].task)[work[w].pos]
<1>1. Busy(w) /\ Estimates(w) /\ work[w].pos \in DOMAIN P!PairsOf(work[w].task)
  BY DEF P!Estimate, Busy, Estimates, SearchInv, PairsClaimed
<1>2. UNCHANGED <<good, before, tried_pairs, next, awaited, caller, result>>
  BY DEF P!Estimate
<1>3. Pair(w) = P!PairId(p) /\ Pair(w) \in tried_pairs
  BY <1>1 DEF Pair, PairAt, SearchInv, PairsClaimed
<1>4. CASE P!PairId(p) \in good
  <2>1. stop' = TRUE /\ P!EndTask(w, p)
    BY <1>4 DEF P!Estimate
  <2>2. p # <<>>
    <3>1. p = <<First[work[w].task], Second[First[work[w].task]][work[w].pos]>>
      BY <1>1 DEF P!PairsOf
    <3> QED BY <3>1, NoEmptyPair
  <2> HIDE DEF p
  <2> QED BY <1>1, <1>2, <2>1, <2>2, TaskEnds
<1>5. CASE P!PairId(p) \notin good
  <2>1. UNCHANGED <<stop, ready, info>>
    BY <1>5 DEF P!Estimate
  <2>2. /\ work' \in [Workers -> [at : {"free", "begin", "check", "claim", "estimate"},
                                   task : Nat, pos : Nat]]
        /\ \A v \in Workers : v # w => work'[v] = work[v]
        /\ work'[w].at = "check" /\ work'[w].task = work[w].task /\ work'[w].pos = work[w].pos + 1
    <3>1. work' = P!NextPair(w)
      BY <1>5 DEF P!Estimate
    <3> QED BY <3>1 DEF P!NextPair, SearchInv, Shapes
  <2>3. /\ work[w].pos + 1 \in Nat /\ work[w].pos + 1 > 0
        /\ \A k \in DOMAIN P!PairsOf(work[w].task) :
              k < work[w].pos + 1 => PairAt(work[w].task, k) \in tried_pairs'
    <3>1. work[w].pos \in Nat /\ \A k \in DOMAIN P!PairsOf(work[w].task) : k \in Nat
      BY <1>1, Own
    <3>2. \A k \in DOMAIN P!PairsOf(work[w].task) :
              k < work[w].pos \/ k = work[w].pos => PairAt(work[w].task, k) \in tried_pairs
      BY <1>1, <1>3 DEF SearchInv, PairsClaimed, Pair
    <3> QED BY <3>1, <3>2, <1>2
  <2>4. Pair(w) \notin good
    BY <1>3, <1>5
  <2> HIDE DEF p
  <2> QED BY <1>1, <1>2, <2>1, <2>2, <2>3, <2>4, Moves
<1> QED BY <1>4, <1>5

(* The caller changes nothing that a worker looks at, but for the queue. *)
LEMMA CallerInductive == ASSUME P!SearchAssumption, SearchInv, P!Caller PROVE SearchInv'
<1>1. UNCHANGED <<good, before, tried_pairs, stop, work, ready, info>>
  BY DEF P!Caller, P!TakeResult, P!NoSuccess, P!StopPool
<1>2. /\ next' \in 1 .. Len(First) + 1 /\ next' \in {next, Len(First) + 1}
      /\ caller' = "returned" /\ caller # "returned" =>
             next' = Len(First) + 1 /\ \A w \in Workers : ~Busy(w)
      /\ caller = "returned" => next' = next
  <2>1. next \in 1 .. Len(First) + 1 /\ Len(First) \in Nat
    BY Indices DEF SearchInv, Shapes
  <2> QED BY <2>1 DEF P!Caller, P!TakeResult, P!NoSuccess, P!StopPool, Busy
<1>3. (\A w \in Workers : Busy(w)' <=> Busy(w)) /\ (\A w \in Workers : Estimates(w)' <=> Estimates(w))
  BY <1>1 DEF Busy, Estimates
<1>4. \A w \in Workers : Pair(w)' = Pair(w)
  BY <1>1 DEF Pair
<1>5. next' >= next /\ next \in Nat /\ next' \in Nat
  BY <1>2, Indices DEF SearchInv, Shapes
<1>6. /\ awaited' \in Nat \ {0} /\ caller' \in {"waiting", "stopping", "returned"}
      /\ \A n \in P!Tasks : n < awaited' => n \in ready /\ info[n] = <<>>
  <2>1. CASE P!TakeResult
    <3>1. \A n \in P!Tasks : n < awaited + 1 => n < awaited \/ n = awaited
      BY Indices DEF SearchInv, Shapes
    <3> QED BY <2>1, <3>1 DEF P!TakeResult, SearchInv, Shapes, CallerWaits
  <2>2. CASE ~P!TakeResult
    BY <2>2 DEF P!Caller, P!NoSuccess, P!StopPool, SearchInv, Shapes, CallerWaits
  <2> QED BY <2>1, <2>2
<1>7. Shapes'
  BY <1>1, <1>2, <1>6 DEF SearchInv, Shapes, P!AllPairs, P!PairsOf, P!PairId, P!Tasks
<1>8. InOrder'
  BY <1>1, <1>5, Indices DEF SearchInv, InOrder, Shapes
<1>9. TasksHeld'
  <2>1. \A w \in Workers : Busy(w) => work[w].task \in Nat
    BY SMTT(30) DEF SearchInv, Shapes
  <2> QED BY <1>1, <1>3, <1>5, <2>1 DEF SearchInv, TasksHeld, P!Tasks
<1>10. PairsClaimed'
  BY <1>1, <1>3, <1>4 DEF SearchInv, PairsClaimed, PairAt, P!PairId, P!PairsOf
<1>11. StopMeansSuccess' /\ ReadyMeansWalked'
  BY <1>1 DEF SearchInv, StopMeansSuccess, ReadyMeansWalked, PairAt, P!PairId, P!PairsOf
<1>12. GoodIsFound'
  BY <1>1, <1>3, <1>4 DEF SearchInv, GoodIsFound
<1>13. caller' # "waiting" /\ result' = <<>> => awaited' > Len(First)
  BY DEF SearchInv, CallerWaits, P!Caller, P!TakeResult, P!NoSuccess, P!StopPool
<1>14. caller' = "returned" => next' = Len(First) + 1 /\ \A w \in Workers : ~Busy(w)'
  BY <1>2, <1>3 DEF SearchInv, CallerWaits
<1>15. CallerWaits'
  BY <1>1, <1>6, <1>13, <1>14 DEF CallerWaits, P!Tasks
<1> QED BY <1>7, <1>8, <1>9, <1>10, <1>11, <1>12, <1>15 DEF SearchInv

(* The invariant of the search (incremental_mapper_impl.cc:232-311).          *)
LEMMA SearchInvariance == ASSUME P!SearchAssumption PROVE P!Spec => []SearchInv
<1>1. SearchInv /\ [P!Next]_(P!vars) => SearchInv'
  <2> SUFFICES ASSUME SearchInv, [P!Next]_(P!vars) PROVE SearchInv'
    OBVIOUS
  <2>1. CASE P!Caller
    BY <2>1, P!SearchAssumption, CallerInductive
  <2>2. ASSUME NEW w \in Workers, P!Worker(w) PROVE SearchInv'
    BY <2>2, P!SearchAssumption, BeginInductive, CheckInductive, ClaimInductive, EstimateInductive
       DEF P!Worker
  <2>3. CASE UNCHANGED P!vars
    <3>1. \A w \in Workers : (Busy(w)' <=> Busy(w)) /\ (Estimates(w)' <=> Estimates(w))
      BY <2>3 DEF P!vars, Busy, Estimates
    <3>2. \A w \in Workers : Pair(w)' = Pair(w)
      BY <2>3 DEF P!vars, Pair
    <3>3. Shapes' /\ InOrder' /\ CallerWaits' /\ StopMeansSuccess'
      BY <2>3, <3>1 DEF P!vars, SearchInv, Shapes, InOrder, CallerWaits, StopMeansSuccess,
         P!AllPairs,
                        P!PairsOf, P!PairId, P!Tasks
    <3>4. TasksHeld' /\ GoodIsFound'
      BY <2>3, <3>1, <3>2, SMTT(30) DEF P!vars, SearchInv, TasksHeld, GoodIsFound, P!Tasks
    <3>5. PairsClaimed' /\ ReadyMeansWalked'
      BY <2>3, <3>1, <3>2 DEF P!vars, SearchInv, PairsClaimed, ReadyMeansWalked, PairAt,
         P!PairId, P!PairsOf
    <3> QED BY <3>3, <3>4, <3>5 DEF SearchInv
  <2> QED BY <2>1, <2>2, <2>3 DEF P!Next, P!Done
<1>2. P!Init => SearchInv
  BY P!SearchAssumption, SearchInit
<1> QED BY <1>1, <1>2, PTL DEF P!Spec

(* The pairs that are tried, found or returned are pairs of images that match. *)
PairsAreListed ==
    /\ before \subseteq P!AllPairs /\ tried_pairs \subseteq P!AllPairs
    /\ \A n \in P!Tasks : info[n] = <<>> \/ P!PairId(info[n]) \in P!AllPairs
    /\ awaited <= Len(First) + 1

LEMMA PairsStayListed ==
    ASSUME P!SearchAssumption, SearchInv, PairsAreListed, [P!Next]_(P!vars)
    PROVE  PairsAreListed'
<1>1. ASSUME NEW w \in Workers, work[w].at \in {"claim", "estimate"}
      PROVE  P!PairId(P!PairsOf(work[w].task)[work[w].pos]) \in P!AllPairs
  <2>1. work[w].task \in P!Tasks /\ work[w].pos \in DOMAIN P!PairsOf(work[w].task)
    BY <1>1 DEF SearchInv, TasksHeld, PairsClaimed, Busy
  <2> QED BY <2>1 DEF P!AllPairs
<1>2. Len(First) \in Nat /\ P!Tasks = 1 .. Len(First) /\ awaited \in Nat
  BY Indices DEF SearchInv, Shapes
<1>3. DOMAIN info = P!Tasks
  BY DEF SearchInv, Shapes
<1>4. CASE \E w \in Workers : P!Begin(w)
  BY <1>4 DEF P!Begin, PairsAreListed
<1>5. ASSUME NEW w \in Workers, P!CheckStop(w) PROVE PairsAreListed'
  <2>1. UNCHANGED info \/ info' = [info EXCEPT ![work[w].task] = <<>>]
    BY <1>5 DEF P!CheckStop, P!EndTask
  <2>2. \A n \in P!Tasks : info'[n] = info[n] \/ info'[n] = <<>>
    BY <1>3, <2>1
  <2> QED BY <1>5, <2>2 DEF P!CheckStop, PairsAreListed
<1>6. ASSUME NEW w \in Workers, P!Claim(w) PROVE PairsAreListed'
  BY <1>1, <1>6 DEF P!Claim, PairsAreListed
<1>7. ASSUME NEW w \in Workers, P!Estimate(w) PROVE PairsAreListed'
  <2> DEFINE p == P!PairsOf(work[w].task)[work[w].pos]
  <2>1. UNCHANGED info \/ info' = [info EXCEPT ![work[w].task] = p]
    BY <1>7 DEF P!Estimate, P!EndTask
  <2>2. P!PairId(p) \in P!AllPairs
    BY <1>1, <1>7 DEF P!Estimate
  <2> HIDE DEF p
  <2>3. \A n \in P!Tasks : info'[n] = info[n] \/ info'[n] = p
    BY <1>3, <2>1
  <2>4. UNCHANGED <<before, tried_pairs, awaited>>
    BY <1>7 DEF P!Estimate
  <2> QED BY <2>2, <2>3, <2>4 DEF PairsAreListed
<1>8. CASE P!TakeResult
  <2>1. awaited \in P!Tasks
    BY <1>8 DEF P!TakeResult, SearchInv, Shapes
  <2> QED BY <1>2, <1>8, <2>1 DEF P!TakeResult, PairsAreListed
<1>9. CASE P!NoSuccess \/ P!StopPool \/ P!Done \/ UNCHANGED P!vars
  BY <1>9 DEF P!NoSuccess, P!StopPool, P!Done, P!vars, PairsAreListed
<1> QED BY <1>4, <1>5, <1>6, <1>7, <1>8, <1>9 DEF P!Next, P!Caller, P!Worker

(* The search holds tasks, pairs and futures of the images that it was given   *)
(* (sfm/incremental_mapper_impl.cc:233-330).                                 *)
THEOREM SearchTypeCorrect == ASSUME P!SearchAssumption PROVE P!Spec => []P!TypeOK
<1>1. ASSUME P!Init PROVE PairsAreListed
  BY <1>1, Indices DEF P!Init, PairsAreListed
<1>2. ASSUME SearchInv, PairsAreListed PROVE P!TypeOK
  <2>1. \A w \in Workers :
          /\ work[w].at \in {"free", "begin", "check", "claim", "estimate"}
          /\ work[w].at # "free" => work[w].task \in P!Tasks
          /\ work[w].at \in {"claim", "estimate"} =>
                work[w].pos \in DOMAIN P!PairsOf(work[w].task)
    BY <1>2 DEF SearchInv, Shapes, TasksHeld, PairsClaimed, Busy
  <2>2. awaited \in 1 .. Len(First) + 1
    BY <1>2, Indices, P!SearchAssumption DEF SearchInv, Shapes, PairsAreListed
  <2> QED BY <1>2, <2>1, <2>2 DEF P!TypeOK, SearchInv, Shapes, PairsAreListed
<1>3. SearchInv /\ PairsAreListed /\ [P!Next]_(P!vars) => PairsAreListed'
  BY PairsStayListed, P!SearchAssumption
<1>4. P!Spec => []SearchInv
  BY P!SearchAssumption, SearchInvariance
<1>5. P!Init => PairsAreListed
  BY <1>1
<1>6. SearchInv /\ PairsAreListed => P!TypeOK
  BY <1>2
<1> QED BY <1>3, <1>4, <1>5, <1>6, PTL DEF P!Spec

(* The tasks use the caller's locals by reference: none runs when it has      *)
(* returned, and no two estimate the same pair.                              *)
THEOREM NoTaskOutlives == ASSUME P!SearchAssumption PROVE P!Spec => []P!NoTaskOutlivesCall
<1>1. SearchInv => P!NoTaskOutlivesCall
  BY DEF SearchInv, CallerWaits, PairsClaimed, P!NoTaskOutlivesCall, Busy, Estimates, Pair, PairAt
<1>2. P!Spec => []SearchInv
  BY P!SearchAssumption, SearchInvariance
<1> QED BY <1>1, <1>2, PTL

(* The search returns without a pair only when no good pair was left untried, *)
(* although every success makes the other tasks give up.                     *)
THEOREM FailureIsTrue == ASSUME P!SearchAssumption PROVE P!Spec => []P!FailsOnlyWithoutPair
<1>1. SearchInv => P!FailsOnlyWithoutPair
  <2> SUFFICES ASSUME SearchInv, caller = "returned", result = <<>>, NEW p \in good
               PROVE  p \in before
    BY DEF P!FailsOnlyWithoutPair
  <2>1. \A n \in P!Tasks : n \in ready /\ info[n] = <<>>
    BY Indices, P!SearchAssumption DEF SearchInv, Shapes, CallerWaits
  <2>2. ~stop
    BY <2>1 DEF SearchInv, Shapes, StopMeansSuccess
  <2>3. p \in tried_pairs
    <3>1. PICK n \in P!Tasks : \E k \in DOMAIN P!PairsOf(n) : p = PairAt(n, k)
      BY DEF SearchInv, Shapes, P!AllPairs, PairAt
    <3> QED BY <2>1, <2>2, <3>1 DEF SearchInv, ReadyMeansWalked
  <2>4. \A w \in Workers : ~Estimates(w)
    BY DEF SearchInv, CallerWaits, Busy, Estimates
  <2> QED BY <2>2, <2>3, <2>4 DEF SearchInv, GoodIsFound
<1>2. P!Spec => []SearchInv
  BY P!SearchAssumption, SearchInvariance
<1> QED BY <1>1, <1>2, PTL

(* For any workers and any images, both at once (incremental_mapper_impl.cc). *)
THEOREM SearchAlwaysSound == ASSUME P!SearchAssumption PROVE P!Spec => []SearchIsSound
<1>1. P!FailsOnlyWithoutPair /\ P!NoTaskOutlivesCall => SearchIsSound
  BY DEF SearchIsSound
<1>2. P!Spec => []P!FailsOnlyWithoutPair
  BY P!SearchAssumption, FailureIsTrue
<1>3. P!Spec => []P!NoTaskOutlivesCall
  BY P!SearchAssumption, NoTaskOutlives
<1> QED BY <1>1, <1>2, <1>3, PTL

-----------------------------------------------------------------------------
(* How many models have the image, of ms. *)
N(ms, i) == Cardinality({j \in DOMAIN ms : FrameOf[i] \in ms[j]})
In(i, F) == IF FrameOf[i] \in F THEN 1 ELSE 0

LEMMA Constants ==
    /\ IsFiniteSet(Images) /\ IsFiniteSet(Frames)
    /\ \A i \in Images : FrameOf[i] \in Frames
    /\ InitNumTrials \in Nat \ {0} /\ MaxNumModels \in Nat \ {0} /\ MaxRegTrials \in Nat \ {0}
    /\ InitMaxRegTrials \in Nat \ {0} /\ LastStage \in Nat /\ MinModelSize \in Nat
    /\ Imported \in Seq(SUBSET Frames) /\ Len(Imported) <= 1
    /\ KMinNumFrames \in Nat /\ KMinNumInitialRegTrials \in Nat
BY PipelineAssumption DEF PipelineAssumption, LastStage

LEMMA TheFlags ==
    /\ Len(Flags) \in {1, 2} /\ DOMAIN Flags = 1 .. Len(Flags)
    /\ \A k \in DOMAIN Flags : Flags[k] \in BOOLEAN
<1>1. \A x, y \in BOOLEAN : /\ <<x>> \in Seq(BOOLEAN) /\ Len(<<x>>) = 1
                            /\ <<x, y>> \in Seq(BOOLEAN) /\ Len(<<x, y>>) = 2
  OBVIOUS
<1>2. Flags \in Seq(BOOLEAN) /\ Len(Flags) \in {1, 2}
  BY <1>1, PipelineAssumption DEF PipelineAssumption
<1> QED BY <1>2, LenProperties, ElementOfSeq

LEMMA Counted ==
    ASSUME NEW ms \in Seq(SUBSET Frames), NEW i \in Images
    PROVE  /\ IsFiniteSet({j \in DOMAIN ms : FrameOf[i] \in ms[j]}) /\ N(ms, i) \in Nat
           /\ N(ms, i) = 0 <=> \A j \in DOMAIN ms : FrameOf[i] \notin ms[j]
<1> DEFINE D == {j \in DOMAIN ms : FrameOf[i] \in ms[j]}
<1>1. Len(ms) \in Nat /\ DOMAIN ms = 1 .. Len(ms)
  BY LenProperties
<1>2. IsFiniteSet(1 .. Len(ms))
  BY <1>1, FS_Interval
<1>3. IsFiniteSet(D)
  BY <1>1, <1>2, FS_Subset
<1>4. Cardinality(D) \in Nat
  BY <1>3, FS_CardinalityType
<1>5. Cardinality(D) = 0 <=> D = {}
  BY <1>3, FS_EmptySet
<1> QED BY <1>3, <1>4, <1>5 DEF N

LEMMA Changed ==
    ASSUME NEW ms \in Seq(SUBSET Frames), NEW n \in 1 .. Len(ms),
           NEW new \in Seq(SUBSET Frames), Len(new) = Len(ms),
           \A j \in 1 .. Len(ms) : j # n => new[j] = ms[j], NEW i \in Images
    PROVE  N(new, i) + In(i, ms[n]) = N(ms, i) + In(i, new[n])
<1>1. /\ new \in Seq(SUBSET Frames) /\ Len(new) = Len(ms)
      /\ \A j \in 1 .. Len(ms) : j # n => new[j] = ms[j]
  OBVIOUS
<1>2. DOMAIN new = 1 .. Len(ms) /\ DOMAIN ms = 1 .. Len(ms)
  BY <1>1, LenProperties
<1> DEFINE D == {j \in DOMAIN ms : FrameOf[i] \in ms[j]}
           E == {j \in DOMAIN new : FrameOf[i] \in new[j]}
<1>3. IsFiniteSet(D) /\ IsFiniteSet(E) /\ N(ms, i) = Cardinality(D) /\ N(new, i) = Cardinality(E)
      /\ Cardinality(D) \in Nat /\ Cardinality(E) \in Nat
  BY <1>1, Counted DEF N
<1>4. \A j \in 1 .. Len(ms) : j # n => (j \in D <=> j \in E)
  BY <1>1, <1>2
<1>5. (n \in D <=> FrameOf[i] \in ms[n]) /\ (n \in E <=> FrameOf[i] \in new[n])
  BY <1>1, <1>2
<1>6. D \subseteq 1 .. Len(ms) /\ E \subseteq 1 .. Len(ms)
  BY <1>2
<1> HIDE DEF D, E
<1>7. CASE n \in D /\ n \in E
  <2>1. \A j \in 1 .. Len(ms) : j \in D <=> j \in E
    BY <1>4, <1>7
  <2>2. D = E
    BY <1>6, <2>1, Zenon
  <2> QED BY <1>3, <1>5, <1>7, <2>2 DEF In
<1>8. CASE n \notin D /\ n \notin E
  <2>1. \A j \in 1 .. Len(ms) : j \in D <=> j \in E
    BY <1>4, <1>8
  <2>2. D = E
    BY <1>6, <2>1, Zenon
  <2> QED BY <1>3, <1>5, <1>8, <2>2 DEF In
<1>9. CASE n \in D /\ n \notin E
  <2>1. D = E \cup {n}
    BY <1>4, <1>6, <1>9
  <2>2. Cardinality(D) = Cardinality(E) + 1
    BY <1>3, <1>9, <2>1, FS_AddElement
  <2> QED BY <1>3, <1>5, <1>9, <2>2 DEF In
<1>10. CASE n \notin D /\ n \in E
  <2>1. E = D \cup {n}
    BY <1>4, <1>6, <1>10
  <2>2. Cardinality(E) = Cardinality(D) + 1
    BY <1>3, <1>10, <2>1, FS_AddElement
  <2> QED BY <1>3, <1>5, <1>10, <2>2 DEF In
<1> QED BY <1>7, <1>8, <1>9, <1>10

LEMMA Lengthened ==
    ASSUME NEW ms \in Seq(SUBSET Frames)
    PROVE  LET new == Append(ms, {}) IN
           /\ new \in Seq(SUBSET Frames) /\ Len(new) = Len(ms) + 1 /\ new[Len(ms) + 1] = {}
           /\ \A j \in 1 .. Len(ms) : new[j] = ms[j]
           /\ \A i \in Images : N(new, i) = N(ms, i)
<1> DEFINE new == Append(ms, {})
<1>1. /\ new \in Seq(SUBSET Frames) /\ Len(new) = Len(ms) + 1 /\ new[Len(ms) + 1] = {}
      /\ \A j \in 1 .. Len(ms) : new[j] = ms[j]
  BY AppendProperties
<1>2. Len(ms) \in Nat /\ DOMAIN new = 1 .. Len(ms) + 1 /\ DOMAIN ms = 1 .. Len(ms)
  BY <1>1, LenProperties
<1> HIDE DEF new
<1>3. ASSUME NEW i \in Images PROVE N(new, i) = N(ms, i)
  <2>1. \A j : j \in 1 .. Len(ms) + 1 <=> (j \in 1 .. Len(ms) \/ j = Len(ms) + 1)
    BY <1>2
  <2>2. {j \in DOMAIN new : FrameOf[i] \in new[j]} = {j \in DOMAIN ms : FrameOf[i] \in ms[j]}
    BY <1>1, <1>2, <2>1
  <2> QED BY <2>2 DEF N
<1> QED BY <1>1, <1>3 DEF new

LEMMA Shortened ==
    ASSUME NEW ms \in Seq(SUBSET Frames), ms # <<>>
    PROVE  LET new == [k \in 1 .. Len(ms) - 1 |-> ms[IF k < Len(ms) THEN k ELSE k + 1]] IN
           /\ new \in Seq(SUBSET Frames) /\ Len(new) = Len(ms) - 1
           /\ Len(ms) \in 1 .. Len(ms)
           /\ \A j \in 1 .. Len(ms) - 1 : new[j] = ms[j]
           /\ \A i \in Images : N(new, i) + In(i, ms[Len(ms)]) = N(ms, i)
<1> DEFINE n == Len(ms)
           new == [k \in 1 .. n - 1 |-> ms[IF k < n THEN k ELSE k + 1]]
<1>1. n \in Nat \ {0} /\ DOMAIN ms = 1 .. n
  BY EmptySeq, LenProperties
<1>2. \A j \in 1 .. n : ms[j] \subseteq Frames
  BY ElementOfSeq
<1> HIDE DEF n
<1>3. n - 1 \in Nat /\ DOMAIN new = 1 .. n - 1 /\ \A j \in 1 .. n - 1 : j \in 1 .. n /\ j < n
  BY <1>1
<1>4. \A j \in 1 .. n - 1 : new[j] = ms[j]
  BY <1>3
<1>5. new \in [1 .. n - 1 -> SUBSET Frames]
  BY <1>2, <1>3, <1>4
<1> HIDE DEF new
<1>6. new \in Seq(SUBSET Frames) /\ Len(new) = n - 1
  BY <1>3, <1>5
<1>7. ASSUME NEW i \in Images PROVE N(new, i) + In(i, ms[n]) = N(ms, i)
  <2> DEFINE D == {j \in DOMAIN ms : FrameOf[i] \in ms[j]}
             E == {j \in DOMAIN new : FrameOf[i] \in new[j]}
  <2>1. IsFiniteSet(E) /\ N(ms, i) = Cardinality(D) /\ N(new, i) = Cardinality(E)
        /\ Cardinality(E) \in Nat
    BY <1>6, Counted DEF N
  <2>2. \A j : j \in 1 .. n <=> j \in 1 .. n - 1 \/ j = n
    BY <1>1
  <2>3. n \notin E
    BY <1>1, <1>3
  <2>4. D = IF FrameOf[i] \in ms[n] THEN E \cup {n} ELSE E
    BY <1>1, <1>3, <1>4, <2>2
  <2> HIDE DEF D, E
  <2>5. Cardinality(E \cup {n}) = Cardinality(E) + 1
    BY <2>1, <2>3, FS_AddElement
  <2> QED BY <2>1, <2>4, <2>5 DEF In
<1>8. n \in 1 .. n
  BY <1>1
<1> QED BY <1>4, <1>6, <1>7, <1>8 DEF n, new

-----------------------------------------------------------------------------
RegisteredIn(r) == Cardinality({i \in Images : r[i] > 0})
Shared(r, F) == Cardinality({i \in ImagesOf(F) : r[i] > 1})

LEMMA OfImages ==
    ASSUME NEW A \in SUBSET Images
    PROVE  IsFiniteSet(A) /\ Cardinality(A) \in Nat
BY Constants, FS_Subset, FS_CardinalityType

LEMMA SizeOfUnion ==
    ASSUME NEW A \in SUBSET Images, NEW B \in SUBSET Images
    PROVE  /\ Cardinality(A \cup B) <= Cardinality(A) + Cardinality(B)
           /\ A \cap B = {} => Cardinality(A \cup B) = Cardinality(A) + Cardinality(B)
           /\ A \subseteq B => /\ Cardinality(A) <= Cardinality(B)
                              /\ Cardinality(B \ A) = Cardinality(B) - Cardinality(A)
<1>1. /\ IsFiniteSet(A) /\ IsFiniteSet(B)
      /\ {Cardinality(A), Cardinality(B), Cardinality(A \cap B)} \subseteq Nat
  BY OfImages
<1>2. Cardinality(A \cup B) = Cardinality(A) + Cardinality(B) - Cardinality(A \cap B)
  BY <1>1, FS_Union
<1>3. A \cap B = {} => Cardinality(A \cap B) = 0
  BY FS_EmptySet
<1>4. ASSUME A \subseteq B
      PROVE  Cardinality(A) <= Cardinality(B) /\ Cardinality(B \ A) = Cardinality(B) - Cardinality(A)
  <2>1. Cardinality(B \ A) = Cardinality(B) - Cardinality(B \cap A) /\ B \cap A = A
    BY <1>1, <1>4, FS_Difference
  <2>2. Cardinality(A) <= Cardinality(B)
    BY <1>1, <1>4, FS_Subset
  <2> QED BY <2>1, <2>2
<1> QED BY <1>1, <1>2, <1>3, <1>4

LEMMA RegisterCounts ==
    ASSUME num_registrations \in [Images -> Nat],
           num_total_reg_images = RegisteredIn(num_registrations),
           NEW k \in [Images -> 0 .. 2], NEW shared \in Nat, RegisterFrameEvents(k, shared),
           NEW F \in SUBSET Frames, NEW G \in SUBSET Frames,
           \A i \in Images : k[i] > 0 <=> FrameOf[i] \in G
    PROVE  /\ num_registrations' \in [Images -> Nat]
           /\ \A i \in Images : num_registrations'[i] = num_registrations[i] + k[i]
           /\ num_total_reg_images' = RegisteredIn(num_registrations')
           /\ num_total_reg_images' \in Nat /\ num_shared_reg_images' \in Nat
           /\ shared >= Shared(num_registrations, F) =>
                 num_shared_reg_images' >= Shared(num_registrations', F \cup G)
           /\ /\ shared = Shared(num_registrations, F) /\ F \cap G = {}
              /\ \A i \in Images : k[i] < 2
              => num_shared_reg_images' = Shared(num_registrations', F \cup G)
<1> DEFINE r == num_registrations
           R == num_registrations'
<1>1. R \in [Images -> Nat] /\ \A i \in Images : R[i] = r[i] + k[i]
  BY DEF RegisterFrameEvents
<1> DEFINE One == {i \in Images : r[i] > 0}
           New == {i \in Images : r[i] = 0 /\ k[i] > 0}
           All == {i \in Images : R[i] > 0}
           A == {i \in Images : r[i] > 0 /\ k[i] > 0}
           B == {i \in Images : k[i] > 1}
           C == {i \in ImagesOf(F) : r[i] > 1}
           D == {i \in ImagesOf(F \cup G) : R[i] > 1}
<1>2. One \cap New = {} /\ All = One \cup New
  BY <1>1
<1>3. D \subseteq C \cup (A \cup B)
  <2> SUFFICES ASSUME NEW i \in D, i \notin A, i \notin B PROVE i \in C
    OBVIOUS
  <2>1. i \in Images /\ FrameOf[i] \in F \cup G /\ r[i] + k[i] > 1 /\ r[i] \in Nat /\ k[i] \in 0 .. 2
    BY <1>1 DEF ImagesOf
  <2>2. k[i] = 0
    BY <2>1
  <2> QED BY <2>1, <2>2 DEF ImagesOf
<1>4. ASSUME F \cap G = {}, \A i \in Images : k[i] < 2
      PROVE  D = C \cup A /\ C \cap A = {} /\ B = {}
  <2>1. \A i \in Images : i \in A => FrameOf[i] \in G /\ R[i] > 1
    BY <1>1
  <2>2. \A i \in Images : i \in C => FrameOf[i] \in F /\ FrameOf[i] \notin G /\ k[i] = 0 /\ R[i] > 1
    BY <1>1, <1>4 DEF ImagesOf
  <2>3. B = {}
    BY <1>4
  <2>4. \A i \in Images : i \in D <=> i \in C \cup A
    BY <1>3, <2>1, <2>2, <2>3 DEF ImagesOf
  <2> QED BY <2>1, <2>2, <2>3, <2>4 DEF ImagesOf
<1>5. {One, New, All, A, B, C, D} \subseteq SUBSET Images
  BY DEF ImagesOf
<1>6. /\ num_total_reg_images' = Cardinality(One) + Cardinality(New)
      /\ num_shared_reg_images' = shared + Cardinality(A) + Cardinality(B)
      /\ RegisteredIn(R) = Cardinality(All)
      /\ Shared(r, F) = Cardinality(C) /\ Shared(R, F \cup G) = Cardinality(D)
  BY DEF RegisterFrameEvents, RegisteredIn, Shared
<1>7. R = num_registrations'
  OBVIOUS
<1> HIDE DEF One, New, All, A, B, C, D, R
<1>8. {Cardinality(One), Cardinality(New), Cardinality(A), Cardinality(B), Cardinality(C),
       Cardinality(D)} \subseteq Nat
  BY <1>5, OfImages
<1>9. num_total_reg_images' = RegisteredIn(R)
  BY <1>2, <1>5, <1>6, SizeOfUnion
<1>10. Cardinality(D) <= Cardinality(C) + (Cardinality(A) + Cardinality(B))
  <2>1. Cardinality(A \cup B) <= Cardinality(A) + Cardinality(B) /\ Cardinality(A \cup B) \in Nat
    BY <1>5, SizeOfUnion, OfImages
  <2>2. Cardinality(C \cup (A \cup B)) <= Cardinality(C) + Cardinality(A \cup B)
        /\ Cardinality(C \cup (A \cup B)) \in Nat
    BY <1>5, SizeOfUnion, OfImages
  <2>3. Cardinality(D) <= Cardinality(C \cup (A \cup B))
    BY <1>3, <1>5, SizeOfUnion
  <2> QED BY <1>8, <2>1, <2>2, <2>3
<1>11. ASSUME F \cap G = {}, \A i \in Images : k[i] < 2
       PROVE  Cardinality(D) = Cardinality(C) + Cardinality(A) /\ Cardinality(B) = 0
  <2>1. D = C \cup A /\ C \cap A = {} /\ B = {}
    BY <1>4, <1>11
  <2>2. C \in SUBSET Images /\ A \in SUBSET Images
    BY <1>5
  <2>3. Cardinality(C \cup A) = Cardinality(C) + Cardinality(A)
    BY <2>1, <2>2, SizeOfUnion
  <2> QED BY <2>1, <2>3, FS_EmptySet
<1>12. num_total_reg_images' \in Nat /\ num_shared_reg_images' \in Nat
  BY <1>6, <1>8
<1>13. shared >= Shared(r, F) => num_shared_reg_images' >= Shared(R, F \cup G)
  BY <1>6, <1>8, <1>10
<1>14. shared = Shared(r, F) /\ F \cap G = {} /\ (\A i \in Images : k[i] < 2)
       => num_shared_reg_images' = Shared(R, F \cup G)
  BY <1>6, <1>8, <1>11
<1> QED BY <1>1, <1>7, <1>9, <1>12, <1>13, <1>14

LEMMA DeRegisterCounts ==
    ASSUME num_registrations \in [Images -> Nat], num_shared_reg_images \in Nat,
           num_total_reg_images = RegisteredIn(num_registrations),
           NEW F \in SUBSET Frames, NEW G \in SUBSET F, DeRegisterFrameEvents(G),
           \A i \in ImagesOf(G) : num_registrations[i] > 0,
           num_shared_reg_images >= Shared(num_registrations, F)
    PROVE  /\ num_registrations' \in [Images -> Nat]
           /\ \A i \in Images : num_registrations[i] = num_registrations'[i] + In(i, G)
           /\ num_total_reg_images' = RegisteredIn(num_registrations')
           /\ num_total_reg_images' \in Nat /\ num_shared_reg_images' \in Nat
           /\ num_shared_reg_images' >= Shared(num_registrations', F \ G)
           /\ num_shared_reg_images = Shared(num_registrations, F) =>
                 num_shared_reg_images' = Shared(num_registrations', F \ G)
<1> DEFINE r == num_registrations
           R == num_registrations'
<1>1. R \in [Images -> Nat] /\ \A i \in Images : R[i] = r[i] - In(i, G) /\ r[i] = R[i] + In(i, G)
  <2>1. R = [i \in Images |-> r[i] - In(i, G)]
    BY DEF DeRegisterFrameEvents, Once, In
  <2>2. \A i \in Images : r[i] \in Nat /\ (FrameOf[i] \in G => r[i] > 0)
    BY DEF ImagesOf
  <2>3. \A i \in Images : r[i] - In(i, G) \in Nat /\ In(i, G) \in {0, 1}
    BY <2>2 DEF In
  <2> QED BY <2>1, <2>2, <2>3
<1> DEFINE One == {i \in Images : r[i] > 0}
           Last == {i \in ImagesOf(G) : r[i] = 1}
           All == {i \in Images : R[i] > 0}
           C == {i \in ImagesOf(F) : r[i] > 1}
           E == {i \in ImagesOf(G) : r[i] > 1}
           D == {i \in ImagesOf(F \ G) : R[i] > 1}
<1>2. Last \subseteq One /\ All = One \ Last
  BY <1>1 DEF ImagesOf, In
<1>3. E \subseteq C /\ D = C \ E
  BY <1>1 DEF ImagesOf, In
<1>5. {One, Last, All, C, D, E} \subseteq SUBSET Images
  BY DEF ImagesOf
<1>6. /\ num_total_reg_images' = Cardinality(One) - Cardinality(Last)
      /\ num_shared_reg_images' = num_shared_reg_images - Cardinality(E)
      /\ RegisteredIn(R) = Cardinality(All)
      /\ Shared(r, F) = Cardinality(C) /\ Shared(R, F \ G) = Cardinality(D)
  BY DEF DeRegisterFrameEvents, RegisteredIn, Shared
<1>7. R = num_registrations'
  OBVIOUS
<1> HIDE DEF One, Last, All, C, D, E, R
<1>8. {Cardinality(One), Cardinality(Last), Cardinality(All), Cardinality(C), Cardinality(D),
       Cardinality(E)} \subseteq Nat
  BY <1>5, OfImages
<1>9. num_total_reg_images' = RegisteredIn(R)
  BY <1>2, <1>5, <1>6, SizeOfUnion
<1>10. Cardinality(E) <= Cardinality(C) /\ Cardinality(D) = Cardinality(C) - Cardinality(E)
  BY <1>3, <1>5, SizeOfUnion
<1>11. num_total_reg_images' \in Nat
  BY <1>6, <1>8, <1>9
<1>12. /\ num_shared_reg_images' \in Nat /\ num_shared_reg_images' >= Shared(R, F \ G)
       /\ num_shared_reg_images = Shared(r, F) => num_shared_reg_images' = Shared(R, F \ G)
  BY <1>6, <1>8, <1>10
<1> QED BY <1>1, <1>7, <1>9, <1>11, <1>12

-----------------------------------------------------------------------------
(* No seed is of one frame, and what the structure-less registration takes is *)
(* an image in a frame of its own: otherwise the events of a frame are        *)
(* counted twice (incremental_mapper.cc:182-185, 800).                        *)
AcrossFrames ==
    /\ \A i, j \in Images :
          i # j /\ {i, j} \in Connected \cup {Provided} => FrameOf[i] # FrameOf[j]
    /\ (\E k \in DOMAIN Flags : Flags[k]) => \A i, j \in Images : FrameOf[i] = FrameOf[j] => i = j

FramesHaveImages == \A x \in Frames : \E i \in Images : FrameOf[i] = x

Between == pc \in {"trial", "return", "done"}

(* The model in work is the last one.  The statistics never miss an image that *)
(* is registered, and are exact if no frame is counted twice.                  *)
Core ==
    /\ models \in Seq(SUBSET Frames) /\ cur \in {0, Len(models)}
    /\ num_registrations \in [Images -> Nat]
    /\ num_total_reg_images \in Nat /\ num_shared_reg_images \in Nat
    /\ num_total_reg_images = RegisteredIn(num_registrations)
    /\ cur # 0 => num_shared_reg_images >= Shared(num_registrations, Reg)
    /\ cur # 0 /\ AcrossFrames => num_shared_reg_images = Shared(num_registrations, Reg)

Held ==
    /\ \A i \in Images : num_registrations[i] >= N(models, i)
    /\ AcrossFrames => \A i \in Images : num_registrations[i] = N(models, i)

(* The user's model has no events before it is continued. *)
NotBegun ==
    /\ Between /\ stage = 0 /\ trial = 0 /\ models = Imported
    /\ \A i \in Images : num_registrations[i] = 0
    /\ pc = "return" => status = "STOP"

FirstTrial == pc = "trial" /\ stage = 0 /\ trial = 0
Books == (NotBegun \/ Held) /\ (FirstTrial => NotBegun)

Kinds ==
    /\ init_image_pairs \subseteq Connected \cup {Provided}
    /\ init_num_reg_trials \in [Images -> 0..InitNumTrials]
    /\ num_reg_trials \in [BOOLEAN -> [Images -> Nat]]
    /\ filtered_frames \subseteq Frames /\ existing_frame_ids \subseteq Frames
    /\ pc \in {"trial", "init", "check", "loop", "find", "attempt", "refine", "post",
               "after", "end", "return", "done"}
    /\ stage \in 0..LastStage /\ trial \in 0..InitNumTrials /\ status \in Statuses
    /\ {reg_next_success, prev_reg_next_success, stopped, unknownRig, grew} \subseteq BOOLEAN
    /\ flag \in DOMAIN Flags /\ reg_trial \in Nat
    /\ fresh \subseteq Images /\ others \subseteq Images
    /\ ba_prev_num_reg_frames \in 0..Cardinality(Frames)
    /\ failures \in [BOOLEAN -> [Images -> 0..MaxRegTrials]]

Placed ==
    /\ cur = 0 <=> Between
    /\ pc = "init" => Reg = {}
    /\ pc = "end" /\ status = "INTERRUPTED" => stopped
    /\ pc = "attempt" /\ AcrossFrames => \A i \in fresh \cup others : FrameOf[i] \notin Reg

(* Every trial that is left was given by a model that is not kept, or there is *)
(* room for one more.                                                         *)
Room ==
    /\ Len(models) <= MaxNumModels
    /\ ~MultipleModels => Len(models) <= 1
    /\ (pc = "trial" /\ ~FirstTrial) \/ (pc = "return" /\ status # "STOP") =>
          Len(models) < MaxNumModels /\ (~MultipleModels => Len(models) = 0)

TrialsCounted ==
    /\ pc \in {"trial", "init"} => \A i \in Images : init_num_reg_trials[i] <= trial
    /\ ~Between => trial < InitNumTrials /\ \A i \in Images : init_num_reg_trials[i] <= trial + 1

(* While the imported model is in work nothing leads to its end but success.  *)
ImportedHeld ==
    FramesHaveImages /\ FixExistingFrames /\ ~unknownRig =>
      \A k \in DOMAIN Imported : Imported[k] # {} =>
        /\ k \in DOMAIN models /\ Imported[k] \subseteq models[k]
        /\ cur = 1 => /\ existing_frame_ids = Imported[1] /\ pc \notin {"init", "check"}
                      /\ pc = "end" => status \in {"SUCCESS", "INTERRUPTED"}

IInv ==
    /\ Core /\ Books /\ Kinds /\ Placed /\ Room /\ TrialsCounted /\ ImportedHeld
    /\ SmallModelsDiscarded

-----------------------------------------------------------------------------
(* What the operations of the mapper leave of the models and the statistics.  *)
OthersStay ==
    Len(models') = Len(models) /\ \A k \in 1 .. Len(models) : k # cur => models'[k] = models[k]

LEMMA CurrentModel ==
    ASSUME Core, cur # 0
    PROVE  /\ cur = Len(models) /\ cur \in 1 .. Len(models) /\ Len(models) \in Nat \ {0}
           /\ Reg = models[cur] /\ Reg \in SUBSET Frames /\ models # <<>>
           /\ \A i \in Images : FrameOf[i] \in Reg => N(models, i) > 0
<1>1. Len(models) \in Nat /\ DOMAIN models = 1 .. Len(models) /\ cur = Len(models)
  BY LenProperties DEF Core
<1>2. cur \in 1 .. Len(models) /\ Len(models) \in Nat \ {0}
  BY <1>1
<1>3. Reg = models[cur] /\ Reg \in SUBSET Frames
  BY <1>2, ElementOfSeq DEF Core, Reg
<1>4. models # <<>>
  BY <1>2, EmptySeq
<1>5. \A i \in Images : FrameOf[i] \in Reg => N(models, i) > 0
  <2> SUFFICES ASSUME NEW i \in Images, FrameOf[i] \in Reg PROVE N(models, i) > 0
    OBVIOUS
  <2>1. N(models, i) \in Nat /\ N(models, i) # 0
    BY <1>1, <1>2, <1>3, Counted DEF Core
  <2> QED BY <2>1
<1> QED BY <1>1, <1>2, <1>3, <1>4, <1>5

LEMMA CurrentSet ==
    ASSUME models \in Seq(SUBSET Frames), cur \in 1 .. Len(models), NEW F \in SUBSET Frames,
           models' = [models EXCEPT ![cur] = F]
    PROVE  /\ models' \in Seq(SUBSET Frames) /\ Len(models') = Len(models) /\ models'[cur] = F
           /\ \A j \in 1 .. Len(models) : j # cur => models'[j] = models[j]
           /\ \A i \in Images : N(models', i) + In(i, models[cur]) = N(models, i) + In(i, F)
<1>1. LET new == [models EXCEPT ![cur] = F] IN
      /\ new \in Seq(SUBSET Frames) /\ Len(new) = Len(models)
      /\ \A j \in 1 .. Len(models) : new[j] = IF j = cur THEN F ELSE models[j]
  BY ExceptSeq
<1>2. /\ models' \in Seq(SUBSET Frames) /\ Len(models') = Len(models) /\ models'[cur] = F
      /\ \A j \in 1 .. Len(models) : j # cur => models'[j] = models[j]
  BY <1>1
<1>3. ASSUME NEW i \in Images
      PROVE  N(models', i) + In(i, models[cur]) = N(models, i) + In(i, F)
  <2>1. N(models', i) + In(i, models[cur]) = N(models, i) + In(i, models'[cur])
    <3>1. models' \in Seq(SUBSET Frames) /\ Len(models') = Len(models)
      BY <1>2
    <3>2. \A j \in 1 .. Len(models) : j # cur => models'[j] = models[j]
      BY <1>2
    <3> QED BY <3>1, <3>2, Changed, ZenonT(60)
  <2> QED BY <1>2, <2>1
<1> QED BY <1>2, <1>3

LEMMA Adds ==
    ASSUME Core, Held, cur # 0, NEW G \in SUBSET Frames, NEW k \in [Images -> 0 .. 2],
           models' = [models EXCEPT ![cur] = @ \cup G], cur' = cur,
           RegisterFrameEvents(k, num_shared_reg_images),
           \A i \in Images : k[i] > 0 <=> FrameOf[i] \in G,
           AcrossFrames => (\A i \in Images : k[i] < 2) /\ Reg \cap G = {}
    PROVE  Core' /\ Held' /\ OthersStay /\ Reg' = Reg \cup G
<1>1. /\ cur \in 1 .. Len(models) /\ Reg = models[cur] /\ Reg \in SUBSET Frames
      /\ cur = Len(models)
  BY CurrentModel
<1>2. /\ models \in Seq(SUBSET Frames) /\ models[cur] \cup G \in SUBSET Frames
      /\ models' = [models EXCEPT ![cur] = models[cur] \cup G]
  BY <1>1 DEF Core
<1>3. /\ models' \in Seq(SUBSET Frames) /\ Len(models') = Len(models)
      /\ models'[cur] = models[cur] \cup G
      /\ \A j \in 1 .. Len(models) : j # cur => models'[j] = models[j]
      /\ \A i \in Images : N(models', i) + In(i, models[cur])
                             = N(models, i) + In(i, models[cur] \cup G)
  <2> DEFINE F == models[cur] \cup G
  <2>0. models \in Seq(SUBSET Frames) /\ cur \in 1 .. Len(models)
    BY <1>1, <1>2
  <2>1. F \in SUBSET Frames /\ models' = [models EXCEPT ![cur] = F]
    BY <1>2
  <2> HIDE DEF F
  <2>2. /\ models' \in Seq(SUBSET Frames) /\ Len(models') = Len(models) /\ models'[cur] = F
        /\ \A j \in 1 .. Len(models) : j # cur => models'[j] = models[j]
        /\ \A i \in Images : N(models', i) + In(i, models[cur]) = N(models, i) + In(i, F)
    BY <2>0, <2>1, CurrentSet
  <2> QED BY <2>2 DEF F
<1>4. Reg' = Reg \cup G
  BY <1>1, <1>3 DEF Reg
<1>5. /\ num_registrations' \in [Images -> Nat]
      /\ \A i \in Images : num_registrations'[i] = num_registrations[i] + k[i]
      /\ num_total_reg_images' = RegisteredIn(num_registrations')
      /\ num_total_reg_images' \in Nat /\ num_shared_reg_images' \in Nat
      /\ num_shared_reg_images' >= Shared(num_registrations', Reg \cup G)
      /\ AcrossFrames => num_shared_reg_images' = Shared(num_registrations', Reg \cup G)
  <2>1. /\ num_registrations \in [Images -> Nat] /\ num_shared_reg_images \in Nat
        /\ num_total_reg_images = RegisteredIn(num_registrations)
        /\ num_shared_reg_images >= Shared(num_registrations, Reg)
        /\ AcrossFrames => num_shared_reg_images = Shared(num_registrations, Reg)
    BY DEF Core
  <2>2. PICK F \in SUBSET Frames : F = Reg
    BY <1>1
  <2>3. num_registrations \in [Images -> Nat] /\ num_shared_reg_images \in Nat
        /\ num_total_reg_images = RegisteredIn(num_registrations)
    BY <2>1
  <2>4. /\ num_registrations' \in [Images -> Nat]
        /\ \A i \in Images : num_registrations'[i] = num_registrations[i] + k[i]
        /\ num_total_reg_images' = RegisteredIn(num_registrations')
        /\ num_total_reg_images' \in Nat /\ num_shared_reg_images' \in Nat
        /\ num_shared_reg_images >= Shared(num_registrations, F) =>
              num_shared_reg_images' >= Shared(num_registrations', F \cup G)
    BY <2>3, RegisterCounts, ZenonT(60)
  <2>5. ASSUME AcrossFrames
        PROVE  num_shared_reg_images' = Shared(num_registrations', F \cup G)
    <3>1. /\ num_shared_reg_images = Shared(num_registrations, F) /\ F \cap G = {}
          /\ \A i \in Images : k[i] < 2
      BY <2>1, <2>2, <2>5
    <3> QED BY <2>3, <3>1, RegisterCounts, ZenonT(60)
  <2>6. num_shared_reg_images' >= Shared(num_registrations', Reg \cup G)
    BY <2>1, <2>2, <2>4
  <2> QED BY <2>2, <2>4, <2>5, <2>6
<1>6. AcrossFrames' <=> AcrossFrames
  BY DEF AcrossFrames
<1>7. Core'
  BY <1>1, <1>3, <1>4, <1>5, <1>6 DEF Core
<1>8. Held'
  <2> SUFFICES ASSUME NEW i \in Images
               PROVE  /\ num_registrations'[i] >= N(models', i)
                      /\ AcrossFrames => num_registrations'[i] = N(models', i)
    BY <1>6 DEF Held
  <2>1. /\ num_registrations[i] \in Nat /\ num_registrations[i] >= N(models, i)
        /\ AcrossFrames => num_registrations[i] = N(models, i)
    BY DEF Held, Core
  <2>2. N(models, i) \in Nat /\ N(models', i) \in Nat
    BY <1>2, <1>3, Counted
  <2>3. k[i] \in 0 .. 2 /\ (k[i] > 0 <=> FrameOf[i] \in G)
        /\ (AcrossFrames => k[i] < 2 /\ ~(FrameOf[i] \in G /\ FrameOf[i] \in models[cur]))
    BY <1>1
  <2>4. /\ num_registrations'[i] = num_registrations[i] + k[i]
        /\ N(models', i) + In(i, models[cur]) = N(models, i) + In(i, models[cur] \cup G)
    BY <1>3, <1>5
  <2>5. CASE FrameOf[i] \in G
    BY <2>1, <2>2, <2>3, <2>4, <2>5 DEF In
  <2>6. CASE FrameOf[i] \notin G
    BY <2>1, <2>2, <2>3, <2>4, <2>6 DEF In
  <2> QED BY <2>5, <2>6
<1> QED BY <1>3, <1>4, <1>7, <1>8 DEF OthersStay

LEMMA Filters ==
    ASSUME Core, Held, cur # 0, NEW G \in SUBSET Reg,
           models' = [models EXCEPT ![cur] = @ \ G], cur' = cur, DeRegisterFrameEvents(G)
    PROVE  Core' /\ Held' /\ OthersStay /\ Reg' = Reg \ G
<1>1. /\ cur \in 1 .. Len(models) /\ Reg = models[cur] /\ Reg \in SUBSET Frames
      /\ cur = Len(models) /\ \A i \in Images : FrameOf[i] \in Reg => N(models, i) > 0
  BY CurrentModel
<1>2. /\ models \in Seq(SUBSET Frames) /\ models[cur] \ G \in SUBSET Frames
      /\ models' = [models EXCEPT ![cur] = models[cur] \ G]
  BY <1>1 DEF Core
<1>3. /\ models' \in Seq(SUBSET Frames) /\ Len(models') = Len(models)
      /\ models'[cur] = models[cur] \ G
      /\ \A j \in 1 .. Len(models) : j # cur => models'[j] = models[j]
      /\ \A i \in Images : N(models', i) + In(i, models[cur])
                             = N(models, i) + In(i, models[cur] \ G)
  <2> DEFINE F == models[cur] \ G
  <2>0. models \in Seq(SUBSET Frames) /\ cur \in 1 .. Len(models)
    BY <1>1, <1>2
  <2>1. F \in SUBSET Frames /\ models' = [models EXCEPT ![cur] = F]
    BY <1>2
  <2> HIDE DEF F
  <2>2. /\ models' \in Seq(SUBSET Frames) /\ Len(models') = Len(models) /\ models'[cur] = F
        /\ \A j \in 1 .. Len(models) : j # cur => models'[j] = models[j]
        /\ \A i \in Images : N(models', i) + In(i, models[cur]) = N(models, i) + In(i, F)
    BY <2>0, <2>1, CurrentSet
  <2> QED BY <2>2 DEF F
<1>4. Reg' = Reg \ G
  BY <1>1, <1>3 DEF Reg
<1>0. \A i \in Images :
         /\ num_registrations[i] \in Nat /\ num_registrations[i] >= N(models, i)
         /\ N(models, i) \in Nat /\ N(models', i) \in Nat
         /\ AcrossFrames => num_registrations[i] = N(models, i)
  BY <1>2, <1>3, Counted DEF Held, Core
<1>5. /\ num_registrations' \in [Images -> Nat]
      /\ \A i \in Images : num_registrations[i] = num_registrations'[i] + In(i, G)
      /\ num_total_reg_images' = RegisteredIn(num_registrations')
      /\ num_total_reg_images' \in Nat /\ num_shared_reg_images' \in Nat
      /\ num_shared_reg_images' >= Shared(num_registrations', Reg \ G)
      /\ AcrossFrames => num_shared_reg_images' = Shared(num_registrations', Reg \ G)
  <2>1. /\ num_registrations \in [Images -> Nat] /\ num_shared_reg_images \in Nat
        /\ num_total_reg_images = RegisteredIn(num_registrations)
        /\ num_shared_reg_images >= Shared(num_registrations, Reg)
        /\ AcrossFrames => num_shared_reg_images = Shared(num_registrations, Reg)
    BY DEF Core
  <2>2. \A i \in ImagesOf(G) : i \in Images /\ FrameOf[i] \in Reg
    BY DEF ImagesOf
  <2>3. \A i \in ImagesOf(G) : num_registrations[i] > 0
    BY <1>0, <1>1, <2>2
  <2> QED BY <1>1, <2>1, <2>3, DeRegisterCounts
<1>6. AcrossFrames' <=> AcrossFrames
  BY DEF AcrossFrames
<1>7. Core'
  BY <1>1, <1>3, <1>4, <1>5, <1>6 DEF Core
<1>8. Held'
  <2> SUFFICES ASSUME NEW i \in Images
               PROVE  /\ num_registrations'[i] >= N(models', i)
                      /\ AcrossFrames => num_registrations'[i] = N(models', i)
    BY <1>6 DEF Held
  <2>1. /\ num_registrations[i] = num_registrations'[i] + In(i, G)
        /\ N(models', i) + In(i, models[cur]) = N(models, i) + In(i, models[cur] \ G)
        /\ num_registrations'[i] \in Nat
    BY <1>3, <1>5
  <2>2. FrameOf[i] \in G => FrameOf[i] \in models[cur]
    BY <1>1
  <2>3. /\ num_registrations[i] \in Nat /\ num_registrations[i] >= N(models, i)
        /\ N(models, i) \in Nat /\ N(models', i) \in Nat
        /\ AcrossFrames => num_registrations[i] = N(models, i)
    BY <1>0
  <2>4. CASE FrameOf[i] \in G
    BY <2>1, <2>2, <2>3, <2>4 DEF In
  <2>5. CASE FrameOf[i] \notin G
    BY <2>1, <2>3, <2>5 DEF In
  <2> QED BY <2>4, <2>5
<1> QED BY <1>3, <1>4, <1>7, <1>8 DEF OthersStay

LEMMA Discards ==
    ASSUME Core, Held, cur # 0, Discard
    PROVE  /\ Core' /\ Held' /\ cur' = 0 /\ Len(models') = Len(models) - 1
           /\ Len(models) \in Nat \ {0} /\ cur = Len(models)
           /\ \A k \in 1 .. Len(models) - 1 : models'[k] = models[k]
<1>1. /\ cur = Len(models) /\ cur \in 1 .. Len(models) /\ Len(models) \in Nat \ {0}
      /\ Reg = models[cur] /\ Reg \in SUBSET Frames /\ models # <<>>
      /\ \A i \in Images : FrameOf[i] \in Reg => N(models, i) > 0
  BY CurrentModel
<1>2. models \in Seq(SUBSET Frames)
  BY DEF Core
<1>3. /\ models' \in Seq(SUBSET Frames) /\ Len(models') = Len(models) - 1
      /\ \A j \in 1 .. Len(models) - 1 : models'[j] = models[j]
      /\ \A i \in Images : N(models', i) + In(i, models[Len(models)]) = N(models, i)
  <2> DEFINE new == [k \in 1 .. Len(models) - 1 |-> models[IF k < Len(models) THEN k ELSE k + 1]]
  <2>1. models' = new
    BY <1>1 DEF Discard
  <2>2. /\ new \in Seq(SUBSET Frames) /\ Len(new) = Len(models) - 1
        /\ \A j \in 1 .. Len(models) - 1 : new[j] = models[j]
        /\ \A i \in Images : N(new, i) + In(i, models[Len(models)]) = N(models, i)
    BY <1>1, <1>2, Shortened
  <2> HIDE DEF new
  <2> QED BY <2>1, <2>2
<1>0. \A i \in Images :
         /\ num_registrations[i] \in Nat /\ num_registrations[i] >= N(models, i)
         /\ N(models, i) \in Nat /\ N(models', i) \in Nat
         /\ AcrossFrames => num_registrations[i] = N(models, i)
  BY <1>2, <1>3, Counted DEF Held, Core
<1>5. /\ num_registrations' \in [Images -> Nat]
      /\ \A i \in Images : num_registrations[i] = num_registrations'[i] + In(i, Reg)
      /\ num_total_reg_images' = RegisteredIn(num_registrations')
      /\ num_total_reg_images' \in Nat /\ num_shared_reg_images' \in Nat
  <2>1. /\ num_registrations \in [Images -> Nat] /\ num_shared_reg_images \in Nat
        /\ num_total_reg_images = RegisteredIn(num_registrations)
        /\ num_shared_reg_images >= Shared(num_registrations, Reg)
    BY DEF Core
  <2>2. \A i \in ImagesOf(Reg) : i \in Images /\ FrameOf[i] \in Reg
    BY DEF ImagesOf
  <2>3. \A i \in ImagesOf(Reg) : num_registrations[i] > 0
    BY <1>0, <1>1, <2>2
  <2>4. DeRegisterFrameEvents(Reg)
    BY DEF Discard
  <2> QED BY <1>1, <2>1, <2>3, <2>4, DeRegisterCounts
<1>6. AcrossFrames' <=> AcrossFrames
  BY DEF AcrossFrames
<1>7. cur' = 0
  BY DEF Discard
<1>8. Core'
  BY <1>3, <1>5, <1>7 DEF Core
<1>9. Held'
  <2> SUFFICES ASSUME NEW i \in Images
               PROVE  /\ num_registrations'[i] >= N(models', i)
                      /\ AcrossFrames => num_registrations'[i] = N(models', i)
    BY <1>6 DEF Held
  <2>1. /\ num_registrations[i] = num_registrations'[i] + In(i, Reg)
        /\ N(models', i) + In(i, Reg) = N(models, i) /\ num_registrations'[i] \in Nat
    BY <1>1, <1>3, <1>5
  <2>2. /\ num_registrations[i] \in Nat /\ num_registrations[i] >= N(models, i)
        /\ N(models, i) \in Nat /\ N(models', i) \in Nat
        /\ AcrossFrames => num_registrations[i] = N(models, i)
    BY <1>0
  <2>3. In(i, Reg) \in {0, 1}
    BY DEF In
  <2> QED BY <2>1, <2>2, <2>3
<1> QED BY <1>1, <1>3, <1>7, <1>8, <1>9

(* A model is begun that has no events yet, all others having theirs. *)
LEMMA Begins ==
    ASSUME Core, NEW ms \in Seq(SUBSET Frames), ms # <<>>, BeginReconstruction(ms, Len(ms)),
           \A i \in Images : num_registrations[i] + In(i, ms[Len(ms)]) >= N(ms, i),
           AcrossFrames =>
             \A i \in Images : num_registrations[i] + In(i, ms[Len(ms)]) = N(ms, i)
    PROVE  /\ Core' /\ Held' /\ models' = ms /\ cur' = Len(ms) /\ Len(ms) \in Nat \ {0}
           /\ Reg' = ms[Len(ms)] /\ Reg' \in SUBSET Frames
<1>1. Len(ms) \in Nat \ {0} /\ ms[Len(ms)] \in SUBSET Frames
  BY EmptySeq, ElementOfSeq
<1>2. models' = ms /\ cur' = Len(ms) /\ RegisterFrameEvents(Once(ms[Len(ms)]), 0)
  BY DEF BeginReconstruction
<1>3. Reg' = ms[Len(ms)]
  BY <1>1, <1>2 DEF Reg
<1> DEFINE G == ms[Len(ms)]
           k == Once(G)
<1>4. /\ k \in [Images -> 0 .. 2] /\ \A i \in Images : k[i] = In(i, G)
      /\ \A i \in Images : (k[i] > 0 <=> FrameOf[i] \in G) /\ k[i] < 2
  BY DEF Once, In
<1>5. Shared(num_registrations, {}) = 0
  <2>1. {i \in ImagesOf({}) : num_registrations[i] > 1} = {}
    BY DEF ImagesOf
  <2> QED BY <2>1, FS_EmptySet DEF Shared
<1>6. G \in SUBSET Frames /\ RegisterFrameEvents(k, 0)
  BY <1>1, <1>2
<1>7. Reg' = G
  BY <1>3
<1>8. /\ \A i \in Images : num_registrations[i] + In(i, G) >= N(ms, i)
      /\ AcrossFrames => \A i \in Images : num_registrations[i] + In(i, G) = N(ms, i)
  OBVIOUS
<1> HIDE DEF k, G
<1>9. /\ num_registrations' \in [Images -> Nat]
      /\ \A i \in Images : num_registrations'[i] = num_registrations[i] + k[i]
      /\ num_total_reg_images' = RegisteredIn(num_registrations')
      /\ num_total_reg_images' \in Nat /\ num_shared_reg_images' \in Nat
      /\ num_shared_reg_images' >= Shared(num_registrations', G)
      /\ num_shared_reg_images' = Shared(num_registrations', G)
  <2>1. /\ num_registrations \in [Images -> Nat]
        /\ num_total_reg_images = RegisteredIn(num_registrations)
    BY DEF Core
  <2> DEFINE F == {}
             none == 0
  <2>2. /\ F \in SUBSET Frames /\ F \cap G = {} /\ F \cup G = G /\ none \in Nat
        /\ none >= Shared(num_registrations, F) /\ none = Shared(num_registrations, F)
        /\ RegisterFrameEvents(k, none)
    BY <1>5, <1>6
  <2> HIDE DEF F, none
  <2>3. \A i \in Images : k[i] > 0 <=> FrameOf[i] \in G
    BY <1>4
  <2>4. /\ num_registrations' \in [Images -> Nat]
        /\ \A i \in Images : num_registrations'[i] = num_registrations[i] + k[i]
        /\ num_total_reg_images' = RegisteredIn(num_registrations')
        /\ num_total_reg_images' \in Nat /\ num_shared_reg_images' \in Nat
        /\ num_shared_reg_images' >= Shared(num_registrations', F \cup G)
        /\ num_shared_reg_images' = Shared(num_registrations', F \cup G)
    <3>1. \A i \in Images : k[i] < 2
      BY <1>4, <1>6
    <3>2. k \in [Images -> 0 .. 2] /\ G \in SUBSET Frames
      BY <1>4, <1>6
    <3> QED BY <2>1, <2>2, <2>3, <3>1, <3>2, RegisterCounts, ZenonT(60)
  <2> QED BY <2>2, <2>4
<1>10. AcrossFrames' <=> AcrossFrames
  BY DEF AcrossFrames
<1>11. Core'
  BY <1>1, <1>2, <1>7, <1>9 DEF Core
<1>12. Held'
  <2> SUFFICES ASSUME NEW i \in Images
               PROVE  /\ num_registrations'[i] >= N(models', i)
                      /\ AcrossFrames => num_registrations'[i] = N(models', i)
    BY <1>10 DEF Held
  <2>1. N(models', i) = N(ms, i)
    BY <1>2
  <2>2. num_registrations'[i] = num_registrations[i] + In(i, G)
    BY <1>4, <1>9
  <2>3. /\ num_registrations[i] + In(i, G) >= N(ms, i)
        /\ AcrossFrames => num_registrations[i] + In(i, G) = N(ms, i)
    BY <1>8
  <2> QED BY <2>1, <2>2, <2>3
<1> QED BY <1>1, <1>2, <1>3, <1>11, <1>12

LEMMA Rests ==
    ASSUME Core, UNCHANGED <<models, cur, stats>>
    PROVE  /\ Core' /\ (Held => Held') /\ Reg' = Reg /\ OthersStay
<1>1. AcrossFrames' <=> AcrossFrames
  BY DEF AcrossFrames
<1>2. Reg' = Reg /\ OthersStay
  BY DEF Reg, OthersStay
<1>3. Core'
  BY <1>1, <1>2 DEF Core, stats
<1>4. Held => Held'
  BY <1>1 DEF Held, stats
<1> QED BY <1>2, <1>3, <1>4

-----------------------------------------------------------------------------
InWork == {"check", "loop", "find", "attempt", "refine", "post", "after", "end"}

LEMMA OfFrames ==
    ASSUME NEW A \in SUBSET Frames
    PROVE  Cardinality(A) \in 0 .. Cardinality(Frames)
<1>1. IsFiniteSet(Frames) /\ IsFiniteSet(A) /\ Cardinality(A) <= Cardinality(Frames)
  BY Constants, FS_Subset
<1>2. Cardinality(A) \in Nat /\ Cardinality(Frames) \in Nat
  BY <1>1, FS_CardinalityType
<1> QED BY <1>1, <1>2

LEMMA TheImported ==
    ASSUME NEW k \in DOMAIN Imported
    PROVE  k = 1 /\ Imported[k] \in SUBSET Frames /\ Len(Imported) = 1
<1>1. DOMAIN Imported = 1 .. Len(Imported) /\ Len(Imported) \in Nat /\ Len(Imported) <= 1
  BY Constants, LenProperties
<1>2. Imported[k] \in SUBSET Frames
  BY <1>1, Constants, ElementOfSeq
<1> QED BY <1>1, <1>2

(* A step of a model in work that changes only this model, and drops none of  *)
(* the fixed frames.                                                          *)
LEMMA InsideSteps ==
    ASSUME IInv, cur # 0, Core', Held', OthersStay, pc' \in InWork,
           UNCHANGED <<cur, existing_frame_ids, unknownRig, stage, trial>>,
           stopped => stopped',
           FixExistingFrames /\ existing_frame_ids \subseteq Reg =>
             existing_frame_ids \subseteq Reg',
           pc \notin {"init", "check"} =>
             pc' # "check" /\ (pc' = "end" => status' \in {"SUCCESS", "INTERRUPTED"})
    PROVE  /\ Books' /\ Room' /\ SmallModelsDiscarded' /\ ImportedHeld'
           /\ cur' = 0 <=> Between'
           /\ init_num_reg_trials' = init_num_reg_trials => TrialsCounted'
<1>1. /\ cur = Len(models) /\ cur \in 1 .. Len(models) /\ Len(models) \in Nat \ {0}
      /\ Reg = models[cur] /\ models \in Seq(SUBSET Frames) /\ models' \in Seq(SUBSET Frames)
  BY CurrentModel DEF IInv, Core
<1>2. /\ Len(models') = Len(models) /\ DOMAIN models' = 1 .. Len(models)
      /\ DOMAIN models = 1 .. Len(models)
      /\ \A k \in 1 .. Len(models) : k # cur => models'[k] = models[k]
      /\ Reg' = models'[cur]
  <2>1. /\ Len(models') = Len(models)
        /\ \A k \in 1 .. Len(models) : k # cur => models'[k] = models[k]
    BY DEF OthersStay
  <2>2. Reg' = models'[cur]
    BY DEF Reg
  <2> QED BY <1>1, <2>1, <2>2, LenProperties
<1>3. ~Between' /\ pc' \notin {"trial", "return", "init"} /\ ~FirstTrial' /\ ~Between
  BY DEF InWork, Between, FirstTrial, IInv, Placed
<1>4. Books'
  BY <1>3 DEF Books
<1>5. Room'
  BY <1>2, <1>3 DEF IInv, Room
<1>6. SmallModelsDiscarded'
  <2> SUFFICES ASSUME NEW k \in 2 .. Len(models), k # cur
               PROVE  \/ Cardinality(ImagesOf(models'[k])) >= min_model_size'
                      \/ stopped' /\ k = Len(models)
    BY <1>2 DEF SmallModelsDiscarded
  <2>1. models'[k] = models[k] /\ k \in 2 .. Len(models)
    BY <1>1, <1>2
  <2>2. \/ Cardinality(ImagesOf(models[k])) >= min_model_size
        \/ stopped /\ k = Len(models)
    BY DEF IInv, SmallModelsDiscarded
  <2>3. min_model_size' = min_model_size
    BY DEF min_model_size
  <2> QED BY <2>1, <2>2, <2>3, SMTT(30)
<1>7. ImportedHeld'
  <2> SUFFICES ASSUME FramesHaveImages, FixExistingFrames, ~unknownRig,
                      NEW k \in DOMAIN Imported, Imported[k] # {}
               PROVE  /\ k \in DOMAIN models' /\ Imported[k] \subseteq models'[k]
                      /\ cur' = 1 => /\ existing_frame_ids' = Imported[1]
                                     /\ pc' \notin {"init", "check"}
                                     /\ pc' = "end" => status' \in {"SUCCESS", "INTERRUPTED"}
    BY DEF ImportedHeld, FramesHaveImages
  <2>1. /\ k \in DOMAIN models /\ Imported[k] \subseteq models[k]
        /\ cur = 1 => existing_frame_ids = Imported[1] /\ pc \notin {"init", "check"}
    BY DEF IInv, ImportedHeld
  <2>2. k = 1
    BY TheImported
  <2>3. CASE cur = 1
    BY <1>1, <1>2, <1>3, <2>1, <2>2, <2>3
  <2>4. CASE cur # 1
    BY <1>1, <1>2, <2>1, <2>2, <2>4
  <2> QED BY <2>3, <2>4
<1>8. ASSUME init_num_reg_trials' = init_num_reg_trials PROVE TrialsCounted'
  BY <1>3, <1>8 DEF IInv, TrialsCounted
<1> QED BY <1>3, <1>4, <1>5, <1>6, <1>7, <1>8

(* What holds while a model is in work. *)
LEMMA AtWork ==
    ASSUME IInv, ~Between
    PROVE  /\ cur # 0 /\ Core /\ Held /\ cur = Len(models) /\ cur \in 1 .. Len(models)
           /\ Reg = models[cur] /\ Reg \in SUBSET Frames
<1>1. cur # 0 /\ Core /\ Held
  BY DEF IInv, Placed, Books, NotBegun
<1> QED BY <1>1, CurrentModel

-----------------------------------------------------------------------------
(* Steps that leave the models as they are. *)

LEMMA NoInitialPairStep == ASSUME IInv, NoInitialPair PROVE IInv'
<1>1. /\ pc = "init" /\ pc' = "end" /\ status' \in {"NO_INITIAL_PAIR", "BAD_INITIAL_PAIR"}
      /\ init_image_pairs' \subseteq init_image_pairs \cup Connected
      /\ UNCHANGED <<models, cur, stats, init_num_reg_trials, model, stage, trial, loop,
                     stopped, unknownRig>>
  BY DEF NoInitialPair, Finish, SeedPairs
<1>2. cur # 0 /\ Core /\ Held /\ ~Between
  BY <1>1, AtWork DEF Between
<1>3. Core' /\ Held' /\ Reg' = Reg /\ OthersStay
  BY <1>1, <1>2, Rests
<1>4. /\ Books' /\ Room' /\ SmallModelsDiscarded' /\ ImportedHeld' /\ TrialsCounted'
      /\ cur' = 0 <=> Between'
  BY <1>1, <1>2, <1>3, InsideSteps DEF InWork, model
<1>5. Kinds'
  BY <1>1 DEF IInv, Kinds, Statuses, model, loop
<1>6. Placed'
  BY <1>1, <1>4 DEF Placed
<1> QED BY <1>3, <1>4, <1>5, <1>6 DEF IInv

LEMMA LoopTopStep == ASSUME IInv, LoopTop PROVE IInv'
<1>1. /\ pc = "loop" /\ UNCHANGED <<models, stats, model, pipe>>
      /\ pc' \in {"after", "find"} /\ UNCHANGED <<fresh, others, reg_trial, ba_prev_num_reg_frames>>
      /\ reg_next_success' \in {reg_next_success, FALSE} /\ grew' \in {grew, FALSE}
      /\ prev_reg_next_success' \in {prev_reg_next_success, reg_next_success}
      /\ flag' \in {flag, 1}
  BY DEF LoopTop, loop
<1>0. flag' \in DOMAIN Flags
  BY <1>1, TheFlags DEF IInv, Kinds
<1>2. cur # 0 /\ Core /\ Held /\ ~Between
  BY <1>1, AtWork DEF Between
<1>3. Core' /\ Held' /\ Reg' = Reg /\ OthersStay
  BY <1>1, <1>2, Rests DEF pipe
<1>4. /\ Books' /\ Room' /\ SmallModelsDiscarded' /\ ImportedHeld' /\ TrialsCounted'
      /\ cur' = 0 <=> Between'
  BY <1>1, <1>2, <1>3, InsideSteps DEF InWork, model, pipe, seeds
<1>5. Kinds'
  BY <1>0, <1>1 DEF IInv, Kinds, model, pipe, seeds
<1>6. Placed'
  BY <1>1, <1>4 DEF Placed
<1> QED BY <1>3, <1>4, <1>5, <1>6 DEF IInv

LEMMA FindNextImagesStep == ASSUME IInv, FindNextImages PROVE IInv'
<1>1. /\ pc = "find" /\ pc' = "attempt" /\ reg_trial' = 0
      /\ UNCHANGED <<models, stats, model, reg_next_success, prev_reg_next_success, flag,
                     ba_prev_num_reg_frames, grew, pipe>>
      /\ fresh' \subseteq Images \ ImagesOf(Reg) /\ others' \subseteq Images \ ImagesOf(Reg)
  BY DEF FindNextImages
<1>2. cur # 0 /\ Core /\ Held /\ ~Between
  BY <1>1, AtWork DEF Between
<1>3. Core' /\ Held' /\ Reg' = Reg /\ OthersStay
  BY <1>1, <1>2, Rests DEF pipe
<1>4. /\ Books' /\ Room' /\ SmallModelsDiscarded' /\ ImportedHeld' /\ TrialsCounted'
      /\ cur' = 0 <=> Between'
  BY <1>1, <1>2, <1>3, InsideSteps DEF InWork, model, pipe, seeds
<1>5. Kinds'
  BY <1>1 DEF IInv, Kinds, model, pipe, seeds
<1>6. Placed'
  BY <1>1, <1>3, <1>4 DEF Placed, ImagesOf
<1> QED BY <1>3, <1>4, <1>5, <1>6 DEF IInv

LEMMA NoCandidateStep == ASSUME IInv, NoCandidate PROVE IInv'
<1>1. /\ pc = "attempt" /\ pc' \in {"find", "post"} /\ reg_trial' = 0
      /\ UNCHANGED <<models, stats, model, reg_next_success, prev_reg_next_success, fresh,
                     others, ba_prev_num_reg_frames, grew, pipe>>
  BY DEF NoCandidate
<1>0. flag' \in DOMAIN Flags
  BY TheFlags DEF NoCandidate, IInv, Kinds
<1>2. cur # 0 /\ Core /\ Held /\ ~Between
  BY <1>1, AtWork DEF Between
<1>3. Core' /\ Held' /\ Reg' = Reg /\ OthersStay
  BY <1>1, <1>2, Rests DEF pipe
<1>4. /\ Books' /\ Room' /\ SmallModelsDiscarded' /\ ImportedHeld' /\ TrialsCounted'
      /\ cur' = 0 <=> Between'
  BY <1>1, <1>2, <1>3, InsideSteps DEF InWork, model, pipe, seeds
<1>5. Kinds'
  BY <1>0, <1>1 DEF IInv, Kinds, model, pipe, seeds
<1>6. Placed'
  BY <1>1, <1>4 DEF Placed
<1> QED BY <1>3, <1>4, <1>5, <1>6 DEF IInv

(* A request to stop, and no step at all *)
LEMMA StopRequestStep ==
    ASSUME IInv, UNCHANGED vars \/ StopRequest
    PROVE  IInv'
<1>1. /\ UNCHANGED <<models, cur, stats, seeds, model, pc, stage, trial, status, loop,
                     unknownRig>>
      /\ stopped' \in BOOLEAN /\ (stopped => stopped')
  <2>1. stopped \in BOOLEAN
    BY DEF IInv, Kinds
  <2>2. CASE UNCHANGED vars
    BY <2>1, <2>2 DEF vars
  <2>3. CASE StopRequest
    BY <2>3 DEF StopRequest
  <2> QED BY <2>2, <2>3
<1>2. Core' /\ (Held => Held') /\ Reg' = Reg
  BY <1>1, Rests DEF IInv
<1>3. Books'
  <2>1. NotBegun => NotBegun'
    BY <1>1 DEF NotBegun, Between, stats
  <2>2. FirstTrial' <=> FirstTrial
    BY <1>1 DEF FirstTrial
  <2> QED BY <1>2, <2>1, <2>2 DEF IInv, Books
<1>4. Kinds'
  BY <1>1 DEF IInv, Kinds, seeds, model, loop
<1>5. Placed'
  <2>1. (Between' <=> Between) /\ (AcrossFrames' <=> AcrossFrames)
    BY <1>1 DEF Between, AcrossFrames
  <2> QED BY <1>1, <1>2, <2>1 DEF IInv, Placed, loop
<1>6. Room'
  BY <1>1 DEF IInv, Room, FirstTrial
<1>7. TrialsCounted'
  BY <1>1 DEF IInv, TrialsCounted, Between, seeds
<1>8. ImportedHeld'
  BY <1>1 DEF IInv, ImportedHeld, FramesHaveImages, model
<1>9. SmallModelsDiscarded'
  BY <1>1 DEF IInv, SmallModelsDiscarded, min_model_size
<1> QED BY <1>2, <1>3, <1>4, <1>5, <1>6, <1>7, <1>8, <1>9 DEF IInv

-----------------------------------------------------------------------------
(* Steps that filter frames of the model in work. *)

LEMMA FilteredFrames ==
    ASSUME IInv, ~Between, NEW S \in SUBSET Reg, FilterFrames(S), cur' = cur
    PROVE  /\ Core' /\ Held' /\ OthersStay /\ Reg' = Reg \ S /\ Reg' \in SUBSET Frames
           /\ filtered_frames' \subseteq Frames
           /\ UNCHANGED <<num_reg_trials, existing_frame_ids, failures>>
           /\ FixExistingFrames /\ existing_frame_ids \subseteq Reg =>
                existing_frame_ids \subseteq Reg'
<1>1. cur # 0 /\ Core /\ Held /\ Reg \in SUBSET Frames
  BY AtWork
<1>2. /\ models' = [models EXCEPT ![cur] = @ \ S] /\ DeRegisterFrameEvents(S)
      /\ filtered_frames' = filtered_frames \cup S
      /\ FixExistingFrames => S \cap existing_frame_ids = {}
      /\ UNCHANGED <<num_reg_trials, existing_frame_ids, failures>>
  BY DEF FilterFrames
<1>3. Core' /\ Held' /\ OthersStay /\ Reg' = Reg \ S
  BY <1>1, <1>2, Filters
<1>4. filtered_frames \subseteq Frames
  BY DEF IInv, Kinds
<1> QED BY <1>1, <1>2, <1>3, <1>4

LEMMA EnteredLoop ==
    ASSUME IInv, NEW r \in SUBSET Frames, EnterLoop(r)
    PROVE  /\ {reg_next_success', prev_reg_next_success', grew'} \subseteq BOOLEAN
           /\ flag' \in DOMAIN Flags /\ reg_trial' \in Nat
           /\ fresh' \subseteq Images /\ others' \subseteq Images
           /\ ba_prev_num_reg_frames' \in 0 .. Cardinality(Frames)
<1>1. ba_prev_num_reg_frames' \in 0 .. Cardinality(Frames)
  BY OfFrames DEF EnterLoop
<1> QED BY <1>1 DEF EnterLoop, IInv, Kinds

LEMMA CheckInitialPairStep == ASSUME IInv, CheckInitialPair PROVE IInv'
<1>1. PICK S \in SUBSET Reg : \E enough \in BOOLEAN :
         /\ FilterFrames(S)
         /\ IF enough /\ Reg \ S # {}
            THEN pc' = "loop" /\ EnterLoop(Reg \ S) /\ UNCHANGED status
            ELSE Finish("BAD_INITIAL_PAIR") /\ UNCHANGED loop
  BY DEF CheckInitialPair
<1>2. pc = "check" /\ ~Between /\ UNCHANGED <<cur, seeds, stage, trial, stopped, unknownRig>>
  BY DEF CheckInitialPair, Between
<1>3. /\ Core' /\ Held' /\ OthersStay /\ Reg' = Reg \ S /\ Reg' \in SUBSET Frames
      /\ filtered_frames' \subseteq Frames
      /\ UNCHANGED <<num_reg_trials, existing_frame_ids, failures>>
      /\ FixExistingFrames /\ existing_frame_ids \subseteq Reg => existing_frame_ids \subseteq Reg'
  BY <1>1, <1>2, FilteredFrames
<1>4. \/ pc' = "loop" /\ UNCHANGED status /\ EnterLoop(Reg')
      \/ pc' = "end" /\ status' = "BAD_INITIAL_PAIR" /\ UNCHANGED loop
  BY <1>1, <1>3 DEF Finish
<1>5. cur # 0
  BY <1>2, AtWork
<1>6. /\ Books' /\ Room' /\ SmallModelsDiscarded' /\ ImportedHeld' /\ TrialsCounted'
      /\ cur' = 0 <=> Between'
  <2>1. pc' \in InWork /\ UNCHANGED <<stage, trial, unknownRig, init_num_reg_trials>>
    BY <1>2, <1>4 DEF InWork, seeds
  <2> QED BY <1>2, <1>3, <1>5, <2>1, InsideSteps
<1>7. Kinds'
  <2>1. /\ {reg_next_success', prev_reg_next_success', grew'} \subseteq BOOLEAN
        /\ flag' \in DOMAIN Flags /\ reg_trial' \in Nat
        /\ fresh' \subseteq Images /\ others' \subseteq Images
        /\ ba_prev_num_reg_frames' \in 0 .. Cardinality(Frames)
    <3>1. CASE EnterLoop(Reg')
      <4> DEFINE r == Reg'
      <4>1. r \in SUBSET Frames /\ EnterLoop(r)
        BY <1>3, <3>1
      <4> HIDE DEF r
      <4> QED BY <4>1, EnteredLoop
    <3>2. CASE UNCHANGED loop
      BY <3>2 DEF loop, IInv, Kinds
    <3> QED BY <1>4, <3>1, <3>2
  <2>2. status' \in Statuses
    BY <1>4 DEF Statuses, IInv, Kinds
  <2> QED BY <1>2, <1>3, <1>4, <2>1, <2>2 DEF IInv, Kinds, seeds
<1>8. Placed'
  BY <1>4, <1>6 DEF Placed
<1> QED BY <1>3, <1>6, <1>7, <1>8 DEF IInv

LEMMA RefineStep == ASSUME IInv, Refine PROVE IInv'
<1>1. /\ pc = "refine" /\ pc' = "post" /\ ~Between /\ LeaveCandidates
      /\ UNCHANGED <<reg_next_success, prev_reg_next_success, grew, pipe>>
  BY DEF Refine, Between
<1>2. cur # 0 /\ Core /\ Held /\ Reg \in SUBSET Frames
  BY <1>1, AtWork
<1>3. /\ Core' /\ Held' /\ OthersStay
      /\ filtered_frames' \subseteq Frames
      /\ UNCHANGED <<num_reg_trials, existing_frame_ids, failures>>
      /\ FixExistingFrames /\ existing_frame_ids \subseteq Reg => existing_frame_ids \subseteq Reg'
      /\ ba_prev_num_reg_frames' \in 0 .. Cardinality(Frames)
  <2>1. CASE \E S \in SUBSET Reg :
               FilterFrames(S) /\ ba_prev_num_reg_frames' = Cardinality(Reg \ S)
    <3>1. PICK S \in SUBSET Reg :
               FilterFrames(S) /\ ba_prev_num_reg_frames' = Cardinality(Reg \ S)
      BY <2>1
    <3>2. cur' = cur
      BY <1>1 DEF pipe
    <3>3. /\ Core' /\ Held' /\ OthersStay
          /\ filtered_frames' \subseteq Frames
          /\ UNCHANGED <<num_reg_trials, existing_frame_ids, failures>>
          /\ FixExistingFrames /\ existing_frame_ids \subseteq Reg => existing_frame_ids \subseteq Reg'
      BY <1>1, <3>1, <3>2, FilteredFrames
    <3>4. Reg \ S \in SUBSET Frames
      BY <1>2
    <3>5. ba_prev_num_reg_frames' \in 0 .. Cardinality(Frames)
      BY <3>1, <3>4, OfFrames
    <3> QED BY <3>3, <3>5
  <2>2. CASE UNCHANGED <<models, stats, model, ba_prev_num_reg_frames>>
    <3>1. Core' /\ Held' /\ Reg' = Reg /\ OthersStay
      BY <1>1, <1>2, <2>2, Rests DEF pipe
    <3> QED BY <2>2, <3>1 DEF model, IInv, Kinds
  <2> QED BY <2>1, <2>2 DEF Refine
<1>6. /\ Books' /\ Room' /\ SmallModelsDiscarded' /\ ImportedHeld' /\ TrialsCounted'
      /\ cur' = 0 <=> Between'
  BY <1>1, <1>2, <1>3, InsideSteps DEF InWork, pipe, seeds
<1>7. Kinds'
  <2>1. flag' \in DOMAIN Flags /\ fresh' = {} /\ others' = {} /\ reg_trial' = 0
    BY <1>1, TheFlags DEF LeaveCandidates
  <2> QED BY <1>1, <1>3, <2>1 DEF IInv, Kinds, pipe, seeds
<1>8. Placed'
  BY <1>1, <1>6 DEF Placed
<1> QED BY <1>3, <1>6, <1>7, <1>8 DEF IInv

LEMMA EndPassStep == ASSUME IInv, EndPass PROVE IInv'
<1>1. /\ pc = "post" /\ pc' \in {"loop", "after"} /\ ~Between /\ UNCHANGED <<loop, pipe>>
      /\ \/ \E S \in SUBSET Reg : FilterFrames(S)
         \/ UNCHANGED <<models, stats, model>>
  BY DEF EndPass, Between
<1>2. cur # 0 /\ Core /\ Held /\ cur' = cur
  BY <1>1, AtWork DEF pipe
<1>3. /\ Core' /\ Held' /\ OthersStay
      /\ filtered_frames' \subseteq Frames
      /\ UNCHANGED <<num_reg_trials, existing_frame_ids, failures>>
      /\ FixExistingFrames /\ existing_frame_ids \subseteq Reg => existing_frame_ids \subseteq Reg'
  <2>1. CASE \E S \in SUBSET Reg : FilterFrames(S)
    BY <1>1, <1>2, <2>1, FilteredFrames
  <2>2. CASE UNCHANGED <<models, stats, model>>
    <3>1. Core' /\ Held' /\ Reg' = Reg /\ OthersStay
      BY <1>1, <1>2, <2>2, Rests DEF pipe
    <3> QED BY <2>2, <3>1 DEF model, IInv, Kinds
  <2> QED BY <1>1, <2>1, <2>2
<1>6. /\ Books' /\ Room' /\ SmallModelsDiscarded' /\ ImportedHeld' /\ TrialsCounted'
      /\ cur' = 0 <=> Between'
  BY <1>1, <1>2, <1>3, InsideSteps DEF InWork, pipe, seeds
<1>7. Kinds'
  BY <1>1, <1>3 DEF IInv, Kinds, pipe, seeds, loop
<1>8. Placed'
  BY <1>1, <1>6 DEF Placed
<1> QED BY <1>3, <1>6, <1>7, <1>8 DEF IInv

LEMMA AfterLoopStep == ASSUME IInv, AfterLoop PROVE IInv'
<1>1. /\ pc = "after" /\ pc' = "end" /\ ~Between
      /\ UNCHANGED <<loop, cur, seeds, stage, trial, stopped, unknownRig>>
      /\ status' = IF stopped THEN "INTERRUPTED" ELSE "SUCCESS"
      /\ \E S \in SUBSET Reg : FilterFrames(S)
  BY DEF AfterLoop, Between, Finish
<1>2. cur # 0
  BY <1>1, AtWork
<1>3. /\ Core' /\ Held' /\ OthersStay
      /\ filtered_frames' \subseteq Frames
      /\ UNCHANGED <<num_reg_trials, existing_frame_ids, failures>>
      /\ FixExistingFrames /\ existing_frame_ids \subseteq Reg => existing_frame_ids \subseteq Reg'
  BY <1>1, FilteredFrames
<1>4. status' \in {"SUCCESS", "INTERRUPTED"} /\ (status' = "INTERRUPTED" => stopped')
  BY <1>1
<1>6. /\ Books' /\ Room' /\ SmallModelsDiscarded' /\ ImportedHeld' /\ TrialsCounted'
      /\ cur' = 0 <=> Between'
  BY <1>1, <1>2, <1>3, <1>4, InsideSteps DEF InWork, seeds
<1>7. Kinds'
  BY <1>1, <1>3, <1>4 DEF IInv, Kinds, Statuses, seeds, loop
<1>8. Placed'
  BY <1>1, <1>4, <1>6 DEF Placed
<1> QED BY <1>3, <1>6, <1>7, <1>8 DEF IInv

-----------------------------------------------------------------------------
(* Steps that register frames. *)

LEMMA RegisteredFrame ==
    ASSUME IInv, pc = "attempt", NEW i \in Candidates, RegisterFrame(FrameOf[i]), cur' = cur
    PROVE  /\ i \in Images /\ i \in fresh \cup others
           /\ Core' /\ Held' /\ OthersStay /\ Reg' = Reg \cup {FrameOf[i]} /\ grew' = TRUE
<1>1. cur # 0 /\ Core /\ Held
  BY AtWork DEF Between
<1>2. i \in fresh \cup others /\ i \in Images
  BY DEF Candidates, IInv, Kinds
<1> DEFINE G == {FrameOf[i]}
           k == Once(G)
<1>3. /\ G \in SUBSET Frames /\ k \in [Images -> 0 .. 2]
      /\ \A j \in Images : (k[j] > 0 <=> FrameOf[j] \in G) /\ k[j] < 2
  BY <1>2, Constants DEF Once
<1>4. AcrossFrames => Reg \cap G = {}
  BY <1>2 DEF IInv, Placed
<1>5. /\ models' = [models EXCEPT ![cur] = @ \cup G]
      /\ RegisterFrameEvents(k, num_shared_reg_images) /\ grew' = TRUE
  BY DEF RegisterFrame
<1> HIDE DEF k, G
<1>6. Core' /\ Held' /\ OthersStay /\ Reg' = Reg \cup G
  BY <1>1, <1>3, <1>4, <1>5, Adds
<1> QED BY <1>2, <1>5, <1>6 DEF G

LEMMA CountedTrials ==
    ASSUME IInv
    PROVE  /\ \A sl \in BOOLEAN, S \in SUBSET Images : CountTrials(sl, S) =>
                 /\ num_reg_trials' \in [BOOLEAN -> [Images -> Nat]]
                 /\ \A t \in BOOLEAN, i \in Images :
                       num_reg_trials'[t][i] = num_reg_trials[t][i] + IF t = sl /\ i \in S THEN 1 ELSE 0
           /\ \A i \in Images : CountNextImage(i) => num_reg_trials' \in [BOOLEAN -> [Images -> Nat]]
<1>1. num_reg_trials \in [BOOLEAN -> [Images -> Nat]]
  BY DEF IInv, Kinds
<1>2. ASSUME NEW sl \in BOOLEAN, NEW S \in SUBSET Images, CountTrials(sl, S)
      PROVE  /\ num_reg_trials' \in [BOOLEAN -> [Images -> Nat]]
             /\ \A t \in BOOLEAN, i \in Images :
                   num_reg_trials'[t][i] = num_reg_trials[t][i] + IF t = sl /\ i \in S THEN 1 ELSE 0
  <2> DEFINE old == num_reg_trials[sl]
             new == [i \in Images |-> old[i] + (IF i \in S THEN 1 ELSE 0)]
  <2>1. num_reg_trials' = [num_reg_trials EXCEPT ![sl] = new]
    BY <1>2 DEF CountTrials
  <2>2. \A t \in BOOLEAN : num_reg_trials[t] \in [Images -> Nat]
    BY <1>1
  <2>3. old \in [Images -> Nat]
    BY <2>2
  <2> HIDE DEF old
  <2>4. \A i \in Images : old[i] \in Nat
    BY <2>3
  <2>5. new \in [Images -> Nat]
    BY <2>4
  <2>6. \A i \in Images : new[i] = old[i] + IF i \in S THEN 1 ELSE 0
    OBVIOUS
  <2> HIDE DEF new
  <2>7. num_reg_trials' \in [BOOLEAN -> [Images -> Nat]]
    BY <1>1, <2>1, <2>5
  <2>8. \A t \in BOOLEAN : num_reg_trials'[t] = IF t = sl THEN new ELSE num_reg_trials[t]
    BY <1>1, <2>1
  <2>9. ASSUME NEW t \in BOOLEAN, NEW i \in Images
        PROVE  num_reg_trials'[t][i] = num_reg_trials[t][i] + IF t = sl /\ i \in S THEN 1 ELSE 0
    <3>1. CASE t = sl
      BY <2>6, <2>8, <3>1 DEF old
    <3>2. CASE t # sl
      <4>1. num_reg_trials[t][i] \in Nat /\ num_reg_trials'[t][i] = num_reg_trials[t][i]
        BY <2>2, <2>8, <3>2
      <4> QED BY <3>2, <4>1
    <3> QED BY <3>1, <3>2
  <2> QED BY <2>7, <2>9
<1> QED BY <1>2 DEF CountNextImage, ImagesOf

LEMMA RegisteredStep == ASSUME IInv, Registered PROVE IInv'
<1>1. PICK i \in Candidates :
         /\ RegisterFrame(FrameOf[i])
         /\ IF Flags[flag] THEN CountTrials(TRUE, {i}) ELSE CountNextImage(i)
  BY DEF Registered
<1>2. /\ pc = "attempt" /\ reg_next_success' = TRUE /\ pc' = "refine" /\ ~Between
      /\ UNCHANGED <<filtered_frames, existing_frame_ids, failures, prev_reg_next_success,
                     flag, fresh, others, reg_trial, ba_prev_num_reg_frames, pipe>>
  BY DEF Registered, Between
<1>3. /\ i \in Images /\ Core' /\ Held' /\ OthersStay
      /\ Reg' = Reg \cup {FrameOf[i]} /\ grew' = TRUE
  BY <1>1, <1>2, RegisteredFrame DEF pipe
<1>4. num_reg_trials' \in [BOOLEAN -> [Images -> Nat]]
  BY <1>1, <1>3, CountedTrials
<1>5. cur # 0
  BY <1>2, AtWork
<1>6. /\ Books' /\ Room' /\ SmallModelsDiscarded' /\ ImportedHeld' /\ TrialsCounted'
      /\ cur' = 0 <=> Between'
  BY <1>2, <1>3, <1>5, InsideSteps DEF InWork, pipe, seeds
<1>7. Kinds'
  BY <1>2, <1>3, <1>4 DEF IInv, Kinds, pipe, seeds
<1>8. Placed'
  BY <1>2, <1>6 DEF Placed
<1> QED BY <1>3, <1>6, <1>7, <1>8 DEF IInv

LEMMA Failed ==
    ASSUME IInv, NEW i \in Images, NextCandidate(i)
    PROVE  /\ fresh' \subseteq fresh \ {i} /\ others' \subseteq others \ {i}
           /\ reg_trial' \in Nat /\ failures' \in [BOOLEAN -> [Images -> 0..MaxRegTrials]]
           /\ UNCHANGED <<filtered_frames, existing_frame_ids, reg_next_success,
                          prev_reg_next_success, flag, ba_prev_num_reg_frames>>
<1>1. /\ fresh' \subseteq fresh \ {i} /\ others' \subseteq others \ {i} /\ reg_trial' = reg_trial + 1
      /\ UNCHANGED <<filtered_frames, existing_frame_ids, reg_next_success,
                     prev_reg_next_success, flag, ba_prev_num_reg_frames>>
  BY DEF NextCandidate
<1>2. reg_trial \in Nat /\ failures \in [BOOLEAN -> [Images -> 0..MaxRegTrials]]
      /\ Flags[flag] \in BOOLEAN
  BY TheFlags DEF IInv, Kinds
<1> DEFINE sl == Flags[flag]
           new == [failures[sl] EXCEPT ![i] = IF @ < MaxRegTrials THEN @ + 1 ELSE @]
<1>3. failures' = [failures EXCEPT ![sl] = new]
  BY DEF NextCandidate
<1> HIDE DEF sl
<1>4. sl \in BOOLEAN
  BY <1>2 DEF sl
<1>5. failures[sl] \in [Images -> 0..MaxRegTrials] /\ MaxRegTrials \in Nat
  BY <1>2, <1>4, Constants
<1>6. new \in [Images -> 0..MaxRegTrials]
  BY <1>5
<1> HIDE DEF new
<1>7. failures' \in [BOOLEAN -> [Images -> 0..MaxRegTrials]]
  BY <1>2, <1>3, <1>4, <1>6
<1> QED BY <1>1, <1>2, <1>7

LEMMA NotRegisteredStep == ASSUME IInv, NotRegistered PROVE IInv'
<1>1. PICK i \in Candidates :
         /\ UNCHANGED <<models, cur, stats, grew>>
         /\ IF Flags[flag] THEN CountTrials(TRUE, {i}) ELSE CountNextImage(i)
         /\ NextCandidate(i)
  BY DEF NotRegistered
<1>2. pc = "attempt" /\ ~Between /\ UNCHANGED <<pc, pipe>>
  BY DEF NotRegistered, Between
<1>3. i \in Images
  BY DEF Candidates, IInv, Kinds
<1>4. num_reg_trials' \in [BOOLEAN -> [Images -> Nat]]
  BY <1>1, <1>3, CountedTrials
<1>5. cur # 0 /\ Core
  BY <1>2, AtWork
<1>9. /\ fresh' \subseteq fresh \ {i} /\ others' \subseteq others \ {i}
      /\ reg_trial' \in Nat /\ failures' \in [BOOLEAN -> [Images -> 0..MaxRegTrials]]
      /\ UNCHANGED <<filtered_frames, existing_frame_ids, reg_next_success,
                     prev_reg_next_success, flag, ba_prev_num_reg_frames>>
  BY <1>1, <1>3, Failed
<1>10. Core' /\ (Held => Held') /\ Reg' = Reg /\ OthersStay
  BY <1>1, <1>5, Rests
<1>6. /\ Books' /\ Room' /\ SmallModelsDiscarded' /\ ImportedHeld' /\ TrialsCounted'
      /\ cur' = 0 <=> Between'
  <2>1. Held' /\ pc' \in InWork
    BY <1>2, <1>10, AtWork DEF InWork
  <2> QED BY <1>2, <1>5, <1>9, <1>10, <2>1, InsideSteps DEF pipe, seeds
<1>7. Kinds'
  BY <1>1, <1>2, <1>4, <1>9 DEF IInv, Kinds, pipe, seeds
<1>8. Placed'
  <2>1. AcrossFrames' <=> AcrossFrames
    BY DEF AcrossFrames
  <2> QED BY <1>2, <1>6, <1>9, <1>10, <2>1 DEF IInv, Placed
<1> QED BY <1>6, <1>7, <1>8, <1>10 DEF IInv

LEMMA RefinementFailedStep == ASSUME IInv, RefinementFailed PROVE IInv'
<1>1. PICK i \in Candidates :
         RegisterFrame(FrameOf[i]) /\ CountTrials(TRUE, {i}) /\ NextCandidate(i)
  BY DEF RefinementFailed
<1>2. pc = "attempt" /\ Flags[flag] /\ ~Between /\ UNCHANGED <<pc, pipe>>
  BY DEF RefinementFailed, Between
<1>3. /\ i \in Images /\ Core' /\ Held' /\ OthersStay
      /\ Reg' = Reg \cup {FrameOf[i]} /\ grew' = TRUE
  BY <1>1, <1>2, RegisteredFrame DEF pipe
<1>4. num_reg_trials' \in [BOOLEAN -> [Images -> Nat]]
  BY <1>1, <1>3, CountedTrials
<1>5. cur # 0
  BY <1>2, AtWork
<1>9. /\ fresh' \subseteq fresh \ {i} /\ others' \subseteq others \ {i}
      /\ reg_trial' \in Nat /\ failures' \in [BOOLEAN -> [Images -> 0..MaxRegTrials]]
      /\ UNCHANGED <<filtered_frames, existing_frame_ids, reg_next_success,
                     prev_reg_next_success, flag, ba_prev_num_reg_frames>>
  BY <1>1, <1>3, Failed
<1>6. /\ Books' /\ Room' /\ SmallModelsDiscarded' /\ ImportedHeld' /\ TrialsCounted'
      /\ cur' = 0 <=> Between'
  BY <1>2, <1>3, <1>5, <1>9, InsideSteps DEF InWork, pipe, seeds
<1>7. Kinds'
  BY <1>2, <1>3, <1>4, <1>9 DEF IInv, Kinds, pipe, seeds
<1>8. Placed'
  <2> SUFFICES ASSUME AcrossFrames, NEW j \in fresh' \cup others' PROVE FrameOf[j] \notin Reg'
    BY <1>2, <1>6 DEF Placed, AcrossFrames
  <2>1. j \in fresh \cup others /\ j # i /\ j \in Images
    BY <1>9 DEF IInv, Kinds
  <2>2. FrameOf[j] \notin Reg
    BY <1>2, <2>1 DEF IInv, Placed
  <2>3. flag \in DOMAIN Flags
    BY DEF IInv, Kinds
  <2>4. FrameOf[j] # FrameOf[i]
    BY <1>2, <1>3, <2>1, <2>3 DEF AcrossFrames
  <2> QED BY <1>3, <2>2, <2>4
<1> QED BY <1>3, <1>6, <1>7, <1>8 DEF IInv

(* The images of a pair are two. *)
LEMMA TwoImages == \A x, y : Cardinality({x, y}) = 2 => x # y
<1> SUFFICES ASSUME NEW x PROVE Cardinality({x, x}) # 2
  OBVIOUS
<1> QED BY FS_Singleton

LEMMA PairsAreTwo ==
    ASSUME NEW a, NEW b,
           NEW Tried \in SUBSET (SeedPairs \ init_image_pairs),
           IF IsInitialPairProvided THEN {a, b} = Provided /\ Tried = {} ELSE {a, b} \in Tried
    PROVE  /\ a # b /\ {a, b} \in Connected \cup {Provided} /\ Provided \subseteq {a, b}
           /\ {a, b} \ Provided \subseteq Unregistered
<1>1. \A e \in Connected : Cardinality(e) = 2
  BY PipelineAssumption DEF PipelineAssumption
<1>2. CASE IsInitialPairProvided
  BY <1>2, TwoImages DEF IsInitialPairProvided
<1>3. CASE ~IsInitialPairProvided
  <2>1. {a, b} \in SeedPairs
    BY <1>3
  <2>2. {a, b} \in Connected /\ Provided \subseteq {a, b} /\ {a, b} \ Provided \subseteq Unregistered
    BY <2>1 DEF SeedPairs
  <2> QED BY <1>1, <2>2, TwoImages
<1> QED BY <1>2, <1>3

LEMMA InitialPairStep == ASSUME IInv, InitialPair PROVE IInv'
<1>1. PICK a \in Images, b \in Images, Tried \in SUBSET (SeedPairs \ init_image_pairs) :
         /\ IF IsInitialPairProvided THEN {a, b} = Provided /\ Tried = {} ELSE {a, b} \in Tried
         /\ init_image_pairs' = init_image_pairs \cup Tried \cup {{a, b}}
         /\ RegisterInitialImagePair(a, b)
  BY DEF InitialPair
<1>2. /\ pc = "init" /\ pc' = "check" /\ ~Between
      /\ UNCHANGED <<cur, filtered_frames, existing_frame_ids, failures, stage, trial,
                     status, loop, stopped, unknownRig>>
  BY DEF InitialPair, Between
<1>3. cur # 0 /\ Core /\ Held /\ Reg = {} /\ Reg \in SUBSET Frames
  BY <1>2, AtWork DEF IInv, Placed
<1>4. a # b /\ {a, b} \in Connected \cup {Provided}
  BY <1>1, PairsAreTwo
<1> DEFINE G == {FrameOf[a], FrameOf[b]}
           k == [i \in Images |-> Once({FrameOf[a]})[i] + Once({FrameOf[b]})[i]]
<1>5. /\ G \in SUBSET Frames /\ k \in [Images -> 0 .. 2]
      /\ \A i \in Images : k[i] > 0 <=> FrameOf[i] \in G
  <2>1. FrameOf[a] \in Frames /\ FrameOf[b] \in Frames
    BY Constants
  <2> QED BY <2>1 DEF Once
<1>6. AcrossFrames => (\A i \in Images : k[i] < 2) /\ Reg \cap G = {}
  <2>1. AcrossFrames => FrameOf[a] # FrameOf[b]
    BY <1>4 DEF AcrossFrames
  <2> QED BY <1>3, <2>1 DEF Once
<1>7. /\ models' = [models EXCEPT ![cur] = @ \cup G]
      /\ RegisterFrameEvents(k, num_shared_reg_images)
  BY <1>1 DEF RegisterInitialImagePair
<1> HIDE DEF k, G
<1>8. Core' /\ Held' /\ OthersStay /\ Reg' = Reg \cup G
  BY <1>2, <1>3, <1>5, <1>6, <1>7, Adds
<1>9. /\ Books' /\ Room' /\ SmallModelsDiscarded' /\ ImportedHeld'
      /\ cur' = 0 <=> Between'
  BY <1>2, <1>3, <1>8, InsideSteps DEF InWork
<1>10. /\ trial < InitNumTrials /\ trial \in Nat /\ InitNumTrials \in Nat
       /\ \A i \in Images : init_num_reg_trials[i] \in Nat /\ init_num_reg_trials[i] <= trial
  BY <1>2, Constants DEF IInv, TrialsCounted, Kinds
<1>11. init_num_reg_trials'
          = [i \in Images |-> init_num_reg_trials[i] + (IF i \in {a, b} THEN 1 ELSE 0)]
  BY <1>1 DEF RegisterInitialImagePair
<1>12. init_num_reg_trials' \in [Images -> 0 .. InitNumTrials]
       /\ \A i \in Images : init_num_reg_trials'[i] <= trial + 1
  BY <1>10, <1>11
<1>13. TrialsCounted'
  BY <1>2, <1>10, <1>12 DEF TrialsCounted
<1>14. init_image_pairs' \subseteq Connected \cup {Provided}
  BY <1>1, <1>4 DEF IInv, Kinds, SeedPairs
<1>15. num_reg_trials' \in [BOOLEAN -> [Images -> Nat]]
  BY <1>1, CountedTrials DEF RegisterInitialImagePair
<1>16. Kinds'
  BY <1>2, <1>12, <1>14, <1>15 DEF IInv, Kinds, loop
<1>17. Placed'
  BY <1>2, <1>9 DEF Placed
<1> QED BY <1>8, <1>9, <1>13, <1>16, <1>17 DEF IInv

-----------------------------------------------------------------------------
(* Steps between the models. *)

LEMMA Alone ==
    ASSUME NEW ms \in Seq(SUBSET Frames), Len(ms) = 1
    PROVE  ms # <<>> /\ \A i \in Images : N(ms, i) = In(i, ms[1])
<1>1. ms # <<>> /\ Len(ms) = 1
  BY EmptySeq
<1> DEFINE new == [k \in 1 .. Len(ms) - 1 |-> ms[IF k < Len(ms) THEN k ELSE k + 1]]
<1>2. /\ new \in Seq(SUBSET Frames) /\ Len(new) = Len(ms) - 1
      /\ \A i \in Images : N(new, i) + In(i, ms[Len(ms)]) = N(ms, i)
  BY <1>1, Shortened
<1> HIDE DEF new
<1>3. DOMAIN new = 1 .. 0
  BY <1>1, <1>2, LenProperties
<1>4. \A i \in Images : N(new, i) = 0
  <2>1. \A j : j \notin DOMAIN new
    BY <1>3
  <2> QED BY <1>2, <2>1, Counted
<1>5. \A i \in Images : 0 + In(i, ms[1]) = In(i, ms[1])
  BY DEF In
<1> QED BY <1>1, <1>2, <1>4, <1>5

LEMMA EndTrialsStep == ASSUME IInv, EndTrials PROVE IInv'
<1>1. /\ pc = "trial" /\ pc' = "return" /\ Between /\ Between'
      /\ trial >= InitNumTrials \/ stopped
      /\ status' = IF trial >= InitNumTrials THEN "CONTINUE" ELSE "STOP"
      /\ UNCHANGED <<models, cur, stats, seeds, model, stage, trial, loop, stopped, unknownRig>>
  BY DEF EndTrials, Between
<1>2. Core' /\ (Held => Held') /\ Reg' = Reg
  BY <1>1, Rests DEF IInv
<1>3. trial \in Nat /\ InitNumTrials \in Nat \ {0} /\ (FirstTrial => status' = "STOP")
  BY <1>1, Constants DEF IInv, Kinds, FirstTrial
<1>4. Books'
  <2>1. NotBegun => NotBegun'
    BY <1>1, <1>3 DEF NotBegun, FirstTrial, stats
  <2>2. ~FirstTrial'
    BY <1>1 DEF FirstTrial
  <2> QED BY <1>2, <2>1, <2>2 DEF IInv, Books
<1>5. Kinds'
  BY <1>1 DEF IInv, Kinds, Statuses, seeds, model, loop
<1>6. Placed'
  BY <1>1 DEF IInv, Placed
<1>7. Room'
  BY <1>1, <1>3 DEF IInv, Room, FirstTrial
<1>8. TrialsCounted'
  BY <1>1 DEF IInv, TrialsCounted
<1>9. ImportedHeld'
  BY <1>1 DEF IInv, ImportedHeld, FramesHaveImages, model
<1>10. SmallModelsDiscarded'
  BY <1>1 DEF IInv, SmallModelsDiscarded, min_model_size
<1> QED BY <1>2, <1>4, <1>5, <1>6, <1>7, <1>8, <1>9, <1>10 DEF IInv

LEMMA ReturnStep == ASSUME IInv, Return PROVE IInv'
<1>1. /\ pc = "return" /\ Between /\ cur = 0
      /\ UNCHANGED <<models, cur, stats, model, status, loop, stopped, unknownRig>>
  BY DEF Return, Between, IInv, Placed
<1>2. Core' /\ (Held => Held') /\ Reg' = Reg
  BY <1>1, Rests DEF IInv
<1>3. \/ pc' = "done" /\ UNCHANGED <<stage, trial, seeds>>
      \/ /\ pc' = "trial" /\ status # "STOP" /\ stage # LastStage
         /\ stage' = stage + 1 /\ trial' = 0 /\ init_image_pairs' = {}
         /\ init_num_reg_trials' = [i \in Images |-> 0]
  BY DEF Return
<1>4. stage \in 0 .. LastStage /\ LastStage \in Nat
  BY Constants DEF IInv, Kinds
<1>5. Between' /\ ~FirstTrial'
  BY <1>3, <1>4 DEF Between, FirstTrial
<1>6. Books'
  <2>1. CASE pc' = "done"
    <3>1. NotBegun => NotBegun'
      BY <1>1, <1>3, <1>5, <2>1 DEF NotBegun, stats
    <3> QED BY <1>2, <1>5, <3>1 DEF IInv, Books
  <2>2. CASE status # "STOP"
    BY <1>1, <1>2, <1>5, <2>2 DEF IInv, Books, NotBegun
  <2> QED BY <1>3, <2>1, <2>2
<1>7. Kinds'
  <2>1. /\ init_image_pairs' \subseteq Connected \cup {Provided}
        /\ init_num_reg_trials' \in [Images -> 0..InitNumTrials]
        /\ stage' \in 0..LastStage /\ trial' \in 0..InitNumTrials
    <3>1. CASE pc' = "done"
      BY <1>3, <3>1 DEF IInv, Kinds, seeds
    <3>2. CASE pc' = "trial"
      <4>1. InitNumTrials \in Nat /\ stage + 1 \in 0 .. LastStage
        BY <1>3, <1>4, <3>2, Constants
      <4>2. [i \in Images |-> 0] \in [Images -> 0..InitNumTrials]
        BY <4>1
      <4> QED BY <1>3, <3>2, <4>1, <4>2
    <3> QED BY <1>3, <3>1, <3>2
  <2> QED BY <1>1, <1>3, <2>1 DEF IInv, Kinds, model, loop
<1>8. Placed'
  BY <1>1, <1>3, <1>5 DEF Placed
<1>9. Room'
  BY <1>1, <1>3 DEF IInv, Room, FirstTrial
<1>10. TrialsCounted'
  BY <1>3, <1>5 DEF TrialsCounted
<1>11. ImportedHeld'
  BY <1>1 DEF IInv, ImportedHeld, FramesHaveImages, model
<1>12. SmallModelsDiscarded'
  BY <1>1 DEF IInv, SmallModelsDiscarded, min_model_size
<1> QED BY <1>2, <1>6, <1>7, <1>8, <1>9, <1>10, <1>11, <1>12 DEF IInv

LEMMA BeginTrialStep == ASSUME IInv, BeginTrial PROVE IInv'
<1> DEFINE continue == stage = 0 /\ trial = 0 /\ models # <<>>
           ms == IF continue THEN models ELSE Append(models, {})
           idx == IF continue THEN 1 ELSE Len(ms)
<1>1. /\ pc = "trial" /\ trial < InitNumTrials /\ ~stopped
      /\ UNCHANGED <<seeds, stage, trial, stopped, unknownRig>>
      /\ BeginReconstruction(ms, idx)
      /\ \/ unknownRig /\ Finish("UNKNOWN_SENSOR_FROM_RIG") /\ UNCHANGED loop
         \/ ~unknownRig /\ ms[idx] = {} /\ pc' = "init" /\ UNCHANGED <<status, loop>>
         \/ ~unknownRig /\ ms[idx] # {} /\ pc' = "loop" /\ EnterLoop(ms[idx]) /\ UNCHANGED status
  BY DEF BeginTrial
<1>2. /\ Core /\ cur = 0 /\ models \in Seq(SUBSET Frames) /\ Len(models) \in Nat
      /\ DOMAIN models = 1 .. Len(models) /\ Len(models) <= MaxNumModels
      /\ MaxNumModels \in Nat \ {0}
  BY <1>1, Constants, LenProperties DEF IInv, Core, Placed, Between, Room
<1>3. FirstTrial => /\ models = Imported /\ Len(models) <= 1
               /\ \A i \in Images : num_registrations[i] = 0
  BY Constants DEF IInv, Books, NotBegun
<1>4. ~FirstTrial => Held /\ Len(models) < MaxNumModels /\ (~MultipleModels => Len(models) = 0)
  BY <1>1 DEF IInv, Books, NotBegun, FirstTrial, Room
<1>5. \A i \in Images : num_registrations[i] \in Nat
  BY <1>2 DEF Core
<1>6. /\ ms \in Seq(SUBSET Frames) /\ ms # <<>> /\ idx = Len(ms) /\ Len(ms) \in Nat \ {0}
      /\ DOMAIN ms = 1 .. Len(ms) /\ Len(ms) <= MaxNumModels /\ (~MultipleModels => Len(ms) <= 1)
      /\ \A k \in 1 .. Len(ms) : k # idx => k \in 1 .. Len(models) /\ ms[k] = models[k]
      /\ FirstTrial /\ models # <<>> => ms = Imported
      /\ ~(FirstTrial /\ models # <<>>) =>
            idx = Len(models) + 1 /\ \A k \in 1 .. Len(models) : ms[k] = models[k]
  <2>1. CASE continue
    <3>1. FirstTrial /\ Len(models) = 1 /\ ms = models /\ idx = 1 /\ models = Imported
      BY <1>1, <1>2, <1>3, <2>1, EmptySeq DEF FirstTrial
    <3> HIDE DEF ms, idx
    <3>2. Len(ms) = 1 /\ DOMAIN ms = 1 .. Len(ms)
      BY <1>2, <3>1
    <3>3. 1 .. 1 = {1}
      OBVIOUS
    <3>4. MaxNumModels >= 1
      BY <1>2
    <3> QED BY <1>2, <2>1, <3>1, <3>2, <3>3, <3>4
  <2>2. CASE ~continue
    <3>1. ms = Append(models, {}) /\ idx = Len(ms) /\ ~(FirstTrial /\ models # <<>>)
      BY <2>2, SMTT(30) DEF FirstTrial
    <3>2. /\ ms \in Seq(SUBSET Frames) /\ Len(ms) = Len(models) + 1
          /\ \A j \in 1 .. Len(models) : ms[j] = models[j]
      BY <1>2, <3>1, Lengthened
    <3> HIDE DEF ms, idx, continue
    <3>3. ms # <<>> /\ DOMAIN ms = 1 .. Len(ms)
      BY <1>2, <3>2, EmptySeq, LenProperties
    <3>4. Len(ms) <= MaxNumModels /\ (~MultipleModels => Len(ms) <= 1)
      <4>1. CASE FirstTrial
        <5>1. Len(models) = 0
          BY <1>2, <2>2, <3>1, <4>1, EmptySeq
        <5> QED BY <1>2, <3>2, <5>1
      <4>2. CASE ~FirstTrial
        BY <1>2, <1>4, <3>2, <4>2
      <4> QED BY <4>1, <4>2
    <3>5. \A k \in 1 .. Len(ms) : k # idx => k \in 1 .. Len(models) /\ ms[k] = models[k]
      BY <1>2, <3>1, <3>2
    <3> QED BY <1>2, <3>1, <3>2, <3>3, <3>4, <3>5
  <2> QED BY <2>1, <2>2
<1>7. /\ \A i \in Images : num_registrations[i] + In(i, ms[idx]) >= N(ms, i)
      /\ AcrossFrames => \A i \in Images : num_registrations[i] + In(i, ms[idx]) = N(ms, i)
  <2>1. CASE continue
    <3>1. FirstTrial /\ Len(models) = 1 /\ ms = models /\ idx = 1
      BY <1>1, <1>2, <1>3, <2>1, EmptySeq DEF FirstTrial
    <3> HIDE DEF ms, idx
    <3>2. ASSUME NEW i \in Images PROVE num_registrations[i] = 0 /\ N(ms, i) = In(i, ms[idx])
      BY <1>2, <1>3, <3>1, Alone
    <3>3. \A i \in Images : In(i, ms[idx]) \in Nat
      BY DEF In
    <3> QED BY <3>2, <3>3
  <2>2. CASE ~continue
    <3>1. ms = Append(models, {}) /\ idx = Len(ms) /\ ~(FirstTrial /\ models # <<>>)
      BY <2>2 DEF FirstTrial
    <3>2. /\ ms[Len(models) + 1] = {} /\ Len(ms) = Len(models) + 1
          /\ \A i \in Images : N(ms, i) = N(models, i)
      BY <1>2, <3>1, Lengthened
    <3> HIDE DEF ms, idx, continue
    <3>3. /\ \A i \in Images : num_registrations[i] >= N(models, i)
          /\ AcrossFrames => \A i \in Images : num_registrations[i] = N(models, i)
      <4>1. CASE FirstTrial
        <5>1. DOMAIN models = 1 .. 0
          BY <1>2, <2>2, <3>1, <4>1, EmptySeq
        <5>2. \A j : j \notin DOMAIN models
          BY <5>1
        <5>3. \A i \in Images : N(models, i) = 0
          BY <1>2, <5>2, Counted
        <5> QED BY <1>3, <4>1, <5>3
      <4>2. CASE ~FirstTrial
        BY <1>4, <4>2 DEF Held
      <4> QED BY <4>1, <4>2
    <3>4. \A i \in Images : In(i, ms[idx]) = 0 /\ N(models, i) \in Nat
      BY <1>2, <3>1, <3>2, Counted DEF In
    <3>5. ASSUME NEW i \in Images
          PROVE  num_registrations[i] + In(i, ms[idx]) = num_registrations[i] /\ N(ms, i) = N(models, i)
      BY <1>5, <3>2, <3>4
    <3> QED BY <3>3, <3>5, SMTT(30)
  <2> QED BY <2>1, <2>2
<1> HIDE DEF continue, ms, idx
<1>8. /\ Core' /\ Held' /\ models' = ms /\ cur' = idx /\ Reg' = ms[idx] /\ Reg' \in SUBSET Frames
      /\ existing_frame_ids' = ms[idx] /\ filtered_frames' = {}
      /\ num_reg_trials' = NoTrials /\ failures' = NoTrials
  <2>1. BeginReconstruction(ms, Len(ms))
    BY <1>1, <1>6
  <2>2. /\ \A i \in Images : num_registrations[i] + In(i, ms[Len(ms)]) >= N(ms, i)
        /\ AcrossFrames =>
             \A i \in Images : num_registrations[i] + In(i, ms[Len(ms)]) = N(ms, i)
    BY <1>6, <1>7
  <2>3. ms \in Seq(SUBSET Frames) /\ ms # <<>>
    BY <1>6
  <2>4. /\ Core' /\ Held' /\ models' = ms /\ cur' = Len(ms)
        /\ Reg' = ms[Len(ms)] /\ Reg' \in SUBSET Frames
    BY <1>2, <2>1, <2>2, <2>3, Begins
  <2> QED BY <1>1, <1>6, <2>4 DEF BeginReconstruction
<1>9. /\ pc' \in {"init", "loop", "end"} /\ status' \in {status, "UNKNOWN_SENSOR_FROM_RIG"}
      /\ pc' = "init" => ms[idx] = {}
      /\ pc' = "end" => unknownRig /\ status' = "UNKNOWN_SENSOR_FROM_RIG"
      /\ UNCHANGED loop \/ EnterLoop(ms[idx])
  BY <1>1 DEF Finish
<1>10. ~Between' /\ ~FirstTrial' /\ cur' # 0
  BY <1>6, <1>8, <1>9 DEF Between, FirstTrial
<1>11. Books'
  BY <1>8, <1>10 DEF Books
<1>12. Kinds'
  <2>1. /\ {reg_next_success', prev_reg_next_success', grew'} \subseteq BOOLEAN
        /\ flag' \in DOMAIN Flags /\ reg_trial' \in Nat
        /\ fresh' \subseteq Images /\ others' \subseteq Images
        /\ ba_prev_num_reg_frames' \in 0 .. Cardinality(Frames)
    <3>1. CASE EnterLoop(ms[idx])
      <4> DEFINE r == ms[idx]
      <4>1. r \in SUBSET Frames /\ EnterLoop(r)
        BY <1>8, <3>1
      <4> HIDE DEF r
      <4> QED BY <4>1, EnteredLoop
    <3>2. CASE UNCHANGED loop
      BY <3>2 DEF loop, IInv, Kinds
    <3> QED BY <1>9, <3>1, <3>2
  <2>2. NoTrials \in [BOOLEAN -> [Images -> Nat]] /\ NoTrials \in [BOOLEAN -> [Images -> 0..MaxRegTrials]]
    BY Constants DEF NoTrials
  <2>3. status' \in Statuses
    BY <1>9 DEF Statuses, IInv, Kinds
  <2>4. existing_frame_ids' \subseteq Frames
    BY <1>8
  <2> QED BY <1>1, <1>8, <1>9, <2>1, <2>2, <2>3, <2>4 DEF IInv, Kinds, seeds
<1>13. Placed'
  BY <1>8, <1>9, <1>10 DEF Placed
<1>14. Room'
  BY <1>6, <1>8, <1>9 DEF Room
<1>15. TrialsCounted'
  <2>1. trial \in Nat /\ \A i \in Images : init_num_reg_trials[i] \in Nat /\ init_num_reg_trials[i] <= trial
    BY <1>1, Constants DEF IInv, TrialsCounted, Kinds
  <2> QED BY <1>1, <2>1 DEF TrialsCounted, seeds
<1>16. ImportedHeld'
  <2> SUFFICES ASSUME FramesHaveImages, FixExistingFrames, ~unknownRig,
                      NEW k \in DOMAIN Imported, Imported[k] # {}
               PROVE  /\ k \in DOMAIN ms /\ Imported[k] \subseteq ms[k]
                      /\ idx = 1 => ms[1] = Imported[1] /\ pc' \notin {"init", "check", "end"}
    BY <1>1, <1>8 DEF ImportedHeld, FramesHaveImages
  <2>1. k \in DOMAIN models /\ Imported[k] \subseteq models[k]
    BY DEF IInv, ImportedHeld
  <2>2. k = 1 /\ DOMAIN Imported = 1 .. 1
    BY TheImported, Constants, LenProperties
  <2>3. models # <<>> /\ 1 \in 1 .. Len(models)
    BY <1>2, <2>1, <2>2, EmptySeq
  <2>4. CASE FirstTrial
    BY <1>6, <1>9, <2>2, <2>3, <2>4
  <2>5. CASE ~FirstTrial
    BY <1>2, <1>6, <2>1, <2>2, <2>3, <2>5, SMTT(30)
  <2> QED BY <2>4, <2>5
<1>17. SmallModelsDiscarded'
  <2> SUFFICES ASSUME NEW k \in 2 .. Len(ms), k # idx
               PROVE  Cardinality(ImagesOf(ms[k])) >= min_model_size
    BY <1>8 DEF SmallModelsDiscarded, min_model_size
  <2>1. k \in 2 .. Len(models) /\ ms[k] = models[k] /\ k # 0
    BY <1>2, <1>6
  <2> QED BY <1>1, <1>2, <2>1 DEF IInv, SmallModelsDiscarded
<1> QED BY <1>8, <1>11, <1>12, <1>13, <1>14, <1>15, <1>16, <1>17 DEF IInv

LEMMA EndTrialStep == ASSUME IInv, EndTrial PROVE IInv'
<1>1. /\ pc = "end" /\ ~Between /\ UNCHANGED <<seeds, model, stage, loop, stopped, unknownRig>>
      /\ Keep \/ Discard
      /\ \/ pc' = "return" /\ status' \in {"STOP", "CONTINUE"} /\ UNCHANGED trial
         \/ pc' = "trial" /\ status' = status /\ trial' = trial + 1
  BY DEF EndTrial, Between, LeaveTrials, NextTrial
<1>2. /\ cur # 0 /\ Core /\ Held /\ cur = Len(models) /\ cur \in 1 .. Len(models)
      /\ Reg = models[cur] /\ Reg \in SUBSET Frames /\ Len(models) \in Nat
      /\ DOMAIN models = 1 .. Len(models)
  BY <1>1, AtWork, LenProperties DEF Core
<1>3. Keep => models' = models /\ Core' /\ Held'
  BY <1>2 DEF Keep, Core, Held, stats, AcrossFrames
<1>4. Discard => /\ Len(models') = Len(models) - 1
                 /\ \A k \in 1 .. Len(models) - 1 : models'[k] = models[k]
  BY <1>2, Discards
<1>5. Discard => Core' /\ Held'
  BY <1>2, Discards
<1>6. Core' /\ Held' /\ cur' = 0
  BY <1>1, <1>3, <1>5 DEF Keep, Discard
<1>7. trial \in Nat /\ trial < InitNumTrials /\ InitNumTrials \in Nat
      /\ \A i \in Images : init_num_reg_trials[i] \in Nat /\ init_num_reg_trials[i] <= trial + 1
  BY <1>1, Constants DEF IInv, TrialsCounted, Kinds
<1>8. Between' /\ ~FirstTrial'
  BY <1>1, <1>7 DEF Between, FirstTrial
<1>9. Books'
  BY <1>6, <1>8 DEF Books
<1>10. Kinds'
  <2>1. trial' \in 0 .. InitNumTrials
    BY <1>1, <1>7
  <2> QED BY <1>1, <2>1 DEF IInv, Kinds, Statuses, seeds, model, loop
<1>11. Placed'
  BY <1>1, <1>6, <1>8 DEF Placed
<1>12. TrialsCounted'
  BY <1>1, <1>7, <1>8 DEF TrialsCounted, seeds
<1>13. DOMAIN models' = 1 .. Len(models') /\ Len(models') \in Nat
  BY <1>6, LenProperties DEF Core
<1>14. Room'
  <2>1. /\ MaxNumModels \in Nat /\ Len(models) <= MaxNumModels
        /\ ~MultipleModels => Len(models) <= 1
    BY Constants DEF IInv, Room
  <2>2. CASE Discard
    BY <1>2, <1>4, <2>1, <2>2 DEF Room
  <2>3. CASE Keep
    <3>1. pc' = "trial" \/ status' # "STOP" => MultipleModels /\ ~(Len(models') >= MaxNumModels)
      BY <1>2, <1>4, <2>3 DEF EndTrial, Keep, EnoughModels, LeaveTrials, Discard, NextTrial
    <3> QED BY <1>2, <1>3, <2>1, <2>3, <3>1 DEF Room
  <2> QED BY <1>1, <2>2, <2>3
<1>15. ImportedHeld'
  <2> SUFFICES ASSUME FramesHaveImages, FixExistingFrames, ~unknownRig,
                      NEW k \in DOMAIN Imported, Imported[k] # {}
               PROVE  k \in DOMAIN models' /\ Imported[k] \subseteq models'[k]
    BY <1>1, <1>6 DEF ImportedHeld, FramesHaveImages
  <2>1. /\ k \in DOMAIN models /\ Imported[k] \subseteq models[k]
        /\ cur = 1 => status \in {"SUCCESS", "INTERRUPTED"}
    BY <1>1 DEF IInv, ImportedHeld
  <2>2. k = 1 /\ Imported[k] \in SUBSET Frames
    BY TheImported
  <2>3. CASE Keep
    BY <1>3, <2>1, <2>3
  <2>4. CASE Discard /\ cur # 1
    BY <1>2, <1>4, <1>13, <2>1, <2>2, <2>4
  <2>5. cur = 1 => Keep
    <3>1. ASSUME cur = 1 PROVE NumRegImages # 0 /\ ~(Len(models) > 1)
      <4>1. PICK x : x \in Imported[k]
        OBVIOUS
      <4>2. x \in Frames /\ x \in Reg
        BY <1>2, <2>1, <2>2, <3>1, <4>1
      <4>3. PICK i \in Images : FrameOf[i] = x
        BY <4>2 DEF FramesHaveImages
      <4>4. i \in ImagesOf(Reg) /\ ImagesOf(Reg) \in SUBSET Images
        BY <4>2, <4>3 DEF ImagesOf
      <4>5. Cardinality(ImagesOf(Reg)) # 0
        BY <4>4, OfImages, FS_EmptySet
      <4> QED BY <1>2, <3>1, <4>5 DEF NumRegImages
    <3> QED BY <2>1, <3>1 DEF EndTrial, TooSmall
  <2> QED BY <1>1, <2>3, <2>4, <2>5
<1>16. SmallModelsDiscarded'
  <2> SUFFICES ASSUME NEW k \in 2 .. Len(models')
               PROVE  \/ Cardinality(ImagesOf(models'[k])) >= min_model_size
                      \/ stopped' /\ k = Len(models')
    BY DEF SmallModelsDiscarded, min_model_size
  <2>1. \A j \in 2 .. Len(models) : j # cur => Cardinality(ImagesOf(models[j])) >= min_model_size
    BY <1>2 DEF IInv, SmallModelsDiscarded
  <2>2. CASE Discard
    BY <1>2, <1>4, <2>1, <2>2
  <2>3. CASE Keep /\ k # cur
    BY <1>2, <1>3, <2>1, <2>3
  <2>4. CASE Keep /\ k = cur
    <3>1. k = Len(models') /\ models' = models /\ Len(models) > 1
      BY <1>2, <1>3, <2>4
    <3>2. CASE status = "INTERRUPTED"
      BY <1>1, <3>1, <3>2 DEF IInv, Placed
    <3>3. CASE status # "INTERRUPTED"
      <4>1. MultipleModels /\ ~TooSmall
        <5>1. status = "SUCCESS" /\ ~TooSmall
          BY <2>4, <3>3 DEF EndTrial, Keep, Discard
        <5> QED BY <3>1, <5>1 DEF IInv, Room
      <4>2. ~(NumRegImages < min_model_size)
        BY <3>1, <4>1 DEF TooSmall
      <4>3. NumRegImages \in Nat /\ min_model_size \in Nat
        <5>1. Cardinality(Images) \in Nat /\ MinModelSize \in Nat
          BY Constants, FS_CardinalityType
        <5>2. ImagesOf(Reg) \in SUBSET Images
          BY DEF ImagesOf
        <5> QED BY <5>1, <5>2, OfImages DEF NumRegImages, min_model_size
      <4>4. NumRegImages = Cardinality(ImagesOf(models'[k]))
        BY <1>2, <2>4, <3>1 DEF NumRegImages
      <4> QED BY <4>2, <4>3, <4>4
    <3> QED BY <3>2, <3>3
  <2> QED BY <1>1, <2>2, <2>3, <2>4
<1> QED BY <1>6, <1>9, <1>10, <1>11, <1>12, <1>14, <1>15, <1>16 DEF IInv

LEMMA Start == Init => IInv
<1> SUFFICES ASSUME Init PROVE IInv
  OBVIOUS
<1>1. /\ models = Imported /\ Imported \in Seq(SUBSET Frames) /\ Len(models) \in Nat
      /\ Len(models) <= 1 /\ cur = 0 /\ num_registrations = [i \in Images |-> 0]
      /\ num_total_reg_images = 0 /\ num_shared_reg_images = 0
  BY Constants, LenProperties DEF Init
<1>2. Core
  <2>1. {i \in Images : num_registrations[i] > 0} = {}
    BY <1>1
  <2>2. RegisteredIn(num_registrations) = 0
    BY <2>1, FS_EmptySet DEF RegisteredIn
  <2>3. num_registrations \in [Images -> Nat]
    BY <1>1
  <2> QED BY <1>1, <2>2, <2>3 DEF Core
<1>3. NotBegun /\ FirstTrial
  BY <1>1 DEF Init, NotBegun, Between, FirstTrial
<1>4. Books
  BY <1>3 DEF Books
<1>5. Kinds
  <2>1. 1 \in DOMAIN Flags
    BY TheFlags
  <2>2. NoTrials \in [BOOLEAN -> [Images -> Nat]] /\ NoTrials \in [BOOLEAN -> [Images -> 0..MaxRegTrials]]
    BY Constants DEF NoTrials
  <2>3. Cardinality(Frames) \in Nat
    BY Constants, FS_CardinalityType
  <2>4. [i \in Images |-> 0] \in [Images -> 0..InitNumTrials] /\ LastStage \in Nat /\ InitNumTrials \in Nat
    BY Constants
  <2>5. /\ init_image_pairs = {} /\ init_num_reg_trials = [i \in Images |-> 0]
        /\ num_reg_trials = NoTrials /\ failures = NoTrials
        /\ filtered_frames = {} /\ existing_frame_ids = {}
        /\ pc = "trial" /\ stage = 0 /\ trial = 0 /\ status = "CONTINUE"
    BY DEF Init
  <2>6. /\ reg_next_success = TRUE /\ prev_reg_next_success = TRUE
        /\ flag = 1 /\ fresh = {} /\ others = {} /\ reg_trial = 0
        /\ ba_prev_num_reg_frames = 0 /\ grew = FALSE
        /\ stopped = FALSE /\ unknownRig \in BOOLEAN
    BY DEF Init
  <2>7. /\ num_reg_trials \in [BOOLEAN -> [Images -> Nat]]
        /\ failures \in [BOOLEAN -> [Images -> 0..MaxRegTrials]]
        /\ init_num_reg_trials \in [Images -> 0..InitNumTrials]
    BY <2>2, <2>4, <2>5
  <2>8. /\ {reg_next_success, prev_reg_next_success, stopped, unknownRig, grew} \subseteq BOOLEAN
        /\ fresh \subseteq Images /\ others \subseteq Images /\ flag \in DOMAIN Flags
    BY <2>1, <2>6
  <2>9. /\ stage \in 0..LastStage /\ trial \in 0..InitNumTrials /\ reg_trial \in Nat
        /\ ba_prev_num_reg_frames \in 0..Cardinality(Frames) /\ status \in Statuses
    BY <2>3, <2>4, <2>5, <2>6 DEF Statuses
  <2> QED BY <2>5, <2>7, <2>8, <2>9 DEF Kinds
<1>6. Placed
  BY DEF Init, Placed, Between
<1>7. Room
  BY <1>1, <1>3, Constants DEF Init, Room
<1>8. TrialsCounted
  BY DEF Init, TrialsCounted, Between
<1>9. ImportedHeld
  BY <1>1 DEF ImportedHeld
<1>10. SmallModelsDiscarded
  BY <1>1 DEF SmallModelsDiscarded
<1> QED BY <1>2, <1>4, <1>5, <1>6, <1>7, <1>8, <1>9, <1>10 DEF IInv

LEMMA Invariance == Spec => []IInv
<1>1. ASSUME IInv, [Next]_vars PROVE IInv'
  <2>1. CASE Next
    BY <1>1, <2>1, BeginTrialStep, EndTrialsStep, NoInitialPairStep, InitialPairStep,
       CheckInitialPairStep, LoopTopStep, FindNextImagesStep, RegisteredStep, NotRegisteredStep,
       RefinementFailedStep, NoCandidateStep, RefineStep, EndPassStep, AfterLoopStep,
       EndTrialStep, ReturnStep, StopRequestStep DEF Next, Pipeline, Done
  <2> QED BY <1>1, <2>1, StopRequestStep
<1> QED BY <1>1, Start, PTL DEF Spec

-----------------------------------------------------------------------------
(* The variables of pipeline and mapper keep their types.                     *)
THEOREM TypeCorrect == Spec => []TypeOK
<1>1. IInv => TypeOK
  <2> SUFFICES ASSUME IInv PROVE TypeOK
    OBVIOUS
  <2>1. models \in Seq(SUBSET Frames) /\ Len(models) \in Nat /\ cur \in 0 .. Len(models)
    BY LenProperties DEF IInv, Core
  <2> QED BY <2>1 DEF IInv, Core, Kinds, TypeOK
<1> QED BY <1>1, Invariance, PTL

(* "The number of reconstructions in which images are registered", the images *)
(* registered at all and those shared with other models are what counting     *)
(* afresh would give, whatever was filtered and discarded - if no seed lies in *)
(* one frame and the fallback meets frames of one image only, without which   *)
(* the events of a frame are counted twice (incremental_mapper.cc).           *)
THEOREM RegistrationsExact == ASSUME AcrossFrames PROVE Spec => []RegistrationsCounted
<1>1. IInv => RegistrationsCounted
  <2> SUFFICES ASSUME IInv, cur # 0
               PROVE  /\ \A i \in Images : num_registrations[i] = InModels(i)
                      /\ num_total_reg_images = Cardinality({i \in Images : InModels(i) > 0})
                      /\ num_shared_reg_images = Cardinality({i \in ImagesOf(Reg) : InModels(i) > 1})
    BY DEF RegistrationsCounted
  <2>1. \A i \in Images : num_registrations[i] = N(models, i)
    BY DEF IInv, Placed, Books, NotBegun, Held
  <2>2. \A i \in Images : num_registrations[i] = InModels(i)
    BY <2>1 DEF InModels, N
  <2>3. /\ num_total_reg_images = RegisteredIn(num_registrations)
        /\ num_shared_reg_images = Shared(num_registrations, Reg)
    BY DEF IInv, Core
  <2>4. {i \in Images : num_registrations[i] > 0} = {i \in Images : InModels(i) > 0}
    BY <2>2
  <2>5. {i \in ImagesOf(Reg) : num_registrations[i] > 1} = {i \in ImagesOf(Reg) : InModels(i) > 1}
    BY <2>2 DEF ImagesOf
  <2> QED BY <2>2, <2>3, <2>4, <2>5 DEF RegisteredIn, Shared
<1> QED BY <1>1, Invariance, PTL

(* What the user is left with: only the first model may be small, there are   *)
(* never more than were asked for, and an imported model with fixed frames    *)
(* comes out with all of them (incremental_pipeline.cc:438-500).              *)
ModelsKept == SmallModelsDiscarded /\ ModelsBounded /\ (FramesHaveImages => ImportedSurvives)

(* A mapper that may make several models keeps the ones it should, whatever is  *)
(* registered, filtered and imported (incremental_pipeline.cc:438-500).      *)
THEOREM ModelsAlwaysKept == Spec => []ModelsKept
<1>1. IInv => ModelsKept
  <2> SUFFICES ASSUME IInv PROVE ModelsKept
    OBVIOUS
  <2>1. ModelsBounded /\ SmallModelsDiscarded
    BY DEF IInv, Room, ModelsBounded
  <2>2. FramesHaveImages => ImportedSurvives
    BY DEF IInv, ImportedHeld, ImportedSurvives
  <2> QED BY <2>1, <2>2 DEF ModelsKept
<1> QED BY <1>1, Invariance, PTL

(* "Only use images for initialization that are not registered in any of the  *)
(* other reconstructions": a pair of images with no events is in no model, by *)
(* the statistics alone and for images in any frames, in every step that may  *)
(* begin a model; only an image that the user gave may be in one, and it is   *)
(* in the pair (incremental_mapper_impl.cc:103-225).                          *)
THEOREM SeedsAlwaysNew == Spec => SeedsAreNew
<1>1. ASSUME IInv, [Next]_vars PROVE [SeedsFromOutside]_vars
  <2> SUFFICES ASSUME Next, pc = "init", pc' = "check"
               PROVE  /\ \A i \in Provided : FrameOf[i] \in models'[cur]
                      /\ \A k \in DOMAIN models :
                            k # cur => models[k] \cap models'[cur] \subseteq {FrameOf[i] : i \in Provided}
    BY <1>1 DEF SeedsFromOutside
  <2>1. InitialPair
    BY DEF Next, Pipeline, BeginTrial, EndTrials, NoInitialPair, Finish, CheckInitialPair,
       LoopTop,
           FindNextImages, Registered, NotRegistered, RefinementFailed, NoCandidate, Refine, EndPass,
           AfterLoop, EndTrial, Return, StopRequest, Done
  <2>2. PICK a \in Images, b \in Images, Tried \in SUBSET (SeedPairs \ init_image_pairs) :
           /\ IF IsInitialPairProvided THEN {a, b} = Provided /\ Tried = {} ELSE {a, b} \in Tried
           /\ RegisterInitialImagePair(a, b)
    BY <2>1 DEF InitialPair
  <2>3. Provided \subseteq {a, b} /\ {a, b} \ Provided \subseteq Unregistered
    BY <2>2, PairsAreTwo
  <2>4. /\ Held /\ models \in Seq(SUBSET Frames) /\ Reg = {} /\ Reg = models[cur]
        /\ cur \in 1 .. Len(models) /\ DOMAIN models = 1 .. Len(models)
    BY <1>1, AtWork, LenProperties DEF Between, IInv, Placed, Core
  <2>5. models'[cur] = {FrameOf[a], FrameOf[b]}
    BY <2>2, <2>4 DEF RegisterInitialImagePair
  <2>6. ASSUME NEW k \in DOMAIN models, k # cur, NEW i \in {a, b} \ Provided
        PROVE  FrameOf[i] \notin models[k]
    <3>1. i \in Images /\ num_registrations[i] = 0
      BY <2>2, <2>3 DEF Unregistered
    <3>2. N(models, i) \in Nat
      BY <2>4, <3>1, Counted
    <3>3. 0 >= N(models, i)
      BY <2>4, <3>1 DEF Held
    <3>4. N(models, i) = 0
      BY <3>2, <3>3
    <3> QED BY <2>4, <3>1, <3>4, Counted
  <2>7. \A i \in Provided : FrameOf[i] \in models'[cur]
    BY <2>3, <2>5
  <2>8. ASSUME NEW k \in DOMAIN models, k # cur, NEW f \in models[k] \cap models'[cur]
        PROVE  f \in {FrameOf[i] : i \in Provided}
    <3>1. PICK i \in {a, b} : f = FrameOf[i]
      BY <2>5
    <3>2. i \in Provided
      BY <2>6, <2>8, <3>1
    <3> QED BY <3>1, <3>2
  <2> QED BY <2>7, <2>8
<1> QED BY <1>1, Invariance, PTL DEF Spec, SeedsAreNew

(* A failure has counted a trial, and what waits to be tried has one left.    *)
FailuresCounted ==
    /\ \A sl \in BOOLEAN, i \in Images : failures[sl][i] <= num_reg_trials[sl][i]
    /\ pc = "attempt" =>
          \A i \in fresh \cup others : failures[Flags[flag]][i] < MaxRegTrials

LEMMA TrialsGrow ==
    ASSUME IInv, NEW i \in Images, IF Flags[flag] THEN CountTrials(TRUE, {i}) ELSE CountNextImage(i)
    PROVE  /\ \A t \in BOOLEAN, n \in Images : num_reg_trials'[t][n] >= num_reg_trials[t][n]
           /\ num_reg_trials'[Flags[flag]][i] = num_reg_trials[Flags[flag]][i] + 1
<1>1. Flags[flag] \in BOOLEAN /\ num_reg_trials \in [BOOLEAN -> [Images -> Nat]]
  BY TheFlags DEF IInv, Kinds
<1>2. PICK S \in SUBSET Images : CountTrials(Flags[flag], S) /\ i \in S
  <2>1. CASE Flags[flag]
    BY <2>1, <1>1
  <2>2. CASE ~Flags[flag]
    BY <2>2, <1>1 DEF CountNextImage, ImagesOf
  <2> QED BY <2>1, <2>2
<1>3. \A t \in BOOLEAN, n \in Images :
         num_reg_trials'[t][n] = num_reg_trials[t][n] + IF t = Flags[flag] /\ n \in S THEN 1 ELSE 0
  BY <1>1, <1>2, CountedTrials
<1>4. \A t \in BOOLEAN, n \in Images : num_reg_trials[t][n] \in Nat
  <2>1. \A t \in BOOLEAN : num_reg_trials[t] \in [Images -> Nat]
    BY <1>1
  <2> QED BY <2>1
<1>5. num_reg_trials'[Flags[flag]][i] = num_reg_trials[Flags[flag]][i] + 1
  BY <1>1, <1>2, <1>3
<1>6. ASSUME NEW t \in BOOLEAN, NEW n \in Images
      PROVE  num_reg_trials'[t][n] >= num_reg_trials[t][n]
  BY <1>3, <1>4
<1> QED BY <1>5, <1>6

(* A failed attempt. *)
LEMMA FailureCounted ==
    ASSUME IInv, FailuresCounted, pc = "attempt", pc' = pc, NEW i \in Images, NextCandidate(i),
           IF Flags[flag] THEN CountTrials(TRUE, {i}) ELSE CountNextImage(i)
    PROVE  FailuresCounted'
<1>1. Flags[flag] \in BOOLEAN /\ failures \in [BOOLEAN -> [Images -> 0 .. MaxRegTrials]]
      /\ num_reg_trials \in [BOOLEAN -> [Images -> Nat]] /\ fresh \cup others \subseteq Images
      /\ MaxRegTrials \in Nat
  BY TheFlags, Constants DEF IInv, Kinds
<1>2. /\ fresh' \subseteq fresh \ {i} /\ others' \subseteq others \ {i} /\ flag' = flag
  BY Failed
<1> DEFINE sl == Flags[flag]
           old == failures[sl]
           new == [old EXCEPT ![i] = IF @ < MaxRegTrials THEN @ + 1 ELSE @]
<1>3. failures' = [failures EXCEPT ![sl] = new]
  BY DEF NextCandidate
<1>4. old \in [Images -> 0 .. MaxRegTrials]
  BY <1>1
<1> HIDE DEF sl, old
<1>5. /\ \A n \in Images : n # i => new[n] = old[n]
      /\ new[i] <= old[i] + 1 /\ \A n \in Images : old[n] \in Nat /\ new[n] \in Nat
  BY <1>1, <1>4
<1> HIDE DEF new
<1>6. /\ failures'[sl] = new
      /\ \A t \in BOOLEAN : t # sl => failures'[t] = failures[t]
  BY <1>1, <1>3 DEF sl
<1>7. /\ \A t \in BOOLEAN, n \in Images : num_reg_trials'[t][n] >= num_reg_trials[t][n]
      /\ num_reg_trials'[sl][i] = num_reg_trials[sl][i] + 1
  BY TrialsGrow DEF sl
<1>8. \A t \in BOOLEAN, n \in Images :
         num_reg_trials[t][n] \in Nat /\ num_reg_trials'[t][n] \in Nat /\ failures[t][n] \in Nat
  <2>1. num_reg_trials' \in [BOOLEAN -> [Images -> Nat]]
    BY CountedTrials, <1>1
  <2>2. \A t \in BOOLEAN : /\ num_reg_trials[t] \in [Images -> Nat]
                           /\ num_reg_trials'[t] \in [Images -> Nat]
                           /\ failures[t] \in [Images -> 0 .. MaxRegTrials]
    BY <1>1, <2>1
  <2> QED BY <1>1, <2>2
<1>9. ASSUME NEW t \in BOOLEAN, NEW n \in Images
      PROVE  failures'[t][n] <= num_reg_trials'[t][n]
  <2>1. failures[t][n] <= num_reg_trials[t][n] /\ num_reg_trials'[t][n] >= num_reg_trials[t][n]
    BY <1>7 DEF FailuresCounted
  <2>2. CASE t # sl
    <3>1. failures'[t][n] = failures[t][n]
      BY <1>6, <2>2
    <3> QED BY <1>8, <2>1, <3>1
  <2>3. CASE t = sl /\ n # i
    <3>1. failures'[t][n] = failures[t][n]
      BY <1>5, <1>6, <2>3 DEF old
    <3> QED BY <1>8, <2>1, <3>1
  <2>4. CASE t = sl /\ n = i
    <3>1. failures'[t][n] <= failures[t][n] + 1 /\ failures'[t][n] \in Nat
      BY <1>5, <1>6, <2>4 DEF old
    <3>2. num_reg_trials'[t][n] = num_reg_trials[t][n] + 1
      BY <1>7, <2>4
    <3> QED BY <1>8, <2>1, <3>1, <3>2
  <2> QED BY <2>2, <2>3, <2>4
<1>10. ASSUME NEW n \in fresh' \cup others' PROVE failures'[Flags[flag']][n] < MaxRegTrials
  <2>1. n \in fresh \cup others /\ n # i /\ n \in Images
    BY <1>1, <1>2
  <2>2. failures'[Flags[flag']][n] = failures[Flags[flag]][n]
    BY <1>2, <1>5, <1>6, <2>1 DEF sl, old
  <2> QED BY <2>1, <2>2 DEF FailuresCounted
<1> QED BY <1>9, <1>10 DEF FailuresCounted

(* What begins a model counts afresh. *)
LEMMA NothingCounted ==
    ASSUME failures' = NoTrials, num_reg_trials' = NoTrials, pc' # "attempt"
    PROVE  FailuresCounted'
<1>1. \A sl \in BOOLEAN, i \in Images : NoTrials[sl][i] = 0
  BY DEF NoTrials
<1>2. \A sl \in BOOLEAN, i \in Images : failures'[sl][i] <= num_reg_trials'[sl][i]
  BY <1>1
<1> QED BY <1>2 DEF FailuresCounted

(* Trials that are counted without a failure. *)
LEMMA TrialsOnly ==
    ASSUME IInv, FailuresCounted, failures' = failures, pc' # "attempt",
           \A t \in BOOLEAN, n \in Images : num_reg_trials'[t][n] >= num_reg_trials[t][n],
           num_reg_trials' \in [BOOLEAN -> [Images -> Nat]]
    PROVE  FailuresCounted'
<1>1. \A t \in BOOLEAN : /\ num_reg_trials[t] \in [Images -> Nat]
                         /\ num_reg_trials'[t] \in [Images -> Nat]
                         /\ failures[t] \in [Images -> 0 .. MaxRegTrials]
  BY DEF IInv, Kinds
<1>2. ASSUME NEW t \in BOOLEAN, NEW n \in Images
      PROVE  failures'[t][n] <= num_reg_trials'[t][n]
  <2>1. failures[t][n] <= num_reg_trials[t][n] /\ num_reg_trials'[t][n] >= num_reg_trials[t][n]
    BY DEF FailuresCounted
  <2>2. /\ num_reg_trials[t][n] \in Nat /\ num_reg_trials'[t][n] \in Nat /\ failures[t][n] \in Nat
        /\ failures'[t][n] = failures[t][n]
    BY <1>1, Constants
  <2> QED BY <2>1, <2>2
<1> QED BY <1>2 DEF FailuresCounted

LEMMA FailuresStep == ASSUME IInv, FailuresCounted, [Next]_vars PROVE FailuresCounted'
<1>1. CASE BeginTrial
  <2>1. failures' = NoTrials /\ num_reg_trials' = NoTrials
    BY <1>1 DEF BeginTrial, BeginReconstruction
  <2>2. pc' # "attempt"
    BY <1>1 DEF BeginTrial, Finish
  <2> QED BY <2>1, <2>2, NothingCounted
<1>2. CASE InitialPair
  <2>1. PICK a \in Images, b \in Images : CountTrials(FALSE, {a, b})
    BY <1>2 DEF InitialPair, RegisterInitialImagePair
  <2>2. failures' = failures /\ pc' # "attempt"
    BY <1>2 DEF InitialPair
  <2>3. num_reg_trials \in [BOOLEAN -> [Images -> Nat]]
    BY DEF IInv, Kinds
  <2>4. /\ num_reg_trials' \in [BOOLEAN -> [Images -> Nat]]
        /\ \A t \in BOOLEAN, n \in Images :
              num_reg_trials'[t][n] = num_reg_trials[t][n] + IF t = FALSE /\ n \in {a, b} THEN 1 ELSE 0
    <3>1. {a, b} \in SUBSET Images /\ FALSE \in BOOLEAN
      OBVIOUS
    <3> QED BY <2>1, <3>1, CountedTrials
  <2>5. ASSUME NEW t \in BOOLEAN, NEW n \in Images
        PROVE  num_reg_trials'[t][n] >= num_reg_trials[t][n]
    <3>1. num_reg_trials[t] \in [Images -> Nat]
      BY <2>3
    <3>2. num_reg_trials[t][n] \in Nat
      BY <3>1
    <3> QED BY <2>4, <3>2
  <2> QED BY <2>2, <2>4, <2>5, TrialsOnly
<1>3. CASE FindNextImages
  <2>1. /\ failures' = failures /\ num_reg_trials' = num_reg_trials /\ flag' = flag
        /\ fresh' \cup others' \subseteq {i \in Images : num_reg_trials[Flags[flag]][i] < MaxRegTrials}
    BY <1>3 DEF FindNextImages, model
  <2>2. Flags[flag] \in BOOLEAN /\ num_reg_trials \in [BOOLEAN -> [Images -> Nat]]
        /\ failures \in [BOOLEAN -> [Images -> 0 .. MaxRegTrials]] /\ MaxRegTrials \in Nat
    BY TheFlags, Constants DEF IInv, Kinds
  <2>3. ASSUME NEW i \in fresh' \cup others' PROVE failures[Flags[flag]][i] < MaxRegTrials
    <3>1. i \in Images /\ num_reg_trials[Flags[flag]][i] < MaxRegTrials
      BY <2>1
    <3>2. num_reg_trials[Flags[flag]] \in [Images -> Nat]
          /\ failures[Flags[flag]] \in [Images -> 0 .. MaxRegTrials]
      BY <2>2
    <3>3. num_reg_trials[Flags[flag]][i] \in Nat /\ failures[Flags[flag]][i] \in Nat
      BY <2>2, <3>1, <3>2
    <3>4. failures[Flags[flag]][i] <= num_reg_trials[Flags[flag]][i]
      BY <2>2, <3>1 DEF FailuresCounted
    <3> QED BY <2>2, <3>1, <3>3, <3>4
  <2> QED BY <2>1, <2>3 DEF FailuresCounted
<1>4. CASE Registered
  <2>1. PICK i \in Candidates : IF Flags[flag] THEN CountTrials(TRUE, {i}) ELSE CountNextImage(i)
    BY <1>4 DEF Registered
  <2>2. i \in Images
    BY DEF Candidates, IInv, Kinds
  <2>3. failures' = failures /\ pc' # "attempt"
    BY <1>4 DEF Registered
  <2>4. num_reg_trials' \in [BOOLEAN -> [Images -> Nat]]
    BY <2>1, <2>2, CountedTrials
  <2> QED BY <2>1, <2>2, <2>3, <2>4, TrialsGrow, TrialsOnly
<1>5. CASE NotRegistered
  <2>1. PICK i \in Candidates :
           /\ IF Flags[flag] THEN CountTrials(TRUE, {i}) ELSE CountNextImage(i)
           /\ NextCandidate(i)
    BY <1>5 DEF NotRegistered
  <2>2. i \in Images /\ pc = "attempt" /\ pc' = pc
    BY <1>5 DEF NotRegistered, Candidates, IInv, Kinds
  <2> QED BY <2>1, <2>2, FailureCounted
<1>6. CASE RefinementFailed
  <2>1. PICK i \in Candidates : CountTrials(TRUE, {i}) /\ NextCandidate(i)
    BY <1>6 DEF RefinementFailed
  <2>2. i \in Images /\ pc = "attempt" /\ pc' = pc /\ Flags[flag]
    BY <1>6 DEF RefinementFailed, Candidates, IInv, Kinds
  <2> QED BY <2>1, <2>2, FailureCounted
<1>7. CASE NoInitialPair \/ EndTrials \/ EndTrial \/ Return
  <2>1. failures' = failures /\ num_reg_trials' = num_reg_trials /\ pc' # "attempt"
    BY <1>7 DEF NoInitialPair, EndTrials, EndTrial, Return, Finish, NextTrial, LeaveTrials, model
  <2> QED BY <2>1 DEF FailuresCounted
<1>8. CASE CheckInitialPair \/ Refine \/ EndPass \/ AfterLoop
  <2>1. failures' = failures /\ num_reg_trials' = num_reg_trials
    BY <1>8 DEF CheckInitialPair, Refine, EndPass, AfterLoop, FilterFrames, model
  <2>2. pc' # "attempt"
    BY <1>8 DEF CheckInitialPair, Refine, EndPass, AfterLoop, Finish
  <2> QED BY <2>1, <2>2 DEF FailuresCounted
<1>9. CASE LoopTop \/ NoCandidate
  <2>1. failures' = failures /\ num_reg_trials' = num_reg_trials /\ pc' # "attempt"
    BY <1>9 DEF LoopTop, NoCandidate, model
  <2> QED BY <2>1 DEF FailuresCounted
<1>10. CASE StopRequest \/ Done \/ UNCHANGED vars
  <2>1. /\ failures' = failures /\ num_reg_trials' = num_reg_trials /\ pc' = pc
        /\ fresh' = fresh /\ others' = others /\ flag' = flag
    BY <1>10 DEF StopRequest, Done, vars, model, loop
  <2> QED BY <2>1 DEF FailuresCounted
<1> QED BY <1>1, <1>2, <1>3, <1>4, <1>5, <1>6, <1>7, <1>8, <1>9, <1>10 DEF Next, Pipeline

(* "This function automatically ignores images that failed to register for    *)
(* `max_reg_trials`", for images in any frames and any outcome of each        *)
(* attempt: the frame of a rig is tried for one of its images, and a trial of *)
(* that one is counted too (incremental_mapper.cc:221-228, 484 and            *)
(* incremental_mapper_impl.cc:358-361).                                       *)
THEOREM FailedAlwaysIgnored == Spec => []FailedImagesIgnored
<1>1. Init => FailuresCounted
  <2>1. \A sl \in BOOLEAN, i \in Images : NoTrials[sl][i] = 0
    BY DEF NoTrials
  <2>2. ASSUME Init PROVE failures = NoTrials /\ num_reg_trials = NoTrials /\ pc = "trial"
    BY <2>2 DEF Init
  <2>3. ASSUME Init, NEW sl \in BOOLEAN, NEW i \in Images
        PROVE  failures[sl][i] <= num_reg_trials[sl][i]
    BY <2>1, <2>2, <2>3
  <2> QED BY <2>2, <2>3 DEF FailuresCounted
<1>2. FailuresCounted => FailedImagesIgnored
  BY DEF FailuresCounted, FailedImagesIgnored, Candidates
<1> QED BY <1>1, <1>2, FailuresStep, Invariance, PTL DEF Spec
-----------------------------------------------------------------------------
(* Induction over a set, which stands for the property of the numbers in it. *)
LEMMA Least ==
    ASSUME NEW S \in SUBSET Nat, S # {}
    PROVE  \E x \in S : \A y \in S : x <= y
<1> DEFINE R == {p \in Nat \X Nat : p[1] < p[2]}
<1>1. IsWellFoundedOn(R, Nat)
  BY NatLessThanWellFounded DEF OpToRel
<1> HIDE DEF R
<1>2. PICK x \in S : \A y \in S : ~(<<y, x>> \in R)
  BY <1>1, WFMin
<1>3. ASSUME NEW y \in S PROVE x <= y
  <2>1. x \in Nat /\ y \in Nat /\ ~(<<y, x>> \in R)
    BY <1>2
  <2>2. <<y, x>> \in R <=> y < x
    BY <2>1 DEF R
  <2> QED BY <2>1, <2>2
<1> QED BY <1>3

LEMMA Induction ==
    ASSUME NEW S, 0 \in S, \A n \in Nat : n \in S => n + 1 \in S
    PROVE  Nat \subseteq S
<1> SUFFICES ASSUME Nat \ S # {} PROVE FALSE
  OBVIOUS
<1>1. PICK x \in Nat \ S : \A y \in Nat \ S : x <= y
  BY Least
<1>2. x # 0 /\ x - 1 \in Nat
  BY <1>1
<1>3. x - 1 \in S
  <2>1. ~(x <= x - 1)
    BY <1>1
  <2> QED BY <1>1, <1>2, <2>1
<1>4. (x - 1) + 1 = x
  BY <1>1
<1> QED BY <1>1, <1>2, <1>3, <1>4

(* The union-find (math/union_find.h).  Chains of parents end: an element has *)
(* a rank, below that of the element it is reached from.                      *)
RankIn(p, r, n) ==
    /\ r \in [DOMAIN p -> 0 .. n]
    /\ \A y \in DOMAIN p : p[y] # y => r[p[y]] < r[y]

Forest(p) ==
    /\ p = [y \in DOMAIN p |-> p[y]]
    /\ \A y \in DOMAIN p : p[y] \in DOMAIN p
    /\ \E n \in Nat : \E r : RankIn(p, r, n)

(* What holds of the roots, and of an element when it holds of its parent,    *)
(* holds of every element.                                                    *)
LEMMA UpTheForest ==
    ASSUME NEW p, Forest(p), NEW S,
           \A y \in DOMAIN p : p[y] = y \/ p[y] \in S => y \in S
    PROVE  DOMAIN p \subseteq S
<1>0. PICK n \in Nat : \E r : RankIn(p, r, n)
  BY DEF Forest
<1>1. PICK r : RankIn(p, r, n)
  BY <1>0
<1> DEFINE T == {m \in Nat : \A y \in DOMAIN p : r[y] <= m => y \in S}
<1>2. 0 \in T
  <2> SUFFICES ASSUME NEW y \in DOMAIN p, r[y] <= 0 PROVE y \in S
    OBVIOUS
  <2>1. p[y] \in DOMAIN p
    BY DEF Forest
  <2>2. r[y] \in 0 .. n /\ r[p[y]] \in 0 .. n /\ (p[y] # y => r[p[y]] < r[y])
    BY <1>1, <2>1 DEF RankIn
  <2>3. p[y] = y
    BY <1>1, <2>2
  <2> QED BY <2>3
<1>3. ASSUME NEW m \in Nat, m \in T PROVE m + 1 \in T
  <2> SUFFICES ASSUME NEW y \in DOMAIN p, r[y] <= m + 1 PROVE y \in S
    OBVIOUS
  <2>1. p[y] \in DOMAIN p
    BY DEF Forest
  <2>2. r[y] \in 0 .. n /\ r[p[y]] \in 0 .. n /\ (p[y] # y => r[p[y]] < r[y])
    BY <1>1, <2>1 DEF RankIn
  <2>3. p[y] = y \/ r[p[y]] <= m
    BY <1>1, <2>2
  <2> QED BY <1>3, <2>1, <2>3
<1>4. n \in T
  <2> HIDE DEF T
  <2>1. Nat \subseteq T
    BY <1>2, <1>3, Induction
  <2> QED BY <1>1, <2>1
<1>5. \A y \in DOMAIN p : r[y] <= n
  BY <1>1 DEF RankIn
<1> QED BY <1>4, <1>5

(* A function that is defined by recursion along the parents exists.          *)
AlongForest(p, D, V, base, gen) ==
    \E f \in [D -> V] :
        \A y \in D : f[y] = IF p[y] = y THEN base[y] ELSE gen[<<y, f[p[y]]>>]

LEMMA ForestRecursion ==
    ASSUME NEW p, Forest(p), NEW D, D = DOMAIN p, NEW V, NEW base \in [D -> V],
           NEW gen \in [D \X V -> V]
    PROVE  AlongForest(p, D, V, base, gen)
<1> DEFINE Value(f, y) == IF p[y] = y THEN base[y] ELSE gen[<<y, f[p[y]]>>]
<1>0. PICK n \in Nat : \E r : RankIn(p, r, n)
  BY DEF Forest
<1>1. PICK r : RankIn(p, r, n)
  BY <1>0
<1> DEFINE S == {m \in Nat : \E f \in [D -> V] : \A y \in D : r[y] <= m => f[y] = Value(f, y)}
<1>2. \A y \in D : p[y] \in D /\ r[y] \in 0 .. n /\ r[p[y]] \in 0 .. n
                   /\ (p[y] # y => r[p[y]] < r[y])
  BY <1>1 DEF Forest, RankIn
<1>3. 0 \in S
  <2>1. \A y \in D : r[y] <= 0 => p[y] = y
    BY <1>1, <1>2
  <2>2. \A y \in D : r[y] <= 0 => base[y] = Value(base, y)
    BY <2>1
  <2> QED BY <2>2
<1>4. ASSUME NEW m \in Nat, m \in S PROVE m + 1 \in S
  <2>1. PICK f \in [D -> V] : \A y \in D : r[y] <= m => f[y] = Value(f, y)
    BY <1>4
  <2> DEFINE g == [y \in D |-> IF r[y] <= m THEN f[y] ELSE Value(f, y)]
  <2>2. ASSUME NEW y \in D PROVE Value(f, y) \in V
    <3>1. p[y] \in D
      BY <1>2
    <3>2. <<y, f[p[y]]>> \in D \X V
      BY <2>1, <3>1
    <3> QED BY <3>2
  <2>3. g \in [D -> V]
    <3> HIDE DEF Value
    <3> QED BY <2>2
  <2>4. ASSUME NEW y \in D, r[y] <= m + 1 PROVE g[y] = Value(g, y)
    <3>1. CASE p[y] = y
      BY <2>1, <3>1
    <3>2. CASE p[y] # y
      <4>1. p[y] \in D /\ r[p[y]] <= m
        BY <1>1, <1>2, <2>4, <3>2
      <4>2. g[p[y]] = f[p[y]]
        BY <4>1
      <4>3. Value(g, y) = Value(f, y)
        BY <3>2, <4>2
      <4>4. g[y] = Value(f, y)
        BY <2>1
      <4> QED BY <4>3, <4>4
    <3> QED BY <3>1, <3>2
  <2> HIDE DEF g, Value
  <2> QED BY <2>3, <2>4
<1>5. n \in S
  <2> HIDE DEF S
  <2>1. Nat \subseteq S
    BY <1>3, <1>4, Induction
  <2> QED BY <1>1, <2>1
<1>6. PICK f \in [D -> V] : \A y \in D : r[y] <= n => f[y] = Value(f, y)
  BY <1>5
<1>7. \A y \in D : r[y] <= n
  BY <1>1, <1>2, SMTT(30)
<1> QED BY <1>6, <1>7 DEF AlongForest

(* Root() follows the parents up to an element that is its own parent.        *)
LEMMA RootStep ==
    ASSUME NEW p, Forest(p)
    PROVE  \A x \in DOMAIN p : Root(p, x) = IF p[x] = x THEN x ELSE Root(p, p[x])
<1> DEFINE D == DOMAIN p
           V == D
           base == [y \in D |-> y]
           gen == [z \in D \X V |-> z[2]]
           Rec(f) == f = [y \in D |-> IF p[y] = y THEN y ELSE f[p[y]]]
<1>1. base \in [D -> V] /\ gen \in [D \X V -> V]
  OBVIOUS
<1>2. PICK f \in [D -> V] :
          \A y \in D : f[y] = IF p[y] = y THEN base[y] ELSE gen[<<y, f[p[y]]>>]
  <2>1. D = DOMAIN p
    OBVIOUS
  <2> HIDE DEF D, V, base, gen
  <2>2. AlongForest(p, D, V, base, gen)
    BY <1>1, <2>1, ForestRecursion
  <2> QED BY <2>2 DEF AlongForest
<1>3. \A y \in D : p[y] \in D
  BY DEF Forest
<1>4. \A y \in D : f[y] = IF p[y] = y THEN y ELSE f[p[y]]
  BY <1>2, <1>3
<1>5. Rec(f)
  BY <1>2, <1>4
<1> DEFINE g == CHOOSE h : Rec(h)
<1>6. Rec(g)
  <2> HIDE DEF Rec
  <2> QED BY <1>5
<1>7. \A x \in D : Root(p, x) = g[x]
  BY DEF Root
<1> HIDE DEF g
<1>8. \A x \in D : g[x] = IF p[x] = x THEN x ELSE g[p[x]]
  BY <1>6
<1> QED BY <1>3, <1>7, <1>8

LEMMA RootFacts ==
    ASSUME NEW p, Forest(p), NEW x \in DOMAIN p
    PROVE  /\ Root(p, x) \in DOMAIN p /\ p[Root(p, x)] = Root(p, x)
           /\ Root(p, Root(p, x)) = Root(p, x)
           /\ Root(p, x) = IF p[x] = x THEN x ELSE Root(p, p[x])
<1> DEFINE S == {y \in DOMAIN p : Root(p, y) \in DOMAIN p /\ p[Root(p, y)] = Root(p, y)}
<1>1. ASSUME NEW y \in DOMAIN p, p[y] = y \/ p[y] \in S PROVE y \in S
  BY <1>1, RootStep
<1>2. DOMAIN p \subseteq S
  <2> HIDE DEF S
  <2> QED BY <1>1, UpTheForest
<1> QED BY <1>2, RootStep

(* A root is not above the rank of its elements. *)
LEMMA RootRank ==
    ASSUME NEW p, Forest(p), NEW n \in Nat, NEW r, RankIn(p, r, n)
    PROVE  \A y \in DOMAIN p : r[Root(p, y)] <= r[y] /\ (p[y] # y => r[Root(p, y)] < r[y])
<1> DEFINE S == {y \in DOMAIN p : r[Root(p, y)] <= r[y]}
<1>1. \A y \in DOMAIN p : /\ p[y] \in DOMAIN p /\ Root(p, y) \in DOMAIN p
                          /\ r[y] \in Int /\ r[p[y]] \in Int /\ r[Root(p, y)] \in Int
                          /\ p[y] # y => r[p[y]] < r[y]
  BY RootFacts DEF Forest, RankIn
<1>2. ASSUME NEW y \in DOMAIN p, p[y] = y \/ p[y] \in S PROVE y \in S
  <2>1. CASE p[y] = y
    BY <2>1, <1>1, RootStep
  <2>2. CASE p[y] # y
    <3>1. Root(p, y) = Root(p, p[y]) /\ r[Root(p, p[y])] <= r[p[y]]
      BY <1>2, <2>2, RootStep
    <3> QED BY <1>1, <2>2, <3>1
  <2> QED BY <2>1, <2>2
<1>3. DOMAIN p \subseteq S
  <2> HIDE DEF S
  <2> QED BY <1>2, UpTheForest
<1>4. ASSUME NEW y \in DOMAIN p, p[y] # y PROVE r[Root(p, y)] < r[y]
  <2>1. Root(p, y) = Root(p, p[y]) /\ r[Root(p, p[y])] <= r[p[y]]
    BY <1>1, <1>3, <1>4, RootStep
  <2> QED BY <1>1, <1>4, <2>1
<1> QED BY <1>3, <1>4

(* Elements may be made to point at their roots: the roots are the same.      *)
Rewires(p, q) ==
    /\ q = [y \in DOMAIN p |-> q[y]]
    /\ \A y \in DOMAIN p : q[y] \in {p[y], Root(p, y)}

LEMMA Rewired ==
    ASSUME NEW p, Forest(p), NEW q, Rewires(p, q)
    PROVE  Forest(q) /\ DOMAIN q = DOMAIN p /\ \A y \in DOMAIN p : Root(q, y) = Root(p, y)
<1>0. DOMAIN q = DOMAIN p /\ \A y \in DOMAIN p : q[y] \in {p[y], Root(p, y)}
  BY DEF Rewires
<1>8. PICK n \in Nat : \E r : RankIn(p, r, n)
  BY DEF Forest
<1>1. PICK r : RankIn(p, r, n)
  BY <1>8
<1>2. \A y \in DOMAIN p : q[y] \in DOMAIN p
  BY <1>0, RootFacts DEF Forest
<1>3. ASSUME NEW y \in DOMAIN p, q[y] # y PROVE r[q[y]] < r[y]
  <2>0. q[y] \in {p[y], Root(p, y)}
    BY <1>0
  <2>1. CASE q[y] = p[y]
    BY <1>1, <1>3, <2>1 DEF RankIn
  <2>2. CASE q[y] = Root(p, y)
    <3>1. p[y] # y
      BY <1>3, <2>2, RootStep
    <3> QED BY <1>1, <1>8, <2>2, <3>1, RootRank
  <2> QED BY <2>0, <2>1, <2>2
<1>4. RankIn(q, r, n)
  BY <1>0, <1>1, <1>3 DEF RankIn
<1>5. Forest(q)
  BY <1>0, <1>2, <1>4, <1>8 DEF Forest, Rewires
<1> DEFINE S == {y \in DOMAIN p : Root(q, y) = Root(p, y)}
<1>6. ASSUME NEW y \in DOMAIN q, q[y] = y \/ q[y] \in S PROVE y \in S
  <2>1. CASE q[y] = y
    <3>1. Root(q, y) = y
      BY <1>5, <2>1, RootStep
    <3>2. Root(p, y) = y
      BY <1>0, <2>1, RootStep
    <3> QED BY <1>0, <3>1, <3>2
  <2>2. CASE q[y] # y
    <3>1. Root(q, y) = Root(q, q[y]) /\ Root(q, q[y]) = Root(p, q[y])
      BY <1>5, <1>6, <2>2, RootStep
    <3>2. Root(p, q[y]) = Root(p, y)
      <4>1. y \in DOMAIN p
        BY <1>0
      <4>2. CASE q[y] = p[y]
        BY <4>1, <4>2, <2>2, RootStep
      <4>3. CASE q[y] = Root(p, y)
        BY <4>1, <4>3, RootFacts
      <4> QED BY <1>0, <4>2, <4>3
    <3> QED BY <1>0, <3>1, <3>2
  <2> QED BY <2>1, <2>2
<1>7. DOMAIN q \subseteq S
  <2> HIDE DEF S
  <2> QED BY <1>5, <1>6, UpTheForest
<1> QED BY <1>0, <1>5, <1>7

(* An element that is not in the forest yet is on its own. *)
RootOf(p, u) == IF u \in DOMAIN p THEN Root(p, u) ELSE u

LEMMA FindKeepsRoots ==
    ASSUME NEW p, Forest(p), NEW x
    PROVE  /\ Forest(AfterFind(p, x)) /\ DOMAIN AfterFind(p, x) = (DOMAIN p) \cup {x}
           /\ \A u : RootOf(AfterFind(p, x), u) = RootOf(p, u)
<1> DEFINE q == AfterFind(p, x)
<1>1. CASE x \notin DOMAIN p
  <2>1. q = [y \in {x} \cup (DOMAIN p) |-> IF y = x THEN x ELSE p[y]]
    BY <1>1 DEF AfterFind
  <2> HIDE DEF q
  <2>2. DOMAIN q = (DOMAIN p) \cup {x} /\ q[x] = x /\ \A y \in DOMAIN p : q[y] = p[y]
    BY <1>1, <2>1
  <2>0. PICK n \in Nat : \E r : RankIn(p, r, n)
    BY DEF Forest
  <2>3. PICK r : RankIn(p, r, n)
    BY <2>0
  <2> DEFINE s == [y \in DOMAIN q |-> IF y = x THEN 0 ELSE r[y]]
  <2>4. \A y \in DOMAIN p : p[y] \in DOMAIN p
    BY DEF Forest
  <2>5. RankIn(q, s, n)
    BY <1>1, <2>2, <2>3, <2>4 DEF RankIn
  <2>6. Forest(q)
    BY <2>1, <2>2, <2>3, <2>4, <2>5 DEF Forest
  <2> DEFINE S == {y \in DOMAIN p : Root(q, y) = Root(p, y)}
  <2>7. ASSUME NEW y \in DOMAIN p, p[y] = y \/ p[y] \in S PROVE y \in S
    <3>1. Root(q, y) = IF q[y] = y THEN y ELSE Root(q, q[y])
      BY <2>2, <2>6, RootStep
    <3> QED BY <2>2, <2>7, <3>1, RootStep
  <2>8. DOMAIN p \subseteq S
    <3> HIDE DEF S
    <3> QED BY <2>7, UpTheForest
  <2>9. Root(q, x) = x
    BY <2>2, <2>6, RootStep
  <2>10. ASSUME NEW u PROVE RootOf(q, u) = RootOf(p, u)
    <3>1. CASE u \in DOMAIN p
      BY <2>2, <2>8, <3>1 DEF RootOf
    <3>2. CASE u \notin DOMAIN p
      BY <2>2, <2>9, <3>2 DEF RootOf
    <3> QED BY <3>1, <3>2
  <2>11. DOMAIN q = (DOMAIN p) \cup {x}
    BY <2>2
  <2> QED BY <2>6, <2>10, <2>11 DEF q
<1>2. CASE x \in DOMAIN p
  <2> DEFINE D == DOMAIN p
             V == SUBSET D
             base == [y \in D |-> {y}]
             gen == [z \in D \X V |-> {z[1]} \cup z[2]]
             Rec(f) == f = [y \in D |-> IF p[y] = y THEN {y} ELSE {y} \cup f[p[y]]]
             path == CHOOSE f : Rec(f)
  <2>1. base \in [D -> V] /\ gen \in [D \X V -> V]
    OBVIOUS
  <2>2. PICK f \in [D -> V] :
            \A y \in D : f[y] = IF p[y] = y THEN base[y] ELSE gen[<<y, f[p[y]]>>]
    <3>1. D = DOMAIN p
      OBVIOUS
    <3> HIDE DEF D, V, base, gen
    <3>2. AlongForest(p, D, V, base, gen)
      BY <2>1, <3>1, ForestRecursion
    <3> QED BY <3>2 DEF AlongForest
  <2>3. \A y \in D : p[y] \in D
    BY DEF Forest
  <2>4. \A y \in D : f[y] = IF p[y] = y THEN {y} ELSE {y} \cup f[p[y]]
    BY <2>2, <2>3
  <2>5. Rec(f)
    BY <2>2, <2>4
  <2>6. Rec(path)
    <3> HIDE DEF Rec
    <3> QED BY <2>5
  <2>7. q = [y \in D |-> IF y \in path[x] THEN Root(p, x) ELSE p[y]]
    BY <1>2 DEF AfterFind
  <2> HIDE DEF path, q
  <2>8. \A y \in D : path[y] = IF p[y] = y THEN {y} ELSE {y} \cup path[p[y]]
    BY <2>6
  <2> DEFINE S == {y \in D : \A z \in path[y] : z \in D => Root(p, z) = Root(p, y)}
  <2>9. ASSUME NEW y \in D, p[y] = y \/ p[y] \in S PROVE y \in S
    <3> SUFFICES ASSUME NEW z \in path[y], z \in D PROVE Root(p, z) = Root(p, y)
      OBVIOUS
    <3>1. CASE z = y
      BY <3>1
    <3>2. CASE z # y
      <4>0. p[y] = y => path[y] = {y}
        BY <2>8
      <4>3. p[y] # y
        BY <3>2, <4>0
      <4>4. path[y] = {y} \cup path[p[y]]
        BY <2>8, <4>3
      <4>1. p[y] # y /\ z \in path[p[y]]
        BY <3>2, <4>3, <4>4
      <4>2. Root(p, z) = Root(p, p[y])
        BY <2>9, <4>1
      <4> QED BY <4>1, <4>2, RootStep
    <3> QED BY <3>1, <3>2
  <2>10. D \subseteq S
    <3> HIDE DEF S
    <3> QED BY <2>9, UpTheForest
  <2>11. \A y \in D : q[y] \in {p[y], Root(p, y)}
    BY <1>2, <2>7, <2>10
  <2>12. q = [y \in D |-> q[y]]
    BY <2>7
  <2>13. Forest(q) /\ DOMAIN q = D /\ \A y \in D : Root(q, y) = Root(p, y)
    <3>1. Rewires(p, q)
      BY <2>11, <2>12 DEF Rewires
    <3> QED BY <3>1, Rewired
  <2> QED BY <1>2, <2>13 DEF RootOf, q
<1> QED BY <1>1, <1>2
-----------------------------------------------------------------------------
(* Making one root point at another one. *)
Links(p, a, b, q) == q = [p EXCEPT ![a] = b]

LEMMA LinkedRoots ==
    ASSUME NEW p, Forest(p), NEW a \in DOMAIN p, NEW b \in DOMAIN p, p[a] = a, p[b] = b,
           NEW q, Links(p, a, b, q)
    PROVE  /\ Forest(q) /\ DOMAIN q = DOMAIN p
           /\ \A y \in DOMAIN p : Root(q, y) = IF Root(p, y) = a THEN b ELSE Root(p, y)
<1>1. PICK n \in Nat : \E r : RankIn(p, r, n)
  BY DEF Forest
<1>2. PICK r : RankIn(p, r, n)
  BY <1>1
<1>3. /\ DOMAIN q = DOMAIN p /\ q[a] = b /\ \A y \in DOMAIN p : y # a => q[y] = p[y]
      /\ q = [y \in DOMAIN p |-> q[y]]
  BY DEF Forest, Links
<1>4. \A y \in DOMAIN p : Root(p, y) \in DOMAIN p /\ p[y] \in DOMAIN p /\ q[y] \in DOMAIN p
  BY <1>3, RootFacts DEF Forest
<1>5. CASE a = b
  <2>1. \A y \in DOMAIN p : q[y] \in {p[y], Root(p, y)}
    BY <1>3, <1>5
  <2>2. Rewires(p, q)
    BY <1>3, <2>1 DEF Rewires
  <2>3. Forest(q) /\ \A y \in DOMAIN p : Root(q, y) = Root(p, y)
    BY <2>2, Rewired
  <2> QED BY <1>3, <1>5, <2>3
<1>6. CASE a # b
  <2> DEFINE s == [y \in DOMAIN p |-> IF Root(p, y) = a THEN r[y] + n + 1 ELSE r[y]]
             m == n + n + 1
  <2>1. Root(p, a) = a /\ Root(p, b) = b
    BY RootStep
  <2>2. \A y \in DOMAIN p : r[y] \in 0 .. n
    BY <1>2 DEF RankIn
  <2>3. m \in Nat /\ s \in [DOMAIN p -> 0 .. m]
    BY <1>1, <2>2
  <2>4. ASSUME NEW y \in DOMAIN p, q[y] # y PROVE s[q[y]] < s[y]
    <3>1. CASE y = a
      <4>1. s[q[y]] = r[b] /\ s[y] = r[a] + n + 1
        BY <1>3, <1>6, <2>1, <3>1
      <4> QED BY <1>1, <2>2, <4>1
    <3>2. CASE y # a
      <4>1. q[y] = p[y] /\ p[y] # y
        BY <1>3, <2>4, <3>2
      <4>2. r[p[y]] < r[y] /\ Root(p, y) = Root(p, p[y])
        BY <1>2, <4>1, RootStep DEF RankIn
      <4>3. s[q[y]] = IF Root(p, y) = a THEN r[p[y]] + n + 1 ELSE r[p[y]]
        BY <1>4, <4>1, <4>2
      <4>4. s[y] = IF Root(p, y) = a THEN r[y] + n + 1 ELSE r[y]
        OBVIOUS
      <4>5. r[p[y]] \in Int /\ r[y] \in Int /\ n \in Int
        BY <1>1, <1>4, <2>2
      <4> HIDE DEF s
      <4> QED BY <4>2, <4>3, <4>4, <4>5
    <3> QED BY <3>1, <3>2
  <2>5. RankIn(q, s, m)
    <3> HIDE DEF s, m
    <3> QED BY <1>3, <2>3, <2>4 DEF RankIn
  <2>6. Forest(q)
    <3> HIDE DEF s, m
    <3> QED BY <1>3, <1>4, <2>3, <2>5 DEF Forest
  <2> DEFINE S == {y \in DOMAIN p : Root(q, y) = IF Root(p, y) = a THEN b ELSE Root(p, y)}
  <2>7. q[b] = b
    BY <1>3, <1>6
  <2>8. ASSUME NEW y \in DOMAIN p, p[y] = y \/ p[y] \in S PROVE y \in S
    <3>1. CASE y = a
      <4>1. Root(q, a) = Root(q, b) /\ Root(q, b) = b
        BY <1>3, <1>6, <2>6, <2>7, RootStep
      <4> QED BY <2>1, <3>1, <4>1
    <3>2. CASE y # a /\ p[y] = y
      <4>1. Root(q, y) = y /\ Root(p, y) = y
        BY <1>3, <2>6, <3>2, RootStep
      <4> QED BY <3>2, <4>1
    <3>3. CASE y # a /\ p[y] # y
      <4>1. Root(q, y) = Root(q, p[y]) /\ Root(p, y) = Root(p, p[y])
        BY <1>3, <2>6, <3>3, RootStep
      <4> QED BY <2>8, <3>3, <4>1
    <3> QED BY <3>1, <3>2, <3>3
  <2>9. DOMAIN p \subseteq S
    <3> HIDE DEF S
    <3> QED BY <2>8, UpTheForest
  <2> QED BY <1>3, <2>6, <2>9
<1> QED BY <1>5, <1>6

(* Union() gives the elements that are with x the root of y.                 *)
JoinsRoots(p, x, y, q) ==
    /\ Forest(q)
    /\ DOMAIN q = (DOMAIN p) \cup {x, y}
    /\ \A u \in (DOMAIN p) \cup {x, y} :
          RootOf(q, u) = IF RootOf(p, u) = RootOf(p, x) THEN RootOf(p, y) ELSE RootOf(p, u)

LEMMA UnionRoots ==
    ASSUME NEW p, Forest(p), NEW x, NEW y
    PROVE  JoinsRoots(p, x, y, AfterUnion(p, x, y))
<1> DEFINE f == AfterFind(p, x)
           g == AfterFind(f, y)
           a == Root(g, x)
           b == Root(g, y)
           q == AfterUnion(p, x, y)
<1>1. /\ Forest(f) /\ DOMAIN f = (DOMAIN p) \cup {x}
      /\ \A u : RootOf(f, u) = RootOf(p, u)
  BY FindKeepsRoots
<1>2. Links(g, a, b, q)
  BY DEF AfterUnion, Links
<1>3. /\ Forest(g) /\ DOMAIN g = (DOMAIN f) \cup {y}
      /\ \A u : RootOf(g, u) = RootOf(f, u)
  <2> HIDE DEF f
  <2> QED BY <1>1, FindKeepsRoots
<1> HIDE DEF f, g, q
<1>4. DOMAIN g = (DOMAIN p) \cup {x, y} /\ \A u : RootOf(g, u) = RootOf(p, u)
  BY <1>1, <1>3
<1>5. a \in DOMAIN g /\ g[a] = a /\ b \in DOMAIN g /\ g[b] = b
  BY <1>3, <1>4, RootFacts
<1>6. /\ Forest(q) /\ DOMAIN q = DOMAIN g
      /\ \A u \in DOMAIN g : Root(q, u) = IF Root(g, u) = a THEN b ELSE Root(g, u)
  <2> HIDE DEF a, b
  <2> QED BY <1>2, <1>3, <1>5, LinkedRoots
<1>7. \A u \in DOMAIN g : RootOf(p, u) = Root(g, u) /\ RootOf(q, u) = Root(q, u)
  BY <1>4, <1>6 DEF RootOf
<1>8. a = RootOf(p, x) /\ b = RootOf(p, y)
  BY <1>4, <1>7
<1> HIDE DEF a, b
<1>9. JoinsRoots(p, x, y, q)
  BY <1>4, <1>6, <1>7, <1>8 DEF JoinsRoots
<1> QED BY <1>9 DEF q

-----------------------------------------------------------------------------
(* What a union-find is for, step by step: the elements are those of the      *)
(* pairs, the elements of a pair have one root, and a set that no pair leaves *)
(* has all elements with the root of one of its own.                          *)
NodesOf(E) == UNION {{e[1], e[2]} : e \in E}
Closed(E, S) == \A e \in E : e[1] \in S <=> e[2] \in S

Connects(p, E) ==
    /\ Forest(p) /\ DOMAIN p = NodesOf(E)
    /\ \A e \in E : Root(p, e[1]) = Root(p, e[2])
    /\ \A S : Closed(E, S) =>
          \A u, v \in DOMAIN p : Root(p, u) = Root(p, v) => (u \in S <=> v \in S)

LEMMA NothingJoined == Connects(<<>>, {})
<1>1. DOMAIN <<>> = {} /\ NodesOf({}) = {} /\ <<>> = [y \in {} |-> <<>>[y]]
  BY DEF NodesOf
<1>2. RankIn(<<>>, <<>>, 0)
  BY <1>1 DEF RankIn
<1>3. 0 \in Nat
  OBVIOUS
<1>4. Forest(<<>>)
  BY <1>1, <1>2, <1>3 DEF Forest
<1> QED BY <1>1, <1>4 DEF Connects

LEMMA UnionConnects ==
    ASSUME NEW p, NEW E, Connects(p, E), NEW e, NEW x, NEW y, {x, y} = {e[1], e[2]}
    PROVE  Connects(AfterUnion(p, x, y), E \cup {e})
<1> DEFINE q == AfterUnion(p, x, y)
           R(u) == RootOf(p, u)
           Q(u) == RootOf(q, u)
           Vs == (DOMAIN p) \cup {x, y}
<1>1. /\ Forest(p) /\ DOMAIN p = NodesOf(E)
      /\ \A d \in E : Root(p, d[1]) = Root(p, d[2])
      /\ \A S : Closed(E, S) =>
            \A u, v \in DOMAIN p : Root(p, u) = Root(p, v) => (u \in S <=> v \in S)
  BY DEF Connects
<1>2. /\ Forest(q) /\ DOMAIN q = Vs
      /\ \A u \in Vs : Q(u) = IF R(u) = R(x) THEN R(y) ELSE R(u)
  <2>1. JoinsRoots(p, x, y, q)
    BY <1>1, UnionRoots
  <2> QED BY <2>1 DEF JoinsRoots
<1>3. Vs = NodesOf(E \cup {e})
  BY <1>1 DEF NodesOf
<1>4. \A u \in Vs : Root(q, u) = Q(u)
  BY <1>2 DEF RootOf
<1>5. \A u \in DOMAIN p : R(u) = Root(p, u) /\ R(u) \in DOMAIN p
  BY <1>1, RootFacts DEF RootOf
<1>6. \A u : u \notin DOMAIN p => R(u) = u
  BY DEF RootOf
<1> HIDE DEF q, R, Q
<1>7. ASSUME NEW d \in E \cup {e} PROVE Root(q, d[1]) = Root(q, d[2])
  <2>1. d[1] \in Vs /\ d[2] \in Vs
    BY <1>3 DEF NodesOf
  <2>2. CASE d \in E
    <3>1. d[1] \in DOMAIN p /\ d[2] \in DOMAIN p
      BY <1>1, <2>2 DEF NodesOf
    <3>2. R(d[1]) = R(d[2])
      BY <1>1, <1>5, <2>2, <3>1
    <3> QED BY <1>2, <1>4, <2>1, <3>2
  <2>3. CASE d = e
    <3>1. Q(x) = R(y) /\ Q(y) = R(y)
      BY <1>2
    <3> QED BY <1>4, <2>1, <2>3, <3>1
  <2> QED BY <2>2, <2>3
<1>8. ASSUME NEW S, Closed(E \cup {e}, S), NEW u \in Vs, NEW v \in Vs, Root(q, u) = Root(q, v)
      PROVE  u \in S <=> v \in S
  <2>1. Closed(E, S) /\ (x \in S <=> y \in S)
    BY <1>8 DEF Closed
  <2>2. ASSUME NEW s \in Vs, NEW t \in Vs, R(s) = R(t) PROVE s \in S <=> t \in S
    <3>1. CASE s \in DOMAIN p /\ t \in DOMAIN p
      BY <1>1, <1>5, <2>1, <2>2, <3>1
    <3>2. CASE s \notin DOMAIN p \/ t \notin DOMAIN p
      <4>1. s = t
        BY <1>5, <1>6, <2>2, <3>2
      <4> QED BY <4>1
    <3> QED BY <3>1, <3>2
  <2>3. Q(u) = Q(v)
    BY <1>4, <1>8
  <2>4. (R(u) = R(x) \/ R(u) = Q(u)) /\ (R(v) = R(x) \/ R(v) = Q(v))
        /\ (R(u) = R(x) => Q(u) = R(y)) /\ (R(v) = R(x) => Q(v) = R(y))
    BY <1>2
  <2>5. x \in Vs /\ y \in Vs
    OBVIOUS
  <2>6. CASE R(u) = R(x) /\ R(v) = R(x)
    BY <2>2, <2>6
  <2>7. CASE R(u) = R(x) /\ R(v) # R(x)
    <3>1. R(v) = R(y)
      BY <2>3, <2>4, <2>7
    <3> QED BY <2>1, <2>2, <2>5, <2>7, <3>1
  <2>8. CASE R(u) # R(x) /\ R(v) = R(x)
    <3>1. R(u) = R(y)
      BY <2>3, <2>4, <2>8
    <3> QED BY <2>1, <2>2, <2>5, <2>8, <3>1
  <2>9. CASE R(u) # R(x) /\ R(v) # R(x)
    BY <2>2, <2>3, <2>4, <2>9
  <2> QED BY <2>6, <2>7, <2>8, <2>9
<1> HIDE DEF Vs
<1> QED BY <1>2, <1>3, <1>7, <1>8 DEF Connects, q

(* Compress() changes no root. *)
LEMMA CompressConnects ==
    ASSUME NEW p, NEW E, Connects(p, E)
    PROVE  /\ Connects(Compressed(p), E)
           /\ \A y \in DOMAIN p : Compressed(p)[y] = Root(p, y)
<1> DEFINE q == Compressed(p)
<1>1. q = [y \in DOMAIN p |-> Root(p, y)]
  BY DEF Compressed
<1> HIDE DEF q
<1>2. Rewires(p, q)
  BY <1>1 DEF Rewires
<1>3. Forest(q) /\ DOMAIN q = DOMAIN p /\ \A y \in DOMAIN p : Root(q, y) = Root(p, y)
  BY <1>2, Rewired DEF Connects
<1>4. \A e \in E : e[1] \in DOMAIN p /\ e[2] \in DOMAIN p
  BY DEF Connects, NodesOf
<1>5. \A e \in E : Root(q, e[1]) = Root(q, e[2])
  BY <1>3, <1>4 DEF Connects
<1>6. \A S : Closed(E, S) =>
          \A u, v \in DOMAIN q : Root(q, u) = Root(q, v) => (u \in S <=> v \in S)
  BY <1>3 DEF Connects
<1>7. Connects(q, E)
  BY <1>3, <1>5, <1>6 DEF Connects
<1> QED BY <1>1, <1>7 DEF q
-----------------------------------------------------------------------------
(* The classes of a finite set of pairs: what can be reached from an element  *)
(* is the smallest set with it that no pair leaves.                           *)
LEMMA NodesFinite == ASSUME NEW E, IsFiniteSet(E) PROVE IsFiniteSet(NodesOf(E))
<1> DEFINE A == {e[1] : e \in E}
           B == {e[2] : e \in E}
           f == [e \in E |-> e[1]]
           g == [e \in E |-> e[2]]
<1>1. f \in Surjection(E, A) /\ g \in Surjection(E, B)
  BY DEF Surjection
<1>2. NodesOf(E) = A \cup B
  BY DEF NodesOf
<1>3. IsFiniteSet(A) /\ IsFiniteSet(B)
  <2> HIDE DEF f, g, A, B
  <2> QED BY <1>1, FS_Surjection
<1> HIDE DEF A, B
<1> QED BY <1>2, <1>3, FS_Union

NearOf(E, S) == S \cup UNION {{e[1], e[2]} : e \in {d \in E : d[1] \in S \/ d[2] \in S}}
Nearer(E) == [S \in SUBSET NodesOf(E) |-> NearOf(E, S)]

LEMMA NearerForest == ASSUME NEW E, IsFiniteSet(E) PROVE Forest(Nearer(E))
<1> DEFINE Vs == NodesOf(E)
           n == Cardinality(Vs)
           p == Nearer(E)
           r == [S \in SUBSET Vs |-> n - Cardinality(S)]
<1>1. IsFiniteSet(Vs) /\ n \in Nat
  BY NodesFinite, FS_CardinalityType
<1>2. ASSUME NEW S \in SUBSET Vs PROVE IsFiniteSet(S) /\ Cardinality(S) \in 0 .. n
  <2>1. IsFiniteSet(S) /\ Cardinality(S) <= n
    BY <1>1, FS_Subset
  <2>2. Cardinality(S) \in Nat
    BY <2>1, FS_CardinalityType
  <2> QED BY <1>1, <2>1, <2>2
<1>3. \A S \in SUBSET Vs : p[S] = NearOf(E, S) /\ S \subseteq p[S] /\ p[S] \in SUBSET Vs
  BY DEF Nearer, NearOf, NodesOf
<1>4. DOMAIN p = SUBSET Vs /\ p = [S \in DOMAIN p |-> p[S]]
  BY DEF Nearer
<1> HIDE DEF Vs, p
<1>5. r \in [SUBSET Vs -> 0 .. n]
  <2> HIDE DEF n
  <2> QED BY <1>1, <1>2
<1>6. ASSUME NEW S \in SUBSET Vs, p[S] # S PROVE r[p[S]] < r[S]
  <2>1. IsFiniteSet(p[S]) /\ S \in SUBSET p[S]
    BY <1>2, <1>3
  <2>2. Cardinality(S) <= Cardinality(p[S]) /\ Cardinality(S) # Cardinality(p[S])
    BY <1>6, <2>1, FS_Subset
  <2>3. r[p[S]] = n - Cardinality(p[S]) /\ r[S] = n - Cardinality(S)
    BY <1>3
  <2>4. Cardinality(S) \in Int /\ Cardinality(p[S]) \in Int /\ n \in Int
    BY <1>1, <1>2, <1>3
  <2> HIDE DEF r, n
  <2> QED BY <2>2, <2>3, <2>4
<1>7. RankIn(p, r, n)
  <2> HIDE DEF r, n
  <2> QED BY <1>4, <1>5, <1>6 DEF RankIn
<1>8. Forest(p)
  <2> HIDE DEF r, n
  <2> QED BY <1>1, <1>3, <1>4, <1>7 DEF Forest
<1> QED BY <1>8 DEF p

LEMMA ClosedNear ==
    ASSUME NEW E, NEW T, Closed(E, T)
    PROVE  \A S : S \subseteq T => NearOf(E, S) \subseteq T
BY DEF Closed, NearOf

LEMMA NearClosed == ASSUME NEW E, NEW S, NearOf(E, S) = S PROVE Closed(E, S)
<1> SUFFICES ASSUME NEW e \in E PROVE e[1] \in S <=> e[2] \in S
  BY DEF Closed
<1>1. e[1] \in S \/ e[2] \in S => e[1] \in NearOf(E, S) /\ e[2] \in NearOf(E, S)
  BY DEF NearOf
<1> QED BY <1>1

Reaches(E, G) ==
    /\ G \in [NodesOf(E) -> SUBSET NodesOf(E)]
    /\ \A x \in NodesOf(E) :
          /\ x \in G[x] /\ Closed(E, G[x])
          /\ \A T : Closed(E, T) /\ x \in T => G[x] \subseteq T

LEMMA ClassesReached ==
    ASSUME NEW E, IsFiniteSet(E)
    PROVE  \E G : Reaches(E, G) /\ Classes(E) = {G[x] : x \in NodesOf(E)}
<1> DEFINE Vs == NodesOf(E)
           p == Nearer(E)
           D == SUBSET Vs
           V == D
           base == [S \in D |-> S]
           gen == [z \in D \X V |-> z[2]]
           Rec(f) == f = [S \in D |-> IF NearOf(E, S) = S THEN S ELSE f[NearOf(E, S)]]
           g == CHOOSE f : Rec(f)
           G == [x \in Vs |-> g[{x}]]
<1>1. Forest(p)
  BY NearerForest
<1>2. D = DOMAIN p /\ \A S \in D : p[S] = NearOf(E, S) /\ p[S] \in D
  BY DEF Nearer, NearOf, NodesOf
<1>3. base \in [D -> V] /\ gen \in [D \X V -> V]
  OBVIOUS
<1>4. PICK f \in [D -> V] : \A S \in D : f[S] = IF p[S] = S THEN base[S] ELSE gen[<<S, f[p[S]]>>]
  <2> HIDE DEF D, V, base, gen, p
  <2>1. AlongForest(p, D, V, base, gen)
    BY <1>1, <1>2, <1>3, ForestRecursion
  <2> QED BY <2>1 DEF AlongForest
<1>5. \A S \in D : f[S] = IF NearOf(E, S) = S THEN S ELSE f[NearOf(E, S)]
  <2> HIDE DEF p
  <2>1. \A S \in D : base[S] = S /\ gen[<<S, f[p[S]]>>] = f[p[S]]
    BY <1>2, <1>4
  <2> HIDE DEF base, gen
  <2> SUFFICES ASSUME NEW S \in D
               PROVE  f[S] = IF NearOf(E, S) = S THEN S ELSE f[NearOf(E, S)]
    OBVIOUS
  <2>2. p[S] = NearOf(E, S)
    BY <1>2
  <2>3. f[S] = IF p[S] = S THEN base[S] ELSE gen[<<S, f[p[S]]>>]
    BY <1>4
  <2> HIDE DEF D
  <2> QED BY <2>1, <2>2, <2>3
<1>6. Rec(f)
  BY <1>4, <1>5
<1>7. Rec(g)
  <2> HIDE DEF Rec
  <2> QED BY <1>6
<1>8. \A S \in D : g[S] = IF NearOf(E, S) = S THEN S ELSE g[NearOf(E, S)]
  <2> HIDE DEF g
  <2> QED BY <1>7
<1>9. Classes(E) = {g[{x}] : x \in Vs}
  BY DEF Classes, NearOf, NodesOf
<1> HIDE DEF g, p
<1> DEFINE Right(S) == /\ S \subseteq g[S] /\ g[S] \in D /\ Closed(E, g[S])
                       /\ \A T : Closed(E, T) /\ S \subseteq T => g[S] \subseteq T
           Z == {S \in D : Right(S)}
<1>10. ASSUME NEW S \in D, p[S] = S \/ p[S] \in Z PROVE S \in Z
  <2>1. CASE p[S] = S
    <3>1. g[S] = S /\ NearOf(E, S) = S
      BY <1>2, <1>8, <2>1
    <3> QED BY <3>1, NearClosed
  <2>2. CASE p[S] # S
    <3>1. g[S] = g[p[S]] /\ p[S] = NearOf(E, S) /\ Right(p[S])
      BY <1>2, <1>8, <1>10, <2>2
    <3>2. S \subseteq p[S]
      BY <3>1 DEF NearOf
    <3>3. \A T : Closed(E, T) /\ S \subseteq T => p[S] \subseteq T
      BY <3>1, ClosedNear
    <3> QED BY <3>1, <3>2, <3>3
  <2> QED BY <2>1, <2>2
<1>11. D \subseteq Z
  <2> HIDE DEF Z, D
  <2> QED BY <1>1, <1>2, <1>10, UpTheForest
<1>12. ASSUME NEW x \in Vs PROVE G[x] = g[{x}] /\ Right({x})
  <2>1. {x} \in D
    OBVIOUS
  <2>2. {x} \in Z
    <3> HIDE DEF Z, D
    <3> QED BY <1>11, <2>1
  <2>3. Right({x})
    <3> HIDE DEF Right
    <3> QED BY <2>2
  <2> HIDE DEF Right
  <2> QED BY <2>3
<1>13. Reaches(E, G)
  <2>1. ASSUME NEW x \in Vs
        PROVE  /\ x \in G[x] /\ G[x] \in SUBSET Vs /\ Closed(E, G[x])
               /\ \A T : Closed(E, T) /\ x \in T => G[x] \subseteq T
    <3>1. G[x] = g[{x}] /\ Right({x})
      BY <1>12
    <3> HIDE DEF G
    <3>2. \A T : x \in T => {x} \subseteq T
      OBVIOUS
    <3> QED BY <3>1, <3>2
  <2>2. G \in [Vs -> SUBSET Vs]
    <3>1. \A x \in Vs : g[{x}] \in SUBSET Vs
      BY <1>12
    <3> QED BY <3>1
  <2> HIDE DEF G
  <2> QED BY <2>1, <2>2 DEF Reaches
<1>14. Classes(E) = {G[x] : x \in Vs}
  BY <1>9
<1> QED BY <1>13, <1>14

(* The sets of a union-find are the classes of the pairs that were joined.    *)
LEMMA ConnectsJoins ==
    ASSUME NEW p, NEW E, IsFiniteSet(E), Connects(p, E)
    PROVE  Joins(p, E)
<1>1. PICK G : Reaches(E, G) /\ Classes(E) = {G[x] : x \in NodesOf(E)}
  BY ClassesReached
<1> DEFINE D == DOMAIN p
           K(x) == {y \in D : Root(p, y) = Root(p, x)}
<1>2. D = NodesOf(E)
  BY DEF Connects
<1>3. SetsOf(Compressed(p)) = {K(x) : x \in D}
  <2>1. /\ DOMAIN Compressed(p) = D
        /\ \A x \in D : Compressed(p)[x] = Root(p, x)
    BY DEF Compressed
  <2> QED BY <2>1 DEF SetsOf
<1>4. ASSUME NEW x \in D PROVE K(x) = G[x]
  <2>1. Closed(E, K(x))
    <3>1. \A e \in E : e[1] \in D /\ e[2] \in D /\ Root(p, e[1]) = Root(p, e[2])
      BY <1>2 DEF Connects, NodesOf
    <3> QED BY <3>1 DEF Closed
  <2>2. x \in G[x] /\ Closed(E, G[x]) /\ G[x] \subseteq K(x)
    <3>1. x \in K(x)
      OBVIOUS
    <3> HIDE DEF K
    <3> QED BY <1>1, <1>2, <2>1, <3>1 DEF Reaches
  <2>3. \A y \in D : Root(p, y) = Root(p, x) => y \in G[x]
    BY <2>2 DEF Connects
  <2> QED BY <2>2, <2>3
<1>5. {K(x) : x \in D} = {G[x] : x \in D}
  <2> HIDE DEF K
  <2> QED BY <1>4
<1> HIDE DEF K
<1> QED BY <1>1, <1>2, <1>3, <1>5 DEF Joins
-----------------------------------------------------------------------------
(* The parts of a model (reconstruction_clustering.cc).                      *)
LEMMA PartsFinite ==
    /\ \A S : Parts!Cardinality(S) = Cardinality(S)
    /\ \A S : Parts!IsFiniteSet(S) <=> IsFiniteSet(S)
BY DEF Parts!Cardinality, Cardinality, Parts!IsFiniteSet, IsFiniteSet

LEMMA PartsUnionFind ==
    /\ \A p, x, y : Parts!AfterUnion(p, x, y) = AfterUnion(p, x, y)
    /\ \A p : Parts!Compressed(p) = Compressed(p) /\ Parts!SetsOf(p) = SetsOf(p)
    /\ \A E : Parts!Classes(E) = Classes(E)
    /\ \A p, E : Parts!Joins(p, E) <=> Joins(p, E)
<1>1. \A p, x : Parts!Root(p, x) = Root(p, x)
  BY DEF Parts!Root, Root
<1>2. \A p, x : Parts!AfterFind(p, x) = AfterFind(p, x)
  BY <1>1 DEF Parts!AfterFind, AfterFind
<1>3. \A p, x, y : Parts!AfterUnion(p, x, y) = AfterUnion(p, x, y)
  BY <1>1, <1>2 DEF Parts!AfterUnion, AfterUnion
<1>4. \A p : Parts!Compressed(p) = Compressed(p)
  BY <1>1 DEF Parts!Compressed, Compressed
<1>5. \A p : Parts!SetsOf(p) = SetsOf(p)
  BY DEF Parts!SetsOf, SetsOf
<1>6. \A E : Parts!Classes(E) = Classes(E)
  BY DEF Parts!Classes, Classes
<1>7. \A p, E : Parts!Joins(p, E) <=> Joins(p, E)
  BY <1>4, <1>5, <1>6 DEF Parts!Joins, Joins
<1> QED BY <1>3, <1>4, <1>5, <1>6, <1>7

(* The classes are not empty, have the elements of the pairs only, and no     *)
(* element is in two of them.                                                *)
LEMMA ClassesApart ==
    ASSUME NEW p, NEW E, IsFiniteSet(E), Connects(p, E)
    PROVE  /\ SetsOf(Compressed(p)) = Classes(E)
           /\ \A S \in Classes(E) : S # {} /\ S \subseteq NodesOf(E)
           /\ \A S, T \in Classes(E) : S \cap T # {} => S = T
<1> DEFINE q == Compressed(p)
           D == DOMAIN p
<1>1. SetsOf(q) = Classes(E)
  BY ConnectsJoins DEF Joins
<1>2. DOMAIN q = D /\ D = NodesOf(E)
  BY DEF Compressed, Connects
<1> HIDE DEF q
<1>3. SetsOf(q) = {{y \in D : q[y] = r} : r \in {q[x] : x \in D}}
  BY <1>2 DEF SetsOf
<1>4. \A S \in SetsOf(q) : \E x \in D : S = {y \in D : q[y] = q[x]}
  BY <1>3
<1>5. \A S \in SetsOf(q) : S # {} /\ S \subseteq D
  BY <1>4
<1>6. ASSUME NEW S \in SetsOf(q), NEW T \in SetsOf(q), S \cap T # {} PROVE S = T
  <2>1. PICK x \in D : S = {y \in D : q[y] = q[x]}
    BY <1>4
  <2>2. PICK z \in D : T = {y \in D : q[y] = q[z]}
    BY <1>4
  <2>3. q[x] = q[z]
    BY <1>6, <2>1, <2>2
  <2> QED BY <2>1, <2>2, <2>3
<1> QED BY <1>1, <1>2, <1>5, <1>6 DEF q

LEMMA KeptInside ==
    ASSUME NEW X, NEW s \in Seq(X), NEW S
    PROVE  Parts!Kept(s, S) \in Seq(X \cap S)
<1> DEFINE n == Len(s)
           D == 0 .. n
           V == Seq(X \cap S)
           p == [m \in D |-> IF m = 0 THEN 0 ELSE m - 1]
           base == [m \in D |-> <<>>]
           Gen(m, v) == IF s[m] \in S THEN Append(v, s[m]) ELSE v
           gen == [z \in D \X V |-> IF z[1] = 0 THEN <<>> ELSE Gen(z[1], z[2])]
           Rec(f) == f = [m \in D |-> IF m = 0 THEN <<>>
                                      ELSE IF s[m] \in S THEN Append(f[m - 1], s[m]) ELSE f[m - 1]]
           g == CHOOSE f : Rec(f)
<1>1. n \in Nat /\ \A m \in 1 .. n : s[m] \in X
  BY LenProperties, ElementOfSeq
<1> HIDE DEF n
<1>2. DOMAIN p = D /\ p = [m \in DOMAIN p |-> p[m]] /\ \A m \in D : p[m] \in D
  BY <1>1
<1>3. p[0] = 0 /\ \A m \in D : m # 0 => p[m] = m - 1 /\ m - 1 \in D /\ m \in 1 .. n
  BY <1>1
<1> HIDE DEF p
<1>4. Forest(p)
  <2> DEFINE r == [m \in D |-> m]
  <2>1. \A y \in D : p[y] # y => r[p[y]] < r[y]
    BY <1>1, <1>3
  <2>2. RankIn(p, r, n)
    BY <1>2, <2>1 DEF RankIn
  <2> HIDE DEF r
  <2> QED BY <1>1, <1>2, <2>2 DEF Forest
<1>5. \A m \in D, v \in V : m # 0 => Gen(m, v) \in V
  <2> SUFFICES ASSUME NEW m \in D, NEW v \in V, m # 0, s[m] \in S PROVE Append(v, s[m]) \in V
    OBVIOUS
  <2>1. s[m] \in X \cap S
    BY <1>1, <1>3
  <2> QED BY <2>1, AppendProperties
<1>6. <<>> \in V
  OBVIOUS
<1> HIDE DEF V, Gen
<1>7. base \in [D -> V] /\ gen \in [D \X V -> V]
  BY <1>5, <1>6
<1>8. PICK f \in [D -> V] : \A m \in D : f[m] = IF p[m] = m THEN base[m] ELSE gen[<<m, f[p[m]]>>]
  <2> HIDE DEF D, base, gen
  <2>1. AlongForest(p, D, V, base, gen)
    BY <1>2, <1>4, <1>7, ForestRecursion
  <2> QED BY <2>1 DEF AlongForest
<1>9. ASSUME NEW m \in D PROVE f[m] = IF m = 0 THEN <<>> ELSE Gen(m, f[m - 1])
  <2>1. CASE m = 0
    BY <1>3, <1>8, <2>1
  <2>2. CASE m # 0
    <3>1. p[m] = m - 1 /\ m - 1 \in D /\ p[m] # m
      BY <1>1, <1>3, <2>2
    <3>2. gen[<<m, f[m - 1]>>] = Gen(m, f[m - 1])
      BY <1>8, <2>2, <3>1
    <3> HIDE DEF gen
    <3> QED BY <1>8, <2>2, <3>1, <3>2
  <2> QED BY <2>1, <2>2
<1>10. Rec(f)
  BY <1>8, <1>9 DEF Gen
<1>11. Rec(g)
  <2> HIDE DEF Rec
  <2> QED BY <1>10
<1>12. Parts!Kept(s, S) = g[n]
  BY DEF Parts!Kept, n
<1> HIDE DEF g
<1>13. \A m \in D : g[m] = IF m = 0 THEN <<>> ELSE Gen(m, g[m - 1])
  BY <1>11 DEF Gen
<1> DEFINE Z == {m \in D : g[m] \in V}
<1>14. ASSUME NEW m \in D, p[m] = m \/ p[m] \in Z PROVE m \in Z
  <2>1. CASE m = 0
    BY <1>6, <1>13, <2>1
  <2>2. CASE m # 0
    <3>1. m - 1 \in Z
      BY <1>1, <1>3, <1>14, <2>2
    <3> QED BY <1>5, <1>13, <2>2, <3>1
  <2> QED BY <2>1, <2>2
<1>15. D \subseteq Z
  <2> HIDE DEF Z, D
  <2> QED BY <1>2, <1>4, <1>14, UpTheForest
<1>16. n \in D
  BY <1>1
<1> QED BY <1>12, <1>15, <1>16 DEF V
Large == {S \in Classes(strong) : Cardinality(S) >= MinFrames}

(* The clusters are the large classes, each once, by decreasing size.         *)
Numbered(order) ==
    /\ order \in [1 .. Cardinality(Large) -> Large]
    /\ \A S \in Large : \E i \in DOMAIN order : order[i] = S
    /\ \A i, j \in DOMAIN order : i < j =>
          order[i] # order[j] /\ Cardinality(order[i]) >= Cardinality(order[j])

(* What is joined, while it is joined and after it; and what is made of it.   *)
PartsInv ==
    /\ scene \in Scenes /\ strong = Parts!StrongEdges /\ edges \subseteq strong
    /\ Connects(froots, strong \ edges)
    /\ cstage \in {"join", "split", "done"}
    /\ cstage # "join" => edges = {} /\ Numbered(groups)
    /\ Parts!ModelsAreComponents

LEMMA EdgesOfFrames ==
    ASSUME Parts!ScenesAssumption, scene \in Scenes, strong = Parts!StrongEdges
    PROVE  /\ IsFiniteSet(scene.frames) /\ IsFiniteSet(strong)
           /\ \A E \in SUBSET strong : IsFiniteSet(E) /\ NodesOf(E) \subseteq scene.frames
<1> DEFINE W == scene.frames \X scene.frames
<1>1. IsFiniteSet(scene.frames)
  BY PartsFinite DEF Parts!ScenesAssumption
<1>2. strong \subseteq W
  BY DEF Parts!StrongEdges, Parts!Weighted, Parts!Pairs
<1>3. IsFiniteSet(W)
  BY <1>1, FS_Product
<1>4. \A E \in SUBSET strong : NodesOf(E) \subseteq scene.frames
  BY <1>2 DEF NodesOf
<1> HIDE DEF W
<1>5. \A E \in SUBSET strong : IsFiniteSet(E)
  BY <1>2, <1>3, FS_Subset
<1> QED BY <1>1, <1>4, <1>5

LEMMA PartsBegin == Parts!Init => PartsInv
<1> SUFFICES ASSUME Parts!Init PROVE PartsInv
  OBVIOUS
<1>1. scene \in Scenes /\ strong = Parts!StrongEdges /\ edges \subseteq strong /\ cstage = "join"
  BY DEF Parts!Init
<1>2. Connects(froots, strong \ edges)
  <2>1. froots = <<>> /\ strong \ edges = {}
    BY DEF Parts!Init
  <2> QED BY <2>1, NothingJoined
<1>3. Parts!ModelsAreComponents
  BY <1>1 DEF Parts!ModelsAreComponents
<1> QED BY <1>1, <1>2, <1>3 DEF PartsInv

LEMMA PartsJoin == ASSUME PartsInv, Parts!Join PROVE PartsInv'
<1>1. PICK p \in edges :
          edges' = edges \ {p} /\ froots' = Parts!AfterUnion(froots, p[1], p[2])
  BY DEF Parts!Join
<1>2. /\ scene' = scene /\ threshold' = threshold /\ strong' = strong /\ groups' = groups
      /\ submodels' = submodels /\ cstage' = cstage /\ cstage = "join"
  BY DEF Parts!Join
<1>3. (strong \ edges)' = (strong \ edges) \cup {p}
  BY <1>1, <1>2 DEF PartsInv
<1>4. Connects(froots, strong \ edges)' 
  <2>1. froots' = AfterUnion(froots, p[1], p[2])
    BY <1>1, PartsUnionFind
  <2>2. Connects(AfterUnion(froots, p[1], p[2]), (strong \ edges) \cup {p})
    BY UnionConnects DEF PartsInv
  <2> QED BY <1>3, <2>1, <2>2
<1>5. Parts!StrongEdges' = Parts!StrongEdges
  BY <1>2 DEF Parts!StrongEdges, Parts!Weighted, Parts!Pairs, Parts!Weight
<1>6. Parts!ModelsAreComponents'
  BY <1>2 DEF Parts!ModelsAreComponents
<1> QED BY <1>1, <1>2, <1>4, <1>5, <1>6 DEF PartsInv

(* An enumeration without repetition, as long as there are large classes, has *)
(* all of them.                                                              *)
Lists(f, S) ==
    /\ f \in [1 .. Cardinality(S) -> S]
    /\ \A i, j \in 1 .. Cardinality(S) : i < j => f[i] # f[j]

LEMMA AllNumbered ==
    ASSUME NEW S, IsFiniteSet(S), NEW f, Lists(f, S)
    PROVE  \A x \in S : \E i \in 1 .. Cardinality(S) : f[i] = x
<1> DEFINE D == 1 .. Cardinality(S)
<1>0. f \in [D -> S] /\ \A i, j \in D : i < j => f[i] # f[j]
  BY DEF Lists
<1>1. Cardinality(S) \in Nat
  BY FS_CardinalityType
<1>2. f \in Injection(D, S)
  <2>1. ASSUME NEW i \in D, NEW j \in D, f[i] = f[j] PROVE i = j
    <3>1. ~(i < j) /\ ~(j < i)
      BY <1>0, <2>1
    <3> QED BY <1>1, <3>1
  <2> QED BY <1>0, <2>1 DEF Injection, IsInjective
<1>3. Cardinality(D) = Cardinality(S)
  BY <1>1, FS_Interval
<1>4. f \in Surjection(D, S)
  <2> HIDE DEF D
  <2> QED BY <1>2, <1>3, FS_Injection
<1> QED BY <1>4 DEF Surjection

LEMMA LargeListed ==
    ASSUME IsFiniteSet(Large), NEW f, Lists(f, Large)
    PROVE  \A S \in Large : \E i \in 1 .. Cardinality(Large) : f[i] = S
BY AllNumbered

LEMMA PartsNumber ==
    ASSUME Parts!ScenesAssumption, PartsInv, Parts!Number
    PROVE  PartsInv'
<1>1. /\ scene' = scene /\ threshold' = threshold /\ strong' = strong /\ edges' = edges
      /\ submodels' = submodels /\ cstage' = "split" /\ edges = {} /\ strong \ edges = strong
  BY DEF Parts!Number
<1>2. IsFiniteSet(strong) /\ IsFiniteSet(scene.frames) /\ NodesOf(strong) \subseteq scene.frames
  BY EdgesOfFrames DEF PartsInv
<1>3. Connects(froots, strong)
  BY <1>1 DEF PartsInv
<1>4. Connects(froots, strong)'
  <2>1. froots' = Compressed(froots)
    BY PartsUnionFind DEF Parts!Number
  <2> QED BY <1>1, <1>3, <2>1, CompressConnects
<1>5. SetsOf(Compressed(froots)) = Classes(strong) /\ \A S \in Classes(strong) : S \subseteq scene.frames
  BY <1>2, <1>3, ClassesApart
<1>6. IsFiniteSet(Large)
  <2>1. Large \subseteq SUBSET scene.frames
    BY <1>5 DEF Large
  <2> QED BY <1>2, <2>1, FS_SUBSET, FS_Subset
<1>7. {c \in Parts!SetsOf(Parts!Compressed(froots)) : Parts!Cardinality(c) >= MinFrames} = Large
  BY <1>5, PartsUnionFind, PartsFinite DEF Large
<1>0. \E order \in [1 .. Cardinality(Large) -> Large] :
          /\ \A i, j \in DOMAIN order : i < j =>
                order[i] # order[j] /\ Cardinality(order[i]) >= Cardinality(order[j])
          /\ groups' = order
  BY <1>7, PartsFinite DEF Parts!Number
<1>8. PICK order :
          /\ order \in [1 .. Cardinality(Large) -> Large]
          /\ \A i, j \in DOMAIN order : i < j =>
                order[i] # order[j] /\ Cardinality(order[i]) >= Cardinality(order[j])
          /\ groups' = order
  BY <1>0
<1>9. DOMAIN order = 1 .. Cardinality(Large)
  BY <1>8
<1>10. \A S \in Large : \E i \in DOMAIN order : order[i] = S
  <2>1. Lists(order, Large)
    BY <1>8, <1>9 DEF Lists
  <2> QED BY <1>6, <1>9, <2>1, LargeListed
<1>11. Numbered(groups')
  BY <1>8, <1>10 DEF Numbered
<1>12. Large' = Large
  BY <1>1 DEF Large
<1>13. Numbered(groups)'
  BY <1>11, <1>12 DEF Numbered
<1>14. Parts!StrongEdges' = Parts!StrongEdges
  BY <1>1 DEF Parts!StrongEdges, Parts!Weighted, Parts!Pairs, Parts!Weight
<1>15. Parts!ModelsAreComponents'
  BY <1>1 DEF Parts!ModelsAreComponents
<1>16. Connects(froots, strong \ edges)'
  BY <1>1, <1>4
<1> QED BY <1>1, <1>13, <1>14, <1>15, <1>16 DEF PartsInv

(* A model of a cluster. *)
LEMMA SubModelRight ==
    ASSUME Parts!ScenesAssumption, scene \in Scenes, NEW S \in SUBSET scene.frames
    PROVE  /\ Parts!SubModel(S).frames = S
           /\ \A t \in Parts!SubModel(S).tracks :
                 Len(t) >= 2 /\ \A i \in DOMAIN t : scene.frameOf[t[i]] \in S
<1> DEFINE J == {i \in DOMAIN scene.frameOf : scene.frameOf[i] \in S}
           inside(u) == Parts!Kept(scene.tracks[u], J)
           U == {u \in DOMAIN scene.tracks : Len(inside(u)) >= 2}
<1>1. Parts!SubModel(S).frames = scene.frames \cap S
  BY DEF Parts!SubModel, Parts!Model
<1>2. Parts!SubModel(S).tracks = {inside(t) : t \in U}
  BY DEF Parts!SubModel, Parts!Model
<1>3. ASSUME NEW u \in DOMAIN scene.tracks PROVE inside(u) \in Seq(J)
  <2>1. scene.tracks[u] \in Seq(DOMAIN scene.frameOf)
    BY DEF Parts!ScenesAssumption
  <2>2. inside(u) \in Seq((DOMAIN scene.frameOf) \cap J)
    <3> HIDE DEF J
    <3> QED BY <2>1, KeptInside
  <2>3. (DOMAIN scene.frameOf) \cap J = J
    OBVIOUS
  <2> QED BY <2>2, <2>3
<1>4. ASSUME NEW t \in Parts!SubModel(S).tracks
      PROVE  Len(t) >= 2 /\ \A i \in DOMAIN t : scene.frameOf[t[i]] \in S
  <2>1. PICK u \in U : t = inside(u)
    BY <1>2
  <2>2. t \in Seq(J) /\ Len(t) >= 2
    BY <1>3, <2>1
  <2>3. \A i \in DOMAIN t : t[i] \in J
    <3> HIDE DEF J
    <3> QED BY <2>2, LenProperties, ElementOfSeq
  <2> QED BY <2>2, <2>3
<1> QED BY <1>1, <1>4

LEMMA PartsSplit ==
    ASSUME Parts!ScenesAssumption, PartsInv, Parts!Split
    PROVE  PartsInv'
<1>1. /\ scene' = scene /\ threshold' = threshold /\ strong' = strong /\ edges' = edges
      /\ froots' = froots /\ groups' = groups /\ cstage = "split"
  BY DEF Parts!Split
<1>2. Numbered(groups) /\ strong \ edges = strong /\ edges = {} /\ MinFrames \in Nat
  BY <1>1 DEF PartsInv, Parts!ScenesAssumption
<1>3. IsFiniteSet(strong) /\ IsFiniteSet(scene.frames) /\ NodesOf(strong) \subseteq scene.frames
  BY EdgesOfFrames DEF PartsInv
<1>4. /\ \A S \in Classes(strong) : S \subseteq scene.frames
      /\ \A S, T \in Classes(strong) : S \cap T # {} => S = T
  BY <1>2, <1>3, ClassesApart DEF PartsInv
<1>5. \A S \in Large : S \in Classes(strong) /\ S \subseteq scene.frames /\ Cardinality(S) >= MinFrames
  BY <1>4 DEF Large
<1>6. \A S \in Large : /\ Parts!SubModel(S).frames = S
                       /\ \A t \in Parts!SubModel(S).tracks :
                             Len(t) >= 2 /\ \A i \in DOMAIN t : scene.frameOf[t[i]] \in S
  BY <1>5, SubModelRight DEF PartsInv
<1>7. \A i \in DOMAIN groups : groups[i] \in Large
  BY <1>2 DEF Numbered
<1>8. {S \in Parts!Classes(strong) : Parts!Cardinality(S) >= MinFrames} = Large
  BY PartsUnionFind, PartsFinite DEF Large
<1>9. Large' = Large
  BY <1>1 DEF Large
<1>10. \A S : (S \in Large => Cardinality(S) \in Nat)
  <2> SUFFICES ASSUME NEW S \in Large PROVE Cardinality(S) \in Nat
    OBVIOUS
  <2> QED BY <1>3, <1>5, FS_Subset, FS_CardinalityType
<1>11. Cardinality(scene.frames) \in Nat
  BY <1>3, FS_CardinalityType
<1>12. ASSUME groups # <<>> PROVE cstage' = "done" /\ Parts!ModelsAreComponents'
  <2>1. submodels' = [c \in DOMAIN groups |-> Parts!SubModel(groups[c])]
    BY <1>12 DEF Parts!Split
  <2>2. \A c \in DOMAIN groups : submodels'[c].frames = groups[c]
    BY <1>6, <1>7, <2>1
  <2>3. DOMAIN submodels' = DOMAIN groups
    BY <2>1
  <2>4. cstage' = "done"
    <3>1. \A c \in DOMAIN groups : ~(Cardinality(submodels'[c].frames) < MinFrames)
      <4> SUFFICES ASSUME NEW c \in DOMAIN groups PROVE ~(Cardinality(groups[c]) < MinFrames)
        BY <2>2
      <4> QED BY <1>2, <1>5, <1>7, <1>10
    <3> QED BY <3>1, PartsFinite DEF Parts!Split
  <2>5. Large # {}
    <3>1. DOMAIN groups # {}
      <4> SUFFICES ASSUME DOMAIN groups = {} PROVE FALSE
        OBVIOUS
      <4>1. groups = [i \in {} |-> groups[i]]
        BY <1>2 DEF Numbered
      <4>2. groups = <<>>
        BY <4>1
      <4> QED BY <1>12, <4>2
    <3> QED BY <1>7, <3>1
  <2>6. {submodels'[m].frames : m \in DOMAIN submodels'} = Large
    <3>1. {submodels'[m].frames : m \in DOMAIN submodels'} = {groups[m] : m \in DOMAIN groups}
      BY <2>2, <2>3
    <3>2. \A S \in Large : \E i \in DOMAIN groups : groups[i] = S
      BY <1>2 DEF Numbered
    <3> QED BY <1>7, <3>1, <3>2
  <2>7. ASSUME NEW m \in DOMAIN submodels', NEW n \in DOMAIN submodels', m < n
        PROVE  /\ submodels'[m].frames \cap submodels'[n].frames = {}
               /\ Cardinality(submodels'[m].frames) >= Cardinality(submodels'[n].frames)
    <3>1. groups[m] # groups[n] /\ Cardinality(groups[m]) >= Cardinality(groups[n])
      BY <1>2, <2>3, <2>7 DEF Numbered
    <3>2. groups[m] \cap groups[n] = {}
      BY <1>4, <1>5, <1>7, <2>3, <3>1
    <3> QED BY <2>2, <2>3, <3>1, <3>2
  <2>8. \A m \in DOMAIN submodels' : \A t \in submodels'[m].tracks :
            Len(t) >= 2 /\ \A i \in DOMAIN t : scene.frameOf[t[i]] \in submodels'[m].frames
    BY <1>6, <1>7, <2>1, <2>2, <2>3
  <2>9. Parts!ModelsAreComponents'
    <3>1. {S \in Parts!Classes(strong') : Parts!Cardinality(S) >= MinFrames} = Large
      BY <1>1, <1>8
    <3> QED BY <1>1, <2>4, <2>5, <2>6, <2>7, <2>8, <3>1, PartsFinite
        DEF Parts!ModelsAreComponents
  <2> QED BY <2>4, <2>9
<1>13. ASSUME groups = <<>> PROVE cstage' = "done" /\ Parts!ModelsAreComponents'
  <2>1. Large = {}
    <3>1. DOMAIN groups = {}
      BY <1>13
    <3> QED BY <1>2, <3>1 DEF Numbered
  <2>2. cstage' = "done"
    BY <1>13 DEF Parts!Split
  <2> DEFINE whole == Parts!Whole
  <2>3. whole.frames = scene.frames /\ whole.tracks = {scene.tracks[t] : t \in DOMAIN scene.tracks}
    BY DEF Parts!Whole, Parts!Model
  <2>4. \A t \in whole.tracks : Len(t) >= 2 /\ \A i \in DOMAIN t : scene.frameOf[t[i]] \in scene.frames
    BY <2>3 DEF Parts!ScenesAssumption, PartsInv
  <2> HIDE DEF whole
  <2>5. submodels' = IF Cardinality(scene.frames) >= MinFrames THEN <<whole>> ELSE <<>>
    BY <1>13, PartsFinite DEF Parts!Split, whole
  <2>6. CASE Cardinality(scene.frames) >= MinFrames
    <3>1. DOMAIN submodels' = {1} /\ submodels'[1] = whole
      BY <2>5, <2>6
    <3>2. {submodels'[m].frames : m \in DOMAIN submodels'} = {scene.frames}
      BY <2>3, <3>1
    <3>3. {scene.frames} \cap {S \in {scene.frames} : Cardinality(S) >= MinFrames} = {scene.frames}
      BY <2>6
    <3>4. \A m, n \in DOMAIN submodels' : ~(m < n)
      BY <3>1
    <3>5. \A m \in DOMAIN submodels' : \A t \in submodels'[m].tracks :
              Len(t) >= 2 /\ \A i \in DOMAIN t : scene.frameOf[t[i]] \in submodels'[m].frames
      BY <2>3, <2>4, <3>1
    <3>6. Parts!ModelsAreComponents'
      <4>1. {S \in Parts!Classes(strong') : Parts!Cardinality(S) >= MinFrames} = {}
        BY <1>1, <1>8, <2>1
      <4> QED BY <1>1, <2>2, <3>2, <3>3, <3>4, <3>5, <4>1, PartsFinite
          DEF Parts!ModelsAreComponents
    <3> QED BY <2>2, <3>6
  <2>7. CASE ~(Cardinality(scene.frames) >= MinFrames)
    <3>1. DOMAIN submodels' = {}
      BY <2>5, <2>7
    <3>2. {scene.frames} \cap {S \in {scene.frames} : Cardinality(S) >= MinFrames} = {}
      BY <2>7
    <3>3. Parts!ModelsAreComponents'
      <4>1. {S \in Parts!Classes(strong') : Parts!Cardinality(S) >= MinFrames} = {}
        BY <1>1, <1>8, <2>1
      <4>2. {submodels'[m].frames : m \in DOMAIN submodels'} = {}
        BY <3>1
      <4> QED BY <1>1, <2>2, <3>1, <3>2, <4>1, <4>2, PartsFinite DEF Parts!ModelsAreComponents
    <3> QED BY <2>2, <3>3
  <2> QED BY <2>6, <2>7
<1>14. cstage' = "done" /\ Parts!ModelsAreComponents'
  BY <1>12, <1>13
<1>15. Parts!StrongEdges' = Parts!StrongEdges
  BY <1>1 DEF Parts!StrongEdges, Parts!Weighted, Parts!Pairs, Parts!Weight
<1>16. Numbered(groups)' /\ edges' = {}
  BY <1>1, <1>2, <1>9 DEF Numbered
<1>17. Connects(froots, strong \ edges)'
  BY <1>1 DEF PartsInv
<1> QED BY <1>1, <1>14, <1>15, <1>16, <1>17 DEF PartsInv

LEMMA PartsInvariance == ASSUME Parts!ScenesAssumption PROVE Parts!Spec => []PartsInv
<1>1. ASSUME PartsInv, [Parts!Next]_(Parts!vars) PROVE PartsInv'
  <2>1. CASE Parts!Join
    BY <1>1, <2>1, PartsJoin
  <2>2. CASE Parts!Number
    BY <1>1, <2>2, PartsNumber
  <2>3. CASE Parts!Split
    BY <1>1, <2>3, PartsSplit
  <2>4. CASE UNCHANGED Parts!vars
    <3>1. /\ scene' = scene /\ threshold' = threshold /\ strong' = strong /\ edges' = edges
          /\ froots' = froots /\ groups' = groups /\ submodels' = submodels /\ cstage' = cstage
      BY <2>4 DEF Parts!vars
    <3>2. Parts!StrongEdges' = Parts!StrongEdges
      BY <3>1 DEF Parts!StrongEdges, Parts!Weighted, Parts!Pairs, Parts!Weight
    <3>3. Large' = Large /\ (Parts!ModelsAreComponents' <=> Parts!ModelsAreComponents)
      BY <3>1 DEF Large, Parts!ModelsAreComponents
    <3>4. Numbered(groups)' <=> Numbered(groups)
      BY <3>1, <3>3 DEF Numbered
    <3> QED BY <1>1, <3>1, <3>2, <3>3, <3>4 DEF PartsInv
  <2> QED BY <1>1, <2>1, <2>2, <2>3, <2>4 DEF Parts!Next
<1> QED BY <1>1, PartsBegin, PTL DEF Parts!Spec

(* In whatever order the edges come, two frames have one root exactly when    *)
(* the edges joined so far connect them; and the models that are made are the *)
(* parts that are connected and large enough, with no point that reaches out  *)
(* of its model (reconstruction_clustering.cc).                              *)
THEOREM PartsAreConnected ==
    ASSUME Parts!ScenesAssumption
    PROVE  Parts!Spec =>
               [](Parts!TypeOK /\ Parts!RootsAreComponents /\ Parts!ModelsAreComponents)
<1>1. ASSUME PartsInv
      PROVE  Parts!TypeOK /\ Parts!RootsAreComponents /\ Parts!ModelsAreComponents
  <2>1. IsFiniteSet(strong \ edges) /\ NodesOf(strong \ edges) \subseteq scene.frames
    BY <1>1, EdgesOfFrames DEF PartsInv
  <2>2. Parts!RootsAreComponents
    BY <1>1, <2>1, ConnectsJoins, PartsUnionFind DEF PartsInv, Parts!RootsAreComponents
  <2>3. Parts!TypeOK
    BY <1>1, <2>1 DEF PartsInv, Parts!TypeOK, Connects, Forest
  <2> QED BY <1>1, <2>2, <2>3 DEF PartsInv
<1> QED BY <1>1, PartsInvariance, PTL
-----------------------------------------------------------------------------
(* The tracks of the global mapper (sfm/global_mapper.cc).                    *)
LEMMA TracksFinite ==
    /\ \A S : Tracks!Cardinality(S) = Cardinality(S)
    /\ \A S : Tracks!IsFiniteSet(S) <=> IsFiniteSet(S)
BY DEF Tracks!Cardinality, Cardinality, Tracks!IsFiniteSet, IsFiniteSet

LEMMA TracksUnionFind ==
    /\ \A p, x, y : Tracks!AfterUnion(p, x, y) = AfterUnion(p, x, y)
    /\ \A p : Tracks!Compressed(p) = Compressed(p) /\ Tracks!SetsOf(p) = SetsOf(p)
    /\ \A E : Tracks!Classes(E) = Classes(E)
    /\ \A p, E : Tracks!Joins(p, E) <=> Joins(p, E)
<1>1. \A p, x : Tracks!Root(p, x) = Root(p, x)
  BY DEF Tracks!Root, Root
<1>2. \A p, x : Tracks!AfterFind(p, x) = AfterFind(p, x)
  BY <1>1 DEF Tracks!AfterFind, AfterFind
<1>3. \A p, x, y : Tracks!AfterUnion(p, x, y) = AfterUnion(p, x, y)
  BY <1>1, <1>2 DEF Tracks!AfterUnion, AfterUnion
<1>4. \A p : Tracks!Compressed(p) = Compressed(p)
  BY <1>1 DEF Tracks!Compressed, Compressed
<1>5. \A p : Tracks!SetsOf(p) = SetsOf(p)
  BY DEF Tracks!SetsOf, SetsOf
<1>6. \A E : Tracks!Classes(E) = Classes(E)
  BY DEF Tracks!Classes, Classes
<1>7. \A p, E : Tracks!Joins(p, E) <=> Joins(p, E)
  BY <1>4, <1>5, <1>6 DEF Tracks!Joins, Joins
<1> QED BY <1>3, <1>4, <1>5, <1>6, <1>7

(* The valid tracks, and what the points added show of an image.              *)
ValidTracks == {t \in Classes(matches) : Tracks!Valid(t)}
ShownBy(T, i) == {o \in UNION T : o[1] = i}
Unserved == {i \in Posed : counts[i] <= Required}

(* The candidates are the valid tracks, each once, by decreasing length.      *)
Ranked(order) ==
    /\ Lists(order, ValidTracks)
    /\ \A a, b \in DOMAIN order : a < b => Cardinality(order[a]) >= Cardinality(order[b])

(* Every track whose turn is over was added, or is not wanted any more.       *)
TurnsDone ==
    \A k \in 1 .. turn - 1 :
        candidates[k] \in added \/ \A i \in Tracks!Views(candidates[k]) : counts[i] > Required

TracksInv ==
    /\ matches \in MatchSets /\ unjoined \subseteq matches
    /\ Connects(troots, matches \ unjoined)
    /\ gstage \in {"join", "select", "done"}
    /\ gstage = "join" => candidates = <<>>
    /\ gstage # "join" => unjoined = {} /\ Ranked(candidates)
    /\ turn \in 1 .. Len(candidates) + 1
    /\ added \subseteq {candidates[k] : k \in 1 .. turn - 1}
    /\ counts = [i \in Posed |-> Cardinality(ShownBy(added, i))]
    /\ images_left = Cardinality(Unserved)
    /\ Cardinality(added) <= MaxTracks
    /\ TurnsDone
    /\ gstage = "done" =>
          turn > Len(candidates) \/ Cardinality(added) = MaxTracks \/ images_left = 0

LEMMA MatchesFinite ==
    ASSUME Tracks!TracksAssumption, matches \in MatchSets
    PROVE  /\ IsFiniteSet(matches) /\ IsFiniteSet(Posed) /\ Required \in Nat /\ MaxTracks \in Nat
           /\ IsFiniteSet(NodesOf(matches))
           /\ \A E \in SUBSET matches : IsFiniteSet(E)
           /\ \A o \in NodesOf(matches) : o[1] \in Posed
<1>1. /\ IsFiniteSet(matches) /\ IsFiniteSet(Posed) /\ Required \in Nat /\ MaxTracks \in Nat
      /\ \A m \in matches : m[1][1] \in Posed /\ m[2][1] \in Posed
  BY TracksFinite DEF Tracks!TracksAssumption
<1>2. IsFiniteSet(NodesOf(matches))
  BY <1>1, NodesFinite
<1>3. \A E \in SUBSET matches : IsFiniteSet(E)
  BY <1>1, FS_Subset
<1>4. \A o \in NodesOf(matches) : o[1] \in Posed
  BY <1>1 DEF NodesOf
<1> QED BY <1>1, <1>2, <1>3, <1>4

(* When all matches are joined, the valid tracks are finitely many, apart and *)
(* of observations of the registered images.                                 *)
LEMMA ValidTracksApart ==
    ASSUME Tracks!TracksAssumption, matches \in MatchSets, Connects(troots, matches)
    PROVE  /\ IsFiniteSet(ValidTracks) /\ Cardinality(ValidTracks) \in Nat
           /\ \A t \in ValidTracks : IsFiniteSet(t) /\ Tracks!Views(t) \subseteq Posed
           /\ \A s, t \in ValidTracks : s \cap t # {} => s = t
           /\ SetsOf(Compressed(troots)) = Classes(matches)
<1>1. /\ IsFiniteSet(NodesOf(matches)) /\ IsFiniteSet(matches)
      /\ \A o \in NodesOf(matches) : o[1] \in Posed
  BY MatchesFinite
<1>2. /\ SetsOf(Compressed(troots)) = Classes(matches)
      /\ \A S \in Classes(matches) : S \subseteq NodesOf(matches)
      /\ \A S, T \in Classes(matches) : S \cap T # {} => S = T
  BY <1>1, ClassesApart
<1>3. ValidTracks \subseteq SUBSET NodesOf(matches)
  BY <1>2 DEF ValidTracks
<1>4. IsFiniteSet(ValidTracks) /\ Cardinality(ValidTracks) \in Nat
  BY <1>1, <1>3, FS_SUBSET, FS_Subset, FS_CardinalityType
<1>5. \A t \in ValidTracks : IsFiniteSet(t)
  BY <1>1, <1>3, FS_Subset
<1>6. \A t \in ValidTracks : Tracks!Views(t) \subseteq Posed
  BY <1>1, <1>3 DEF Tracks!Views
<1> QED BY <1>2, <1>4, <1>5, <1>6 DEF ValidTracks

LEMMA RankedLength ==
    ASSUME NEW c, Ranked(c), Cardinality(ValidTracks) \in Nat
    PROVE  /\ Len(c) = Cardinality(ValidTracks) /\ DOMAIN c = 1 .. Len(c)
           /\ \A k \in 1 .. Len(c) : c[k] \in ValidTracks
           /\ \A j, k \in 1 .. Len(c) : c[j] = c[k] => j = k
<1> DEFINE n == Cardinality(ValidTracks)
<1>1. c \in [1 .. n -> ValidTracks] /\ \A i, j \in 1 .. n : i < j => c[i] # c[j]
  BY DEF Ranked, Lists
<1>2. c \in Seq(ValidTracks)
  BY <1>1, SeqDef
<1> HIDE DEF n
<1>3. n \in Nat
  BY DEF n
<1>4. Len(c) = n
  BY <1>1, <1>2, <1>3, LenProperties
<1>5. ASSUME NEW j \in 1 .. n, NEW k \in 1 .. n, c[j] = c[k] PROVE j = k
  <2>1. ~(j < k) /\ ~(k < j)
    BY <1>1, <1>5
  <2> QED BY <1>3, <2>1
<1> QED BY <1>1, <1>4, <1>5 DEF n

LEMMA TracksBegin == ASSUME Tracks!TracksAssumption, Tracks!Init PROVE TracksInv
<1>1. /\ matches \in MatchSets /\ unjoined = matches /\ troots = <<>> /\ candidates = <<>>
      /\ turn = 1 /\ counts = [i \in Posed |-> 0] /\ images_left = Cardinality(Posed)
      /\ added = {} /\ gstage = "join"
  BY TracksFinite DEF Tracks!Init
<1>2. Connects(troots, matches \ unjoined)
  <2>1. troots = <<>> /\ matches \ unjoined = {}
    BY <1>1
  <2> QED BY <2>1, NothingJoined
<1>3. Cardinality(added) = 0 /\ \A i : Cardinality(ShownBy(added, i)) = 0
  <2>1. \A i : ShownBy(added, i) = {}
    BY <1>1 DEF ShownBy
  <2> QED BY <1>1, <2>1, FS_EmptySet
<1>4. Required \in Nat /\ MaxTracks \in Nat
  BY <1>1, MatchesFinite
<1>5. counts = [i \in Posed |-> Cardinality(ShownBy(added, i))]
  BY <1>1, <1>3
<1>6. Unserved = Posed
  BY <1>1, <1>4 DEF Unserved
<1>7. turn \in 1 .. Len(candidates) + 1 /\ TurnsDone
  BY <1>1 DEF TurnsDone
<1> QED BY <1>1, <1>2, <1>3, <1>4, <1>5, <1>6, <1>7 DEF TracksInv

LEMMA TracksJoin == ASSUME TracksInv, Tracks!Join PROVE TracksInv'
<1>1. PICK m \in unjoined :
          unjoined' = unjoined \ {m} /\ troots' = Tracks!AfterUnion(troots, m[2], m[1])
  BY DEF Tracks!Join
<1>2. /\ matches' = matches /\ candidates' = candidates /\ turn' = turn /\ counts' = counts
      /\ images_left' = images_left /\ added' = added /\ gstage' = gstage /\ gstage = "join"
  BY DEF Tracks!Join
<1>3. (matches \ unjoined)' = (matches \ unjoined) \cup {m}
  BY <1>1, <1>2 DEF TracksInv
<1>4. Connects(troots, matches \ unjoined)'
  <2>1. troots' = AfterUnion(troots, m[2], m[1])
    BY <1>1, TracksUnionFind
  <2>2. Connects(AfterUnion(troots, m[2], m[1]), (matches \ unjoined) \cup {m})
    <3>1. {m[2], m[1]} = {m[1], m[2]}
      OBVIOUS
    <3> QED BY <3>1, UnionConnects DEF TracksInv
  <2> QED BY <1>3, <2>1, <2>2
<1>5. Unserved' = Unserved /\ TurnsDone' = TurnsDone
  BY <1>2 DEF Unserved, TurnsDone
<1> QED BY <1>1, <1>2, <1>4, <1>5 DEF TracksInv

LEMMA TracksCollect == ASSUME Tracks!TracksAssumption, TracksInv, Tracks!Collect PROVE TracksInv'
<1>1. /\ matches' = matches /\ unjoined' = unjoined /\ unjoined = {} /\ turn' = turn
      /\ counts' = counts /\ images_left' = images_left /\ added' = added
      /\ gstage' = "select" /\ gstage = "join" /\ candidates = <<>> /\ turn = 1
  BY DEF Tracks!Collect, TracksInv
<1>2. Connects(troots, matches)
  BY <1>1 DEF TracksInv
<1>3. Connects(troots, matches)'
  <2>1. troots' = Compressed(troots)
    BY TracksUnionFind DEF Tracks!Collect
  <2> QED BY <1>1, <1>2, <2>1, CompressConnects
<1>4. /\ Cardinality(ValidTracks) \in Nat
      /\ {t \in Tracks!SetsOf(Tracks!Compressed(troots)) : Tracks!Valid(t)} = ValidTracks
  BY <1>2, ValidTracksApart, TracksUnionFind DEF ValidTracks, TracksInv
<1>5. Ranked(candidates')
  <2>1. PICK order \in Tracks!SetToSeqs(ValidTracks) :
            /\ \A a, b \in DOMAIN order : a < b => Cardinality(order[a]) >= Cardinality(order[b])
            /\ candidates' = order
    BY <1>4, TracksFinite DEF Tracks!Collect
  <2>2. Lists(order, ValidTracks)
    BY <1>4, TracksFinite DEF Tracks!SetToSeqs, Lists
  <2> QED BY <2>1, <2>2 DEF Ranked
<1>6. ValidTracks' = ValidTracks /\ Unserved' = Unserved
  BY <1>1 DEF ValidTracks, Unserved
<1>7. Ranked(candidates)'
  BY <1>5, <1>6 DEF Ranked
<1>8. turn' \in 1 .. Len(candidates') + 1
  <2>1. Len(candidates') \in Nat
    BY <1>4, <1>5, RankedLength
  <2> QED BY <1>1, <2>1
<1>9. added' = {} /\ TurnsDone' /\ (matches \ unjoined)' = matches'
  <2>1. 1 .. turn - 1 = {} /\ 1 .. turn' - 1 = {}
    BY <1>1
  <2> QED BY <1>1, <2>1 DEF TracksInv, TurnsDone
<1> QED BY <1>1, <1>3, <1>6, <1>7, <1>8, <1>9 DEF TracksInv

(* What a track that is added shows of the images comes on top.               *)
LEMMA ShownMore ==
    ASSUME NEW T, IsFiniteSet(T), \A s \in T : IsFiniteSet(s),
           NEW t, IsFiniteSet(t), \A s \in T : s \cap t = {}, NEW i
    PROVE  /\ Cardinality(ShownBy(T \cup {t}, i))
                  = Cardinality(ShownBy(T, i)) + Tracks!Seen(t, i)
           /\ Cardinality(ShownBy(T, i)) \in Nat /\ Tracks!Seen(t, i) \in Nat
           /\ i \notin Tracks!Views(t) => Tracks!Seen(t, i) = 0
<1> DEFINE A == ShownBy(T, i)
           B == {o \in t : o[1] = i}
<1>1. ShownBy(T \cup {t}, i) = A \cup B /\ A \cap B = {}
  BY DEF ShownBy
<1>2. IsFiniteSet(A) /\ IsFiniteSet(B)
  <2>1. IsFiniteSet(UNION T)
    BY FS_UNION
  <2>2. A \in SUBSET UNION T /\ B \in SUBSET t
    BY DEF ShownBy
  <2> HIDE DEF A, B
  <2> QED BY <2>1, <2>2, FS_Subset
<1>3. Tracks!Seen(t, i) = Cardinality(B)
  BY TracksFinite DEF Tracks!Seen
<1>4. i \notin Tracks!Views(t) => B = {}
  BY DEF Tracks!Views
<1> HIDE DEF A, B
<1>5. Cardinality(A) \in Nat /\ Cardinality(B) \in Nat /\ Cardinality({}) = 0
  BY <1>2, FS_CardinalityType, FS_EmptySet
<1>6. Cardinality(A \cup B) = Cardinality(A) + Cardinality(B)
  <2>1. Cardinality(A \cup B) = Cardinality(A) + Cardinality(B) - Cardinality(A \cap B)
    BY <1>2, FS_Union
  <2>2. Cardinality(A \cap B) = 0
    BY <1>1, <1>5
  <2> QED BY <1>5, <2>1, <2>2
<1> QED BY <1>1, <1>3, <1>4, <1>5, <1>6 DEF A

(* The tracks added are valid ones, whose turn is over. *)
LEMMA AddedTracks ==
    ASSUME Tracks!TracksAssumption, TracksInv, gstage # "join"
    PROVE  /\ turn <= Len(candidates) => candidates[turn] \notin added
           /\ added \subseteq ValidTracks
           /\ IsFiniteSet(added) /\ Cardinality(added) \in Nat
<1>1. /\ Connects(troots, matches) /\ Ranked(candidates) /\ matches \in MatchSets
      /\ added \subseteq {candidates[k] : k \in 1 .. turn - 1}
      /\ turn \in 1 .. Len(candidates) + 1
  <2>1. matches \ unjoined = matches
    BY DEF TracksInv
  <2> QED BY <2>1 DEF TracksInv
<1>2. IsFiniteSet(ValidTracks) /\ Cardinality(ValidTracks) \in Nat
  BY <1>1, ValidTracksApart
<1>3. /\ Len(candidates) \in Nat
      /\ \A k \in 1 .. Len(candidates) : candidates[k] \in ValidTracks
      /\ \A j, k \in 1 .. Len(candidates) : candidates[j] = candidates[k] => j = k
  BY <1>1, <1>2, RankedLength
<1>4. ASSUME NEW s \in added
      PROVE  s \in ValidTracks /\ (turn <= Len(candidates) => s # candidates[turn])
  <2>1. PICK k \in 1 .. turn - 1 : s = candidates[k]
    BY <1>1
  <2>2. k \in 1 .. Len(candidates) /\ k # turn
    BY <1>1, <1>3
  <2>3. turn <= Len(candidates) => turn \in 1 .. Len(candidates)
    BY <1>1, <1>3
  <2> QED BY <1>3, <2>1, <2>2, <2>3
<1>5. IsFiniteSet(added) /\ Cardinality(added) \in Nat
  BY <1>2, <1>4, FS_Subset, FS_CardinalityType
<1> QED BY <1>1, <1>3, <1>4, <1>5

LEMMA TracksSelect == ASSUME Tracks!TracksAssumption, TracksInv, Tracks!Select PROVE TracksInv'
<1> DEFINE t == candidates[turn]
           wanted == \E i \in Tracks!Views(t) : counts[i] <= Required
           fulfilled == {i \in Tracks!Views(t) :
                             counts[i] <= Required /\ counts[i] + Tracks!Seen(t, i) > Required}
           more == [i \in Posed |-> counts[i] + IF wanted THEN Tracks!Seen(t, i) ELSE 0]
<1>1. /\ matches' = matches /\ unjoined' = unjoined /\ troots' = troots
      /\ candidates' = candidates /\ turn' = turn + 1
      /\ gstage = "select" /\ turn <= Len(candidates) /\ Cardinality(added) < MaxTracks
      /\ added' = IF wanted THEN added \cup {t} ELSE added
      /\ counts' = more
      /\ images_left' = IF wanted THEN images_left - Cardinality(fulfilled) ELSE images_left
      /\ gstage' = IF wanted /\ images_left' = 0 THEN "done" ELSE gstage
  BY TracksFinite DEF Tracks!Select
<1>2. /\ Connects(troots, matches) /\ unjoined = {} /\ Ranked(candidates) /\ matches \in MatchSets
      /\ images_left = Cardinality(Unserved) /\ turn \in 1 .. Len(candidates) + 1
      /\ counts = [i \in Posed |-> Cardinality(ShownBy(added, i))]
      /\ added \subseteq {candidates[k] : k \in 1 .. turn - 1} /\ TurnsDone
      /\ Cardinality(added) <= MaxTracks
  <2>1. gstage # "join" /\ unjoined = {} /\ matches \ unjoined = matches
    BY <1>1 DEF TracksInv
  <2> QED BY <2>1 DEF TracksInv
<1>3. /\ IsFiniteSet(ValidTracks) /\ Cardinality(ValidTracks) \in Nat
      /\ \A s \in ValidTracks : IsFiniteSet(s) /\ Tracks!Views(s) \subseteq Posed
      /\ \A s, u \in ValidTracks : s \cap u # {} => s = u
  BY <1>2, ValidTracksApart
<1>4. /\ Len(candidates) \in Nat /\ turn \in 1 .. Len(candidates)
      /\ \A k \in 1 .. Len(candidates) : candidates[k] \in ValidTracks
      /\ \A j, k \in 1 .. Len(candidates) : candidates[j] = candidates[k] => j = k
  BY <1>1, <1>2, <1>3, RankedLength
<1>5. t \in ValidTracks /\ added \subseteq ValidTracks /\ t \notin added
  BY <1>1, <1>4, AddedTracks
<1>6. /\ IsFiniteSet(Posed) /\ Required \in Nat /\ MaxTracks \in Nat
      /\ IsFiniteSet(added) /\ Cardinality(added) \in Nat
  BY <1>1, <1>2, MatchesFinite, AddedTracks
<1>7. \A s \in added : s \cap t = {}
  BY <1>3, <1>5
<1>8. ASSUME NEW i
      PROVE  /\ Cardinality(ShownBy(added \cup {t}, i))
                    = Cardinality(ShownBy(added, i)) + Tracks!Seen(t, i)
             /\ Cardinality(ShownBy(added, i)) \in Nat /\ Tracks!Seen(t, i) \in Nat
             /\ i \notin Tracks!Views(t) => Tracks!Seen(t, i) = 0
  <2> HIDE DEF t
  <2> QED BY <1>3, <1>5, <1>6, <1>7, ShownMore
<1>9. \A i \in Posed : counts[i] = Cardinality(ShownBy(added, i)) /\ counts[i] \in Nat
  BY <1>2, <1>8
<1>10. Tracks!Views(t) \subseteq Posed
  BY <1>3, <1>5
<1> HIDE DEF t, wanted, fulfilled
<1>11. counts' = [i \in Posed |-> Cardinality(ShownBy(added', i))]
  <2>1. CASE wanted
    <3>1. \A i \in Posed : more[i] = Cardinality(ShownBy(added \cup {t}, i))
      BY <1>8, <1>9, <2>1
    <3> QED BY <1>1, <2>1, <3>1
  <2>2. CASE ~wanted
    <3>1. \A i \in Posed : more[i] = Cardinality(ShownBy(added, i))
      BY <1>9, <2>2
    <3> QED BY <1>1, <2>2, <3>1
  <2> QED BY <2>1, <2>2
<1>12. \A i \in Posed : counts'[i] \in Nat /\ counts'[i] >= counts[i]
  BY <1>1, <1>8, <1>9
<1>13. images_left' = Cardinality(Unserved') /\ (~wanted => Unserved' = Unserved)
  <2>1. CASE ~wanted
    <3>1. \A i \in Posed : counts'[i] = counts[i]
      BY <1>1, <1>9, <2>1
    <3>2. Unserved' = Unserved
      BY <3>1 DEF Unserved
    <3> QED BY <1>1, <1>2, <2>1, <3>2
  <2>2. CASE wanted
    <3>1. \A i \in Posed : counts'[i] = counts[i] + Tracks!Seen(t, i)
      BY <1>1, <2>2
    <3>2. ASSUME NEW i \in Posed
          PROVE  counts'[i] <= Required <=> counts[i] <= Required /\ i \notin fulfilled
      <4>1. counts[i] \in Nat /\ Tracks!Seen(t, i) \in Nat
            /\ (i \notin Tracks!Views(t) => Tracks!Seen(t, i) = 0)
            /\ counts'[i] = counts[i] + Tracks!Seen(t, i)
        BY <1>8, <1>9, <3>1
      <4>2. CASE i \in Tracks!Views(t)
        BY <1>6, <4>1, <4>2 DEF fulfilled
      <4>3. CASE i \notin Tracks!Views(t)
        BY <1>6, <4>1, <4>3 DEF fulfilled
      <4> QED BY <4>2, <4>3
    <3>3. Unserved' = Unserved \ fulfilled
      BY <3>2 DEF Unserved
    <3>4. Unserved \cap fulfilled = fulfilled
      BY <1>10 DEF Unserved, fulfilled
    <3>5. IsFiniteSet(Unserved)
      BY <1>6, FS_Subset DEF Unserved
    <3>6. Cardinality(Unserved \ fulfilled) = Cardinality(Unserved) - Cardinality(fulfilled)
      BY <3>4, <3>5, FS_Difference
    <3> QED BY <1>1, <1>2, <2>2, <3>3, <3>6
  <2> QED BY <2>1, <2>2
<1>14. added' \subseteq {candidates[k] : k \in 1 .. turn' - 1}
  <2>1. 1 .. turn' - 1 = (1 .. turn - 1) \cup {turn}
    BY <1>1, <1>4
  <2> QED BY <1>1, <1>2, <2>1 DEF t
<1>15. Cardinality(added') <= MaxTracks
  <2>1. Cardinality(added \cup {t}) = Cardinality(added) + 1
    BY <1>5, <1>6, FS_AddElement
  <2> QED BY <1>1, <1>6, <2>1
<1>16. TurnsDone'
  <2> SUFFICES ASSUME NEW k \in 1 .. turn' - 1
               PROVE  \/ candidates[k] \in added'
                      \/ \A i \in Tracks!Views(candidates[k]) : counts'[i] > Required
    BY <1>1 DEF TurnsDone, Tracks!Views
  <2>1. CASE k # turn
    <3>1. k \in 1 .. turn - 1 /\ k \in 1 .. Len(candidates)
      BY <1>1, <1>4, <2>1
    <3>2. candidates[k] \in added \/ \A i \in Tracks!Views(candidates[k]) : counts[i] > Required
      BY <1>2, <3>1 DEF TurnsDone
    <3>3. Tracks!Views(candidates[k]) \subseteq Posed
      BY <1>3, <1>4, <3>1
    <3>4. CASE candidates[k] \in added
      BY <1>1, <3>4
    <3>5. CASE \A i \in Tracks!Views(candidates[k]) : counts[i] > Required
      BY <1>6, <1>9, <1>12, <3>3, <3>5
    <3> QED BY <3>2, <3>4, <3>5
  <2>2. CASE k = turn
    <3>1. CASE wanted
      BY <1>1, <2>2, <3>1 DEF t
    <3>2. CASE ~wanted
      <4>1. \A i \in Tracks!Views(t) : counts'[i] > Required
        BY <1>6, <1>9, <1>10, <1>12, <3>2 DEF wanted
      <4> QED BY <2>2, <4>1 DEF t
    <3> QED BY <3>1, <3>2
  <2> QED BY <2>1, <2>2
<1>17. gstage' = "done" => images_left' = 0
  BY <1>1
<1>18. ValidTracks' = ValidTracks
  BY <1>1 DEF ValidTracks
<1>19. Ranked(candidates)'
  BY <1>1, <1>2, <1>18 DEF Ranked
<1>20. turn' \in 1 .. Len(candidates') + 1 /\ gstage' \in {"select", "done"}
  BY <1>1, <1>4
<1>21. Connects(troots, matches \ unjoined)' /\ matches' \in MatchSets /\ unjoined' = {}
  BY <1>1, <1>2 DEF TracksInv
<1> HIDE DEF more
<1>22. (gstage = "join" => candidates = <<>>)' /\ (gstage # "join" => unjoined = {} /\ Ranked(candidates))'
  BY <1>19, <1>20, <1>21
<1>23. (gstage \in {"join", "select", "done"})' /\ (unjoined \subseteq matches)'
  BY <1>20, <1>21
<1>24. (images_left = Cardinality(Unserved))' /\ (turn \in 1 .. Len(candidates) + 1)'
  BY <1>13, <1>20
<1>25. (counts = [i \in Posed |-> Cardinality(ShownBy(added, i))])'
  BY <1>11
<1>26. (added \subseteq {candidates[k] : k \in 1 .. turn - 1})'
  BY <1>1, <1>14
<1> QED BY <1>15, <1>16, <1>17, <1>21, <1>22, <1>23, <1>24, <1>25, <1>26 DEF TracksInv

LEMMA TracksFinish == ASSUME Tracks!TracksAssumption, TracksInv, Tracks!Finish PROVE TracksInv'
<1>1. /\ matches' = matches /\ unjoined' = unjoined /\ troots' = troots
      /\ candidates' = candidates /\ turn' = turn /\ counts' = counts
      /\ images_left' = images_left /\ added' = added /\ gstage' = "done"
      /\ gstage = "select" /\ (turn > Len(candidates) \/ Cardinality(added) >= MaxTracks)
  BY TracksFinite DEF Tracks!Finish
<1>2. ValidTracks' = ValidTracks /\ Unserved' = Unserved /\ TurnsDone' = TurnsDone
  BY <1>1 DEF ValidTracks, Unserved, TurnsDone
<1>3. Ranked(candidates)'
  BY <1>1, <1>2 DEF Ranked, TracksInv
<1>4. gstage' = "done" => turn' > Len(candidates') \/ Cardinality(added') = MaxTracks
  <2>1. Cardinality(added) \in Nat /\ MaxTracks \in Nat /\ Cardinality(added) <= MaxTracks
    BY <1>1, AddedTracks, MatchesFinite DEF TracksInv
  <2> QED BY <1>1, <2>1
<1> QED BY <1>1, <1>2, <1>3, <1>4 DEF TracksInv

LEMMA TracksInvariance == ASSUME Tracks!TracksAssumption PROVE Tracks!Spec => []TracksInv
<1>1. ASSUME TracksInv, [Tracks!Next]_(Tracks!vars) PROVE TracksInv'
  <2>1. CASE Tracks!Join
    BY <1>1, <2>1, TracksJoin
  <2>2. CASE Tracks!Collect
    BY <1>1, <2>2, TracksCollect
  <2>3. CASE Tracks!Select
    BY <1>1, <2>3, TracksSelect
  <2>4. CASE Tracks!Finish
    BY <1>1, <2>4, TracksFinish
  <2>5. CASE UNCHANGED Tracks!vars
    <3>1. /\ matches' = matches /\ unjoined' = unjoined /\ troots' = troots
          /\ candidates' = candidates /\ turn' = turn /\ counts' = counts
          /\ images_left' = images_left /\ added' = added /\ gstage' = gstage
      BY <2>5 DEF Tracks!vars
    <3>2. ValidTracks' = ValidTracks /\ Unserved' = Unserved /\ (TurnsDone' <=> TurnsDone)
      BY <3>1 DEF ValidTracks, Unserved, TurnsDone
    <3>3. Ranked(candidates)' <=> Ranked(candidates)
      BY <3>1, <3>2 DEF Ranked
    <3> QED BY <1>1, <3>1, <3>2, <3>3 DEF TracksInv
  <2> QED BY <1>1, <2>1, <2>2, <2>3, <2>4, <2>5 DEF Tracks!Next
<1>2. Tracks!Init => TracksInv
  BY TracksBegin
<1> QED BY <1>1, <1>2, PTL DEF Tracks!Spec

LEMMA TracksServed ==
    ASSUME Tracks!TracksAssumption, TracksInv
    PROVE  Tracks!ViewsServed
<1> DEFINE Served(i) == Tracks!Cardinality({o \in UNION added : o[1] = i}) > Required
<1>1. /\ IsFiniteSet(matches) /\ IsFiniteSet(Posed) /\ Required \in Nat /\ MaxTracks \in Nat
  BY MatchesFinite DEF TracksInv
<1>2. \A i \in Posed : counts[i] = Cardinality({o \in UNION added : o[1] = i})
  BY DEF TracksInv, ShownBy
<1>3. \A i \in Posed : Served(i) <=> ~(counts[i] <= Required)
  <2> SUFFICES ASSUME NEW i \in Posed PROVE Served(i) <=> ~(counts[i] <= Required)
    OBVIOUS
  <2>1. CASE gstage = "join"
    <3>1. {o \in UNION added : o[1] = i} = {}
      <4>1. 1 .. turn - 1 = {}
        BY <2>1 DEF TracksInv
      <4> QED BY <4>1 DEF TracksInv
    <3>2. counts[i] = 0
      BY <1>2, <3>1, FS_EmptySet
    <3> QED BY <1>1, <1>2, <3>2, TracksFinite
  <2>2. CASE gstage # "join"
    <3>1. IsFiniteSet(UNION added)
      <4>1. IsFiniteSet(added) /\ added \subseteq ValidTracks
        BY <2>2, AddedTracks
      <4>2. \A t \in ValidTracks : IsFiniteSet(t)
        <5>1. Connects(troots, matches) /\ matches \in MatchSets
          <6>1. matches \ unjoined = matches
            BY <2>2 DEF TracksInv
          <6> QED BY <6>1 DEF TracksInv
        <5> QED BY <5>1, ValidTracksApart
      <4> QED BY <4>1, <4>2, FS_UNION
    <3>2. counts[i] \in Nat
      <4>1. IsFiniteSet({o \in UNION added : o[1] = i})
        <5> DEFINE Z == {o \in UNION added : o[1] = i}
        <5>1. Z \in SUBSET UNION added
          OBVIOUS
        <5> HIDE DEF Z
        <5>2. IsFiniteSet(Z)
          BY <3>1, <5>1, FS_Subset
        <5> QED BY <5>2 DEF Z
      <4>2. Cardinality({o \in UNION added : o[1] = i}) \in Nat
        BY <4>1, FS_CardinalityType
      <4> QED BY <1>2, <4>2
    <3> QED BY <1>1, <1>2, <3>2, TracksFinite
  <2> QED BY <2>1, <2>2
<1>4. images_left = Cardinality({i \in Posed : ~Served(i)})
  <2>1. Unserved = {i \in Posed : ~Served(i)}
    BY <1>3 DEF Unserved
  <2> QED BY <2>1 DEF TracksInv
<1>5. ValidTracks = {t \in Tracks!Classes(matches) : Tracks!Valid(t)}
  BY TracksUnionFind DEF ValidTracks
<1>6. CASE gstage = "join"
  <2>1. added = {}
    <3>1. 1 .. turn - 1 = {}
      BY <1>6 DEF TracksInv
    <3> QED BY <3>1 DEF TracksInv
  <2> QED BY <1>4, <1>6, <2>1, TracksFinite DEF Tracks!ViewsServed
<1>7. CASE gstage # "join"
  <2>1. /\ Connects(troots, matches) /\ Ranked(candidates) /\ matches \in MatchSets /\ TurnsDone
        /\ added \subseteq {candidates[k] : k \in 1 .. turn - 1}
        /\ turn \in 1 .. Len(candidates) + 1
    <3>1. matches \ unjoined = matches
      BY <1>7 DEF TracksInv
    <3> QED BY <1>7, <3>1 DEF TracksInv
  <2>2. /\ IsFiniteSet(ValidTracks) /\ Cardinality(ValidTracks) \in Nat
        /\ \A t \in ValidTracks : Tracks!Views(t) \subseteq Posed
        /\ \A s, t \in ValidTracks : s \cap t # {} => s = t
    BY <2>1, ValidTracksApart
  <2>3. Len(candidates) = Cardinality(ValidTracks) /\ DOMAIN candidates = 1 .. Len(candidates)
    BY <2>1, <2>2, RankedLength
  <2>4. added \subseteq ValidTracks /\ \A p, q \in added : p # q => p \cap q = {}
    BY <1>7, <2>2, AddedTracks
  <2>5. ASSUME NEW t \in ValidTracks \ added
        PROVE  \E k \in 1 .. Len(candidates) :
                  t = candidates[k] /\ (k < turn => \A i \in Tracks!Views(t) : Served(i))
    <3>1. PICK k \in 1 .. Len(candidates) : candidates[k] = t
      BY <2>1, <2>2, <2>3, AllNumbered DEF Ranked
    <3>2. ASSUME k < turn PROVE \A i \in Tracks!Views(t) : Served(i)
      <4>1. k \in 1 .. turn - 1
        BY <2>1, <2>2, <2>3, <3>2
      <4>2. \A i \in Tracks!Views(t) : counts[i] > Required
        BY <2>1, <2>5, <3>1, <4>1 DEF TurnsDone
      <4>3. \A i \in Tracks!Views(t) : i \in Posed
        BY <2>2
      <4> HIDE DEF Served
      <4>4. \A i \in Posed : Served(i) \/ counts[i] <= Required
        BY <1>3
      <4>5. ASSUME NEW i \in Tracks!Views(t) PROVE Served(i)
        <5>1. Cardinality({o \in UNION added : o[1] = i}) > Required
          BY <1>2, <4>2, <4>3
        <5> QED BY <5>1, TracksFinite DEF Served
      <4> QED BY <4>5
    <3> QED BY <3>1, <3>2
  <2>6. ASSUME gstage = "done"
        PROVE  \/ \A t \in ValidTracks \ added : \A i \in Tracks!Views(t) : Served(i)
               \/ /\ Cardinality(added) = MaxTracks
                  /\ \A t \in ValidTracks \ added :
                        (\A p \in added : Cardinality(t) <= Cardinality(p))
                          \/ \A i \in Tracks!Views(t) : Served(i)
    <3> HIDE DEF Served
    <3>1. turn > Len(candidates) \/ Cardinality(added) = MaxTracks \/ images_left = 0
      BY <2>6 DEF TracksInv
    <3>2. CASE turn > Len(candidates)
      <4>1. \A k \in 1 .. Len(candidates) : k < turn
        BY <2>1, <2>2, <2>3, <3>2
      <4> QED BY <2>5, <4>1
    <3>3. CASE images_left = 0
      <4>1. {i \in Posed : ~Served(i)} = {}
        <5>1. IsFiniteSet({i \in Posed : ~Served(i)})
          BY <1>1, FS_Subset
        <5> QED BY <1>4, <3>3, <5>1, FS_EmptySet
      <4> QED BY <2>2, <4>1
    <3>4. CASE Cardinality(added) = MaxTracks
      <4>1. ASSUME NEW t \in ValidTracks \ added
            PROVE  (\A p \in added : Cardinality(t) <= Cardinality(p))
                      \/ \A i \in Tracks!Views(t) : Served(i)
        <5>1. PICK k \in 1 .. Len(candidates) :
                  t = candidates[k] /\ (k < turn => \A i \in Tracks!Views(t) : Served(i))
          BY <2>5
        <5>2. CASE k < turn
          BY <5>1, <5>2
        <5>3. CASE ~(k < turn)
          <6>1. ASSUME NEW p \in added PROVE Cardinality(t) <= Cardinality(p)
            <7>1. PICK j \in 1 .. turn - 1 : p = candidates[j]
              BY <2>1
            <7>2. j \in 1 .. Len(candidates) /\ j < k
              BY <2>1, <2>2, <2>3, <5>3
            <7>3. Cardinality(candidates[j]) >= Cardinality(candidates[k])
              BY <2>1, <2>3, <7>2 DEF Ranked
            <7>4. Cardinality(t) \in Nat /\ Cardinality(p) \in Nat
              BY <2>1, <2>4, ValidTracksApart, FS_CardinalityType
            <7> QED BY <5>1, <7>1, <7>3, <7>4
          <6> QED BY <6>1
        <5> QED BY <5>2, <5>3
      <4> QED BY <3>4, <4>1
    <3> QED BY <3>1, <3>2, <3>3, <3>4
  <2>7. gstage = "done" =>
           \/ \A t \in ValidTracks \ added : \A i \in Tracks!Views(t) : Served(i)
           \/ /\ Tracks!Cardinality(added) = MaxTracks
              /\ \A t \in ValidTracks \ added :
                    (\A p \in added : Tracks!Cardinality(t) <= Tracks!Cardinality(p))
                      \/ \A i \in Tracks!Views(t) : Served(i)
    <3> HIDE DEF Served
    <3> QED BY <2>6, TracksFinite
  <2>8. images_left = Tracks!Cardinality({i \in Posed : ~Served(i)})
    <3> HIDE DEF Served
    <3> QED BY <1>4, TracksFinite
  <2> QED BY <1>5, <2>4, <2>7, <2>8 DEF Tracks!ViewsServed
<1> QED BY <1>6, <1>7

(* In whatever order the matches are joined, two observations are of one      *)
(* track exactly when matches joined so far connect them; and the tracks that *)
(* are added are as many as the images need, the longest first, with the      *)
(* images that need more counted exactly (sfm/global_mapper.cc).              *)
THEOREM TracksServe ==
    ASSUME Tracks!TracksAssumption
    PROVE  Tracks!Spec => [](Tracks!TypeOK /\ Tracks!RootsAreTracks /\ Tracks!ViewsServed)
<1>1. ASSUME TracksInv
      PROVE  Tracks!TypeOK /\ Tracks!RootsAreTracks /\ Tracks!ViewsServed
  <2>1. /\ IsFiniteSet(matches \ unjoined) /\ IsFiniteSet(Posed)
        /\ NodesOf(matches \ unjoined) \subseteq NodesOf(matches)
        /\ \A o \in NodesOf(matches) : o[1] \in Posed
    <3>1. matches \ unjoined \in SUBSET matches
      OBVIOUS
    <3>2. NodesOf(matches \ unjoined) \subseteq NodesOf(matches)
      BY DEF NodesOf
    <3> QED BY <1>1, <3>1, <3>2, MatchesFinite DEF TracksInv
  <2>2. Tracks!RootsAreTracks
    BY <1>1, <2>1, ConnectsJoins, TracksUnionFind DEF TracksInv, Tracks!RootsAreTracks
  <2>3. \A o \in DOMAIN troots : troots[o] \in DOMAIN troots /\ o[1] \in Posed
    BY <1>1, <2>1 DEF TracksInv, Connects, Forest
  <2>4. images_left \in 0 .. Cardinality(Posed)
    <3>1. IsFiniteSet(Unserved) /\ Cardinality(Unserved) <= Cardinality(Posed)
      BY <2>1, FS_Subset DEF Unserved
    <3> QED BY <1>1, <2>1, <3>1, FS_CardinalityType DEF TracksInv
  <2>5. Tracks!TypeOK
    BY <1>1, <2>3, <2>4, TracksFinite DEF TracksInv, Tracks!TypeOK
  <2> QED BY <1>1, <2>2, <2>5, TracksServed
<1> QED BY <1>1, TracksInvariance, PTL

(* Both at once, whatever the steps of the two modules come between.          *)
THEOREM ConnectedAlways ==
    ASSUME Parts!ScenesAssumption, Tracks!TracksAssumption
    PROVE  Parts!Spec /\ Tracks!Spec => []ConnectedOnes
<1>1. Parts!RootsAreComponents /\ Parts!ModelsAreComponents
      /\ Tracks!RootsAreTracks /\ Tracks!ViewsServed => ConnectedOnes
  BY DEF ConnectedOnes
<1> QED BY <1>1, PartsAreConnected, TracksServe, PTL
=================================================================================

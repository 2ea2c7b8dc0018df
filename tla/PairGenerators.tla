---------------------------- MODULE PairGenerators ----------------------------
(***************************************************************************)
(* The generators of image pairs to match (controllers/pairing.cc), called  *)
(* batch by batch until they have finished: blocks of all pairs, neighbours *)
(* in the order of the names (with the other images of their frames),       *)
(* neighbours in space, the transitive closure of the pairs that match, and *)
(* blocks of a given list.  Images are numbered in the generator's order.   *)
(*                                                                         *)
(* Sequential images are named camera by camera, as in                     *)
(* SequentialPairingOptions (pairing.h), so that image f of each camera is  *)
(* in frame f.  Spatial ones are those that have a position, which is a     *)
(* place on a line.                                                        *)
(***************************************************************************)
EXTENDS Naturals, Sequences, FiniteSets, FiniteSetsExt, Functions

CONSTANTS
    Options,                \* the generators and their options
    MaxResets               \* bound: calls of Reset()

(* What the constants must satisfy. *)
OptionsAssumption ==
    /\ MaxResets \in Nat
    /\ \A o \in Options :
        /\ o.kind \in {"exhaustive", "sequential", "spatial", "transitive", "imported"}
        /\ o.n \in Nat
        /\ o.kind = "exhaustive" => o.size \in Nat \ {0, 1}
        /\ o.kind \in {"imported", "transitive"} => o.size \in Nat \ {0}
        /\ o.kind = "imported" => o.list \in Seq((0 .. o.n - 1) \X (0 .. o.n - 1))
        /\ o.kind = "sequential" =>
              /\ o.overlap \in Nat \ {0} /\ o.quadratic \in BOOLEAN /\ o.expand \in BOOLEAN
              /\ o.frames \in Nat \ {0} /\ o.n % o.frames = 0
        /\ o.kind = "spatial" =>
              /\ o.max \in Nat \ {0} /\ o.min \in 0 .. o.max /\ o.distance \in Nat
              /\ o.distance > 0 \/ o.min > 0
              /\ o.position \in [1 .. o.n -> Nat]
        /\ o.kind = "transitive" =>
              o.iterations \in Nat \ {0} /\ o.matched \subseteq SUBSET (0 .. o.n - 1)

VARIABLES
    options,
    idx, idx2,              \* start_idx1_ or image_idx_, current_idx_, ...; start_idx2_
    pending, tried,         \* image_pairs_, image_pair_ids_ (transitive)
    iteration,
    inliers,                \* pairs with inliers in the database
    out,                    \* how often each pair was returned since the last Reset()
    resets

vars == <<options, idx, idx2, pending, tried, iteration, inliers, out, resets>>

Images == 0 .. options.n - 1

TypeOK ==
    /\ options \in Options
    /\ idx \in Nat /\ idx2 \in Nat /\ iteration \in Nat
    /\ pending \subseteq tried /\ tried \subseteq SUBSET Images
    /\ inliers \subseteq SUBSET Images
    /\ out \in [Images \X Images -> Nat]
    /\ options.kind # "imported" => \A i \in Images : out[<<i, i>>] = 0
    /\ resets \in 0 .. MaxResets

Init ==
    /\ options \in Options
    /\ idx = 0 /\ idx2 = 0 /\ pending = {} /\ tried = {} /\ iteration = 0
    /\ inliers = (IF options.kind = "transitive" THEN options.matched ELSE {})
    /\ out = [p \in Images \X Images |-> 0] /\ resets = 0

-----------------------------------------------------------------------------
Closed_LastBegun == iteration >= options.iterations
Closed == iteration >= options.iterations /\ pending = {}

HasFinished ==
    CASE options.kind = "exhaustive" -> idx >= options.n
      [] options.kind = "sequential" -> idx >= options.n
      [] options.kind = "spatial" -> idx >= options.n
      [] options.kind = "imported" -> idx >= Len(options.list)
      [] options.kind = "transitive" -> Closed

(* The batch has pair p that often. *)
Returns(times(_)) == out' = [p \in DOMAIN out |-> out[p] + times(p)]
ReturnsSet(S) == Returns(LAMBDA p : IF p \in S THEN 1 ELSE 0)

-----------------------------------------------------------------------------
(* Exhaustive: one block of rows times one of columns. *)
Chosen_Below(i, j) == i < j /\ i % options.size < j % options.size
(* "Avoid duplicate pairs": of the blocks (a, b) and (b, a) each has one of   *)
(* a pair, by the places in the blocks.                                      *)
Chosen(i, j) ==
    \/ i > j /\ i % options.size <= j % options.size
    \/ i < j /\ i % options.size < j % options.size

Block(start) == start .. Min({options.n, start + options.size}) - 1

NextExhaustive ==
    /\ options.kind = "exhaustive" /\ ~HasFinished
    /\ ReturnsSet({p \in Block(idx) \X Block(idx2) : Chosen(p[1], p[2])})
    /\ IF idx2 + options.size >= options.n
       THEN idx2' = 0 /\ idx' = idx + options.size
       ELSE idx2' = idx2 + options.size /\ UNCHANGED idx
    /\ UNCHANGED <<options, pending, tried, iteration, inliers, resets>>

-----------------------------------------------------------------------------
(* Sequential: the images of the own frame, and overlap neighbours, each     *)
(* with the other images of its frame.                                       *)
Frame(i) == i % options.frames
FrameMates(i) == {j \in Images : Frame(j) = Frame(i)}

Offsets ==
    {d \in 1 .. options.n :
        \E k \in 0 .. options.overlap - 1 : d = IF options.quadratic THEN 2 ^ k ELSE k + 1}
Neighbours(i) == {i + d : d \in Offsets} \cap Images

Expansion_OwnCamera(i, j) == {}
Expansion(i, j) == IF options.expand THEN FrameMates(j) \ {i, j} ELSE {}

NextSequential ==
    /\ options.kind = "sequential" /\ ~HasFinished
    /\ Returns(LAMBDA p :
          IF p[1] # idx THEN 0
          ELSE Cardinality(Expansion(idx, idx) \cap {p[2]})
               + Cardinality({j \in Neighbours(idx) : p[2] \in {j} \cup Expansion(idx, j)}))
    /\ idx' = idx + 1
    /\ UNCHANGED <<options, idx2, pending, tried, iteration, inliers, resets>>

-----------------------------------------------------------------------------
(* Spatial: a row of the index has the knn_ nearest images in the order of   *)
(* their distance, the image itself among those at distance 0 if it is in.   *)
Distance(i, j) ==
    LET a == options.position[i + 1]
        b == options.position[j + 1]
    IN IF a < b THEN b - a ELSE a - b
Knn == Min({options.max + 1, options.n})

Rows(i) ==
    {row \in [0 .. Knn - 1 -> Images] :
        /\ IsInjective(row)
        /\ \A j \in 1 .. Knn - 1 : Distance(i, row[j - 1]) <= Distance(i, row[j])
        /\ \A k \in Images \ Range(row) : Distance(i, row[Knn - 1]) <= Distance(i, k)}

Enough_One(j) == j >= options.min
(* Far neighbours are taken while there are not enough of them. *)
Enough(j) == j > options.min

NextSpatial ==
    /\ options.kind = "spatial" /\ ~HasFinished
    /\ \E row \in Rows(idx) :
          ReturnsSet(
              {<<idx, row[j]>> : j \in
                  {j \in 0 .. Knn - 1 :
                      /\ row[j] # idx
                      /\ Distance(idx, row[j]) <= options.distance \/ ~Enough(j)}})
    /\ idx' = idx + 1
    /\ UNCHANGED <<options, idx2, pending, tried, iteration, inliers, resets>>

-----------------------------------------------------------------------------
(* Transitive: an iteration looks for paths of two pairs with inliers whose  *)
(* ends have not been tried, and returns them in batches.                    *)
Open == {{p[1], p[3]} : p \in
            {p \in Images \X Images \X Images :
                /\ p[1] # p[3] /\ {p[1], p[2]} \in inliers /\ {p[2], p[3]} \in inliers}}

StartIteration ==
    /\ options.kind = "transitive" /\ ~HasFinished /\ pending = {}
    /\ iteration' = iteration + 1
    /\ pending' = Open \ (tried \cup inliers)
    /\ tried' = tried \cup inliers \cup pending'
    /\ UNCHANGED <<options, idx, idx2, inliers, out, resets>>

(* The pairs of the batch are matched before Next() is called again; some    *)
(* have no inliers.                                                          *)
NextTransitive ==
    /\ options.kind = "transitive" /\ pending # {}
    /\ \E batch \in kSubset(Min({options.size, Cardinality(pending)}), pending) :
          /\ ReturnsSet({<<Min(p), Max(p)>> : p \in batch})
          /\ pending' = pending \ batch
          /\ inliers' = inliers \cup (batch \ options.unmatchable)
    /\ UNCHANGED <<options, idx, idx2, tried, iteration, resets>>

-----------------------------------------------------------------------------
(* Imported, and existing pairs: blocks of a list. *)
NextImported ==
    /\ options.kind = "imported" /\ ~HasFinished
    /\ LET end == Min({idx + options.size, Len(options.list)}) IN
          Returns(LAMBDA p : Cardinality({k \in idx + 1 .. end : options.list[k] = p}))
    /\ idx' = idx + options.size
    /\ UNCHANGED <<options, idx2, pending, tried, iteration, inliers, resets>>

ResetColumn_Kept == UNCHANGED idx2
ResetColumn == idx2' = 0

Reset ==
    /\ resets < MaxResets
    /\ idx' = 0 /\ ResetColumn /\ iteration' = 0 /\ pending' = {} /\ tried' = {}
    /\ out' = [p \in DOMAIN out |-> 0] /\ resets' = resets + 1
    /\ UNCHANGED <<options, inliers>>

Next ==
    \/ NextExhaustive \/ NextSequential \/ NextSpatial
    \/ StartIteration \/ NextTransitive \/ NextImported \/ Reset

Spec == Init /\ [][Next]_vars

-----------------------------------------------------------------------------
Times(i, j) == out[<<i, j>>] + out[<<j, i>>]
Once == \A i, j \in Images : i # j => Times(i, j) <= 1

(* Every pair of images is in one block, in one order.                       *)
AllOnce ==
    options.kind = "exhaustive" =>
        Once /\ (HasFinished => \A i, j \in Images : i # j => Times(i, j) = 1)

(* Images of frames that are neighbours, of any two cameras, are paired;     *)
(* without rigs no pair comes twice (the scheme in pairing.h:96-123).        *)
FramesPaired ==
    options.kind = "sequential" =>
        /\ options.expand /\ HasFinished =>
              \A i, j \in Images :
                  /\ i # j
                  /\ Frame(i) = Frame(j) \/ Frame(j) - Frame(i) \in Offsets
                  => Times(i, j) > 0
        /\ ~options.expand => Once

(* "Neighbors include those within max_distance or to satisfy                *)
(* min_num_neighbors" (pairing.h:165-166): no image gets fewer of them, also *)
(* when others are at its very position, and none gets one that is neither.  *)
NearPaired ==
    options.kind = "spatial" =>
        \A i \in Images :
            LET mine == {j \in Images : out[<<i, j>>] > 0} IN
            /\ i < idx => Cardinality(mine) >= Min({options.min, options.n - 1})
            /\ \A j \in mine :
                  \/ Distance(i, j) <= options.distance
                  \/ Cardinality({k \in Images \ {i} : Distance(i, k) < Distance(i, j)})
                        < options.min

(* No pair is returned that had matched or has been tried.                   *)
NoneAgain ==
    options.kind = "transitive" =>
        Once /\ \A i, j \in Images : {i, j} \in options.matched => Times(i, j) = 0

(* Where all can be matched, every iteration doubles the length of the paths *)
(* whose ends are paired.                                                    *)
Closes ==
    LET length[t \in 0 .. options.iterations] == IF t = 0 THEN 1 ELSE 2 * length[t - 1]
    IN length[options.iterations]

Joined(w, l) == \A k \in 1 .. l : {w[k - 1], w[k]} \in options.matched

ClosedUnder ==
    options.kind = "transitive" /\ HasFinished /\ options.unmatchable = {} =>
        \A l \in 1 .. Closes : \A w \in [0 .. l -> Images] :
            Joined(w, l) /\ w[0] # w[l] => {w[0], w[l]} \in inliers

(* Every entry of the list is in one block.                                  *)
ListKept ==
    options.kind = "imported" /\ HasFinished =>
        \A p \in DOMAIN out :
            out[p] = Cardinality({k \in DOMAIN options.list : options.list[k] = p})

PairsComplete == AllOnce /\ FramesPaired /\ NearPaired /\ NoneAgain /\ ClosedUnder /\ ListKept
==============================================================================

--------------------------- MODULE CachedWorkspace ---------------------------
(***************************************************************************)
(* colmap::mvs::CachedWorkspace (mvs/workspace.cc): the bitmap, depth map   *)
(* and normal map of an image are loaded on demand into an object owned by  *)
(* a MemoryConstrainedLRUCache (util/cache.h), which counts the bytes.  A   *)
(* caller gets a plain reference into that object.  The cache and each      *)
(* object have a mutex of their own, and a load happens under the object's. *)
(***************************************************************************)
EXTENDS Naturals, Sequences, FiniteSets, SequencesExt, Functions

CONSTANTS
    Threads, Images,
    Parts,                  \* what Get*() returns: bitmap, depth or normal map
    BytesOf,                \* bytes of each part
    MaxBytes,               \* max_num_bytes_
    Generations             \* bound: tells the objects of an image that are alive apart

(* What the constants must satisfy. *)
BytesAssumption == MaxBytes \in Nat \ {0} /\ BytesOf \in [Parts -> Nat]
GenerationsAssumption ==
    IsFiniteSet(Threads) /\ Cardinality(Generations) >= Cardinality(Threads)

VARIABLES
    lru,        \* elems_list_ and elems_map_: image, object, bytes counted; last used first
    numBytes,   \* num_bytes_
    heap,       \* num_bytes of each object that is alive, and the parts it has
    uses,       \* the image, part and object of the Get*() a thread is in
    ref,        \* the object that an idle thread's last result points into
    gone,       \* the idle threads whose last result was destroyed
    pc

Objects == Images \X Generations

vars == <<lru, numBytes, heap, uses, ref, gone, pc>>

Cached == {lru[i].image : i \in DOMAIN lru}
Place(img) == CHOOSE i \in DOMAIN lru : lru[i].image = img
Entry(img) == lru[Place(img)]
Owned ==
    {lru[i].object : i \in DOMAIN lru}
        \cup {uses[t].object : t \in {t \in Threads : pc[t] # "idle"}}

NoUse == <<>>

TypeOK ==
    /\ lru \in Seq([image : Images, object : Objects, counted : Nat])
    /\ \A i, j \in DOMAIN lru :
          lru[i].image = lru[j].image \/ lru[i].object = lru[j].object => i = j
    /\ numBytes \in Nat
    /\ heap \in [Owned -> [bytes : Nat, parts : SUBSET Parts]]
    /\ uses \in [Threads -> [image : Images, part : Parts, object : Objects] \cup {NoUse}]
    /\ ref \in [Threads -> {{}} \cup {{o} : o \in Objects}]
    /\ gone \subseteq Threads
    /\ pc \in [Threads -> {"idle", "got", "update"}]

Init ==
    /\ lru = <<>> /\ numBytes = 0 /\ heap = <<>>
    /\ uses = [t \in Threads |-> NoUse] /\ ref = [t \in Threads |-> {}]
    /\ gone = {}
    /\ pc = [t \in Threads |-> "idle"]

(* An object is destroyed when neither the cache nor a thread owns it; r are   *)
(* the results that threads have, and t the thread that calls.                *)
Collect(h, r, t) ==
    /\ heap' = Restrict(h, Owned')
    /\ ref' = [s \in Threads |-> r[s] \cap Owned']
    /\ gone' = (gone \ {t}) \cup {s \in Threads : ~(r[s] \subseteq Owned')}

-----------------------------------------------------------------------------
(* The bytes counted for the first i elements of s, for each i, and for all. *)
Counted(s) ==
    LET sum[i \in 0 .. Len(s)] == IF i = 0 THEN 0 ELSE sum[i - 1] + s[i].counted
    IN  sum
Total(s) == Counted(s)[Len(s)]

(* Get() and UpdateNumBytes() pop while the cache is too large, but one.     *)
Fits(n, of, s) == n <= MaxBytes \/ Len(s) <= 1

PoppedBytes_OfObjects(s) ==
    Total([i \in DOMAIN s |->
        [counted |-> IF s[i].object \in Owned THEN heap[s[i].object].bytes ELSE 0]])
(* Each Pop() takes the bytes of its element off the sum. *)
PoppedBytes(s) == Total(s)

(* The first i elements of s stay: as many as fit, when n bytes are counted. *)
Shrink(s, n) ==
    LET left(i) == n - PoppedBytes(SubSeq(s, i + 1, Len(s)))
        fits(i) == Fits(left(i), s, SubSeq(s, 1, i))
        kept == CHOOSE i \in 0 .. Len(s) :
                    fits(i) /\ \A j \in i + 1 .. Len(s) : ~fits(j)
    IN  lru' = SubSeq(s, 1, kept) /\ numBytes' = left(kept)

Others(img) == RemoveAt(lru, Place(img))
Fresh(img) == CHOOSE o \in {img} \X Generations : o \notin Owned

(* Under cache_mutex_: MemoryConstrainedLRUCache::Get(). *)
Uses(t, img, p, o) ==
    /\ uses' = [uses EXCEPT ![t] = [image |-> img, part |-> p, object |-> o]]
    /\ pc' = [pc EXCEPT ![t] = "got"]

GetFound(t, img, p) ==
    /\ pc[t] = "idle" /\ img \in Cached
    /\ lru' = <<Entry(img)>> \o Others(img)
    /\ Uses(t, img, p, Entry(img).object)
    /\ UNCHANGED numBytes
    /\ Collect(heap, [ref EXCEPT ![t] = {}], t)

GetMissing(t, img, p) ==
    /\ pc[t] = "idle" /\ img \notin Cached
    /\ LET o == Fresh(img) IN
          /\ Shrink(<<[image |-> img, object |-> o, counted |-> 0]>> \o lru, numBytes)
          /\ Uses(t, img, p, o)
          /\ Collect([x \in Owned \cup {o} |->
                IF x = o THEN [bytes |-> 0, parts |-> {}] ELSE heap[x]],
                     [ref EXCEPT ![t] = {}], t)

(* The object's mutex is held by the thread that loads into it. *)
Unlocked(o) == \A t \in Threads : pc[t] = "update" => uses[t].object # o

Return(t, h, r) ==
    /\ uses' = [uses EXCEPT ![t] = NoUse]
    /\ pc' = [pc EXCEPT ![t] = "idle"]
    /\ Collect(h, [ref EXCEPT ![t] = r], t)

Hit(t) ==
    LET o == uses[t].object IN
    /\ pc[t] = "got" /\ Unlocked(o) /\ uses[t].part \in heap[o].parts
    /\ UNCHANGED <<lru, numBytes>>
    /\ Return(t, heap, {o})

(* The part is read and its bytes are added to the object. *)
Load(t) ==
    LET o == uses[t].object
        p == uses[t].part
    IN  /\ pc[t] = "got" /\ Unlocked(o) /\ p \notin heap[o].parts
        /\ heap' = [heap EXCEPT ![o] = [bytes |-> @.bytes + BytesOf[p],
                                       parts |-> @.parts \cup {p}]]
        /\ pc' = [pc EXCEPT ![t] = "update"]
        /\ UNCHANGED <<lru, numBytes, uses, ref, gone>>

(* Reading throws: an empty part stays in the object, which others may use. *)
LoadFails(t) ==
    LET o == uses[t].object IN
    /\ pc[t] = "got" /\ Unlocked(o) /\ uses[t].part \notin heap[o].parts
    /\ UNCHANGED <<lru, numBytes>>
    /\ Return(t, [heap EXCEPT ![o].parts = @ \cup {uses[t].part}], {})

MustUpdate_First(t) == uses[t].image \in Cached /\ Entry(uses[t].image).counted = 0
(* The image may have been evicted, or have come back as another object. *)
MustUpdate(t) == uses[t].image \in Cached

(* MemoryConstrainedLRUCache::UpdateNumBytes(), under cache_mutex_: the bytes *)
(* of the object that is now cached for the image are counted again.         *)
Update(t) ==
    /\ pc[t] = "update"
    /\ LET img == uses[t].image
           e == Entry(img)
       IN  IF MustUpdate(t)
           THEN Shrink(<<[e EXCEPT !.counted = heap[e.object].bytes]>> \o Others(img),
                       numBytes - e.counted + heap[e.object].bytes)
           ELSE UNCHANGED <<lru, numBytes>>
    /\ Return(t, heap, {uses[t].object})

Next ==
    \E t \in Threads :
        \/ \E img \in Images, p \in Parts : GetFound(t, img, p) \/ GetMissing(t, img, p)
        \/ Hit(t) \/ Load(t) \/ LoadFails(t) \/ Update(t)

Spec == Init /\ [][Next]_vars

-----------------------------------------------------------------------------
(* The bytes the cache counts are those of the elements it has: nothing      *)
(* leaks or is taken off twice while images leave and come back under a load *)
(* (the underflow checks of Pop() and UpdateNumBytes() rest on it).          *)
BytesAddUp == numBytes = Total(lru)

(* Once no load into it is under way, an image is counted with all its bytes. *)
AllBytesCounted ==
    \A i \in DOMAIN lru :
        (\A t \in Threads : pc[t] = "update" => uses[t].object # lru[i].object)
            => lru[i].counted = heap[lru[i].object].bytes

(* What the last call returned still exists while its object is the one in   *)
(* use.  Only the cache owns it then, so this rests on what PatchMatch says,  *)
(* "Only access workspace from one thread at a time" (mvs/patch_match.cc:462). *)
ResultAlive == gone = {}
==============================================================================

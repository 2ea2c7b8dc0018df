---------------------- MODULE ThreadSafeLRUCache_proofs ----------------------
(***************************************************************************)
(* For any finite number of threads, any keys and any capacity: an entry of *)
(* the thread-safe cache is loaded by one thread at most, and its future is *)
(* set once.  For any images, parts and sizes: the cached workspace (W)     *)
(* counts the bytes of what it has.                                         *)
(***************************************************************************)
EXTENDS Caching, FiniteSetTheorems, SequenceTheorems, WellFoundedInduction,
        NaturalsInduction, Integers, TLAPS

EntryState == [loading : BOOLEAN, future : {"pending", "value", "exception"}]

(* Every key and every entry is at one place of the list. *)
Proper(s) ==
    /\ s \in Seq(Keys \X Entries)
    /\ \A i, j \in DOMAIN s : s[i][1] = s[j][1] \/ s[i][2] = s[j][2] => i = j

Held(s) == {s[i][2] : i \in DOMAIN s}

(* Outside the lock no entry is unmarked: who adds it marks and loads it.    *)
AllMarked == \A e \in Alive : entries[e].loading

LInv == TypeOK /\ OneLoader /\ AllMarked

-----------------------------------------------------------------------------
LEMMA AliveIs ==
    ASSUME Proper(lru)
    PROVE  /\ \A i \in DOMAIN lru : EntryOf(lru[i][1]) = lru[i][2]
           /\ Alive = Held(lru) \cup InUse
<1>1. ASSUME NEW i \in DOMAIN lru PROVE EntryOf(lru[i][1]) = lru[i][2]
  <2>1. IndexOf(lru[i][1]) = i
    BY <1>1 DEF IndexOf, Proper
  <2> QED
    BY <2>1 DEF EntryOf
<1>2. {EntryOf(k) : k \in Cached} = Held(lru)
  BY <1>1, ZenonT(30) DEF Cached, Held
<1> QED
  BY <1>1, <1>2 DEF Alive

LEMMA AliveWillBe ==
    ASSUME Proper(lru')
    PROVE  Alive' = Held(lru') \cup InUse'
<1>1. ASSUME NEW i \in DOMAIN lru' PROVE EntryOf(lru[i][1])' = lru[i][2]'
  <2>1. IndexOf(lru[i][1])' = i
    BY <1>1 DEF IndexOf, Proper
  <2> QED
    BY <2>1 DEF EntryOf
<1>2. {EntryOf(k) : k \in Cached}' = Held(lru')
  BY <1>1, ZenonT(30) DEF Cached, Held
<1> QED
  BY <1>2 DEF Alive

-----------------------------------------------------------------------------
(* What the operations of the list keep. *)
LEMMA RemoveAtIs ==
    ASSUME NEW S, NEW s \in Seq(S), NEW n \in 1 .. Len(s)
    PROVE  /\ RemoveAt(s, n) \in Seq(S)
           /\ Len(RemoveAt(s, n)) = Len(s) - 1
           /\ \A i \in 1 .. Len(s) - 1 :
                 RemoveAt(s, n)[i] = s[IF i < n THEN i ELSE i + 1]
<1> DEFINE a == SubSeq(s, 1, n - 1)
           b == SubSeq(s, n + 1, Len(s))
<1>1. Len(s) \in Nat /\ \A i \in 1 .. Len(s) : s[i] \in S
  BY ElementOfSeq
<1>2. /\ a \in Seq(S) /\ Len(a) = n - 1
      /\ \A i \in 1 .. n - 1 : a[i] = s[i]
  BY <1>1
<1>3. /\ b \in Seq(S) /\ Len(b) = Len(s) - n
      /\ \A i \in 1 .. Len(s) - n : b[i] = s[n + i]
  BY <1>1, SubSeqProperties
<1> HIDE DEF a, b
<1>4. /\ a \o b \in Seq(S) /\ Len(a \o b) = (n - 1) + (Len(s) - n)
      /\ \A i \in 1 .. (n - 1) + (Len(s) - n) :
            (a \o b)[i] = IF i <= n - 1 THEN a[i] ELSE b[i - (n - 1)]
  <2>1. /\ a \o b \in Seq(S) /\ Len(a \o b) = Len(a) + Len(b)
        /\ \A i \in 1 .. Len(a) + Len(b) :
              (a \o b)[i] = IF i <= Len(a) THEN a[i] ELSE b[i - Len(a)]
    BY <1>2, <1>3, ConcatProperties
  <2>2. Len(a) = n - 1 /\ Len(b) = Len(s) - n
    BY <1>2, <1>3
  <2> QED
    BY <2>1, <2>2
<1>5. ASSUME NEW i \in 1 .. Len(s) - 1
      PROVE  (a \o b)[i] = s[IF i < n THEN i ELSE i + 1]
  <2>1. i \in Int /\ i \in 1 .. (n - 1) + (Len(s) - n) /\ Len(s) \in Int /\ n \in Int
    BY <1>1
  <2>2. CASE i < n
    <3>1. i <= n - 1 /\ i \in 1 .. n - 1
      BY <2>1, <2>2
    <3>2. (a \o b)[i] = a[i]
      BY ONLY <2>1, <3>1, <1>4
    <3> QED
      BY <3>1, <3>2, <2>2, <1>2
  <2>3. CASE ~(i < n)
    <3>1. ~(i <= n - 1)
      BY <2>1, <2>3
    <3>3. (a \o b)[i] = b[i - (n - 1)]
      BY ONLY <2>1, <3>1, <1>4
    <3>2. i - (n - 1) \in 1 .. Len(s) - n /\ n + (i - (n - 1)) = i + 1
      BY <2>1, <2>3
    <3> QED
      BY <3>3, <3>2, <2>3, <1>3
  <2> QED
    BY <2>2, <2>3
<1>6. RemoveAt(s, n) = a \o b
  BY DEF RemoveAt, a, b
<1> QED
  BY <1>1, <1>4, <1>5, <1>6

LEMMA ShorterProper ==
    ASSUME NEW s, Proper(s), NEW n \in 0 .. Len(s)
    PROVE  /\ Proper(SubSeq(s, 1, n))
           /\ Held(SubSeq(s, 1, n)) \subseteq Held(s)
           /\ Len(SubSeq(s, 1, n)) = n
<1> DEFINE S == Keys \X Entries
           w == SubSeq(s, 1, n)
<1>1. s \in Seq(S)
  BY DEF Proper
<1> HIDE DEF S
<1>2. Len(s) \in Nat /\ DOMAIN s = 1 .. Len(s) /\ \A i \in 1 .. Len(s) : s[i] \in S
  BY <1>1, ElementOfSeq
<1>3. w \in Seq(S) /\ Len(w) = n /\ \A i \in 1 .. n : w[i] = s[i]
  BY <1>2, SubSeqProperties
<1> HIDE DEF w
<1>4. DOMAIN w = 1 .. n
  BY <1>3
<1>5. \A i \in DOMAIN w : i \in DOMAIN s /\ w[i] = s[i]
  BY <1>2, <1>3, <1>4
<1>6. Proper(w)
  BY <1>3, <1>5 DEF Proper, S
<1>7. Held(w) \subseteq Held(s)
  BY <1>5 DEF Held
<1> QED
  BY <1>3, <1>6, <1>7 DEF w

LEMMA WithoutProper ==
    ASSUME Proper(lru), NEW k
    PROVE  /\ Proper(Without(k))
           /\ Held(Without(k)) \subseteq Held(lru)
           /\ k \in Cached => Len(Without(k)) = Len(lru) - 1
           /\ k \in Cached => Held(Without(k)) = Held(lru) \ {EntryOf(k)}
           /\ k \notin Cached => Without(k) = lru
           /\ \A i \in DOMAIN Without(k) : Without(k)[i][1] # k
<1>1. CASE k \notin Cached
  BY <1>1 DEF Without, Cached
<1>2. CASE k \in Cached
  <2> DEFINE n == IndexOf(k)
             w == RemoveAt(lru, n)
  <2>1. n \in DOMAIN lru /\ lru[n][1] = k
    BY <1>2 DEF Cached, IndexOf
  <2>2. Without(k) = w
    BY <1>2 DEF Without
  <2>3. EntryOf(k) = lru[n][2]
    BY DEF EntryOf
  <2> HIDE DEF n
  <2> DEFINE S == Keys \X Entries
  <2>4. lru \in Seq(S)
    BY DEF Proper
  <2> HIDE DEF S
  <2>5. Len(lru) \in Nat /\ DOMAIN lru = 1 .. Len(lru) /\ n \in 1 .. Len(lru)
    BY <2>1, <2>4
  <2>6. /\ w \in Seq(S) /\ Len(w) = Len(lru) - 1
        /\ \A i \in 1 .. Len(lru) - 1 : w[i] = lru[IF i < n THEN i ELSE i + 1]
    BY <2>4, <2>5, RemoveAtIs
  <2> HIDE DEF w
  <2>7. /\ DOMAIN w = 1 .. Len(lru) - 1
        /\ \A i \in DOMAIN w : /\ (IF i < n THEN i ELSE i + 1) \in DOMAIN lru \ {n}
                               /\ w[i] = lru[IF i < n THEN i ELSE i + 1]
    BY <2>5, <2>6
  <2>8. Proper(w)
    <3> SUFFICES ASSUME NEW i \in DOMAIN w, NEW j \in DOMAIN w,
                        w[i][1] = w[j][1] \/ w[i][2] = w[j][2]
                 PROVE  i = j
      BY <2>6 DEF Proper, S
    <3>1. (IF i < n THEN i ELSE i + 1) = (IF j < n THEN j ELSE j + 1)
      BY <2>7 DEF Proper
    <3> QED
      BY <3>1, <2>5, <2>7
  <2>9. \A i \in DOMAIN w : w[i][1] # k /\ w[i][2] # lru[n][2]
    BY <2>1, <2>7 DEF Proper
  <2>10. \A j \in DOMAIN lru : j # n => \E i \in DOMAIN w : w[i] = lru[j]
    <3> SUFFICES ASSUME NEW j \in DOMAIN lru, j # n PROVE \E i \in DOMAIN w : w[i] = lru[j]
      OBVIOUS
    <3>1. CASE j < n
      <4>1. j \in DOMAIN w /\ w[j] = lru[j]
        BY <3>1, <2>5, <2>7
      <4> QED
        BY <4>1
    <3>2. CASE j > n
      <4>1. j - 1 \in DOMAIN w /\ w[j - 1] = lru[j]
        BY <3>2, <2>5, <2>7
      <4> QED
        BY <4>1
    <3> QED
      BY <3>1, <3>2, <2>5
  <2>11. Held(w) \subseteq Held(lru) \ {lru[n][2]}
    <3>1. \A i \in DOMAIN w : \E j \in DOMAIN lru : w[i] = lru[j]
      BY <2>7
    <3> QED
      BY <3>1, <2>9 DEF Held
  <2>12. Held(lru) \ {lru[n][2]} \subseteq Held(w)
    <3> SUFFICES ASSUME NEW j \in DOMAIN lru, lru[j][2] # lru[n][2]
                 PROVE  lru[j][2] \in Held(w)
      BY DEF Held
    <3>1. PICK i \in DOMAIN w : w[i] = lru[j]
      BY <2>10
    <3> QED
      BY <3>1 DEF Held
  <2> QED
    BY <1>2, <2>2, <2>3, <2>6, <2>8, <2>9, <2>11, <2>12
<1> QED
  BY <1>1, <1>2

LEMMA PutProper ==
    ASSUME NEW s, Proper(s), NEW k \in Keys, NEW e \in Entries,
           e \notin Held(s), \A i \in DOMAIN s : s[i][1] # k
    PROVE  /\ Proper(<<<<k, e>>>> \o s)
           /\ Held(<<<<k, e>>>> \o s) = Held(s) \cup {e}
           /\ Len(<<<<k, e>>>> \o s) = Len(s) + 1
<1> DEFINE p == <<<<k, e>>>> \o s
<1>1. s \in Seq(Keys \X Entries)
  BY DEF Proper
<1>2. /\ p \in Seq(Keys \X Entries) /\ Len(p) = Len(s) + 1
      /\ p[1] = <<k, e>> /\ \A i \in 1 .. Len(s) : p[i + 1] = s[i]
      /\ \A i \in 2 .. Len(p) : i - 1 \in DOMAIN s /\ p[i] = s[i - 1]
  BY <1>1
<1>3. DOMAIN p = 1 .. Len(s) + 1 /\ DOMAIN s = 1 .. Len(s) /\ Len(s) \in Nat
  BY <1>1, <1>2
<1> HIDE DEF p
<1>4. \A i \in 2 .. Len(s) + 1 : p[i][1] # k /\ p[i][2] # e
  BY <1>2, <1>3 DEF Held
<1>5. Proper(p)
  <2> SUFFICES ASSUME NEW i \in DOMAIN p, NEW j \in DOMAIN p,
                      p[i][1] = p[j][1] \/ p[i][2] = p[j][2]
               PROVE  i = j
    BY <1>2 DEF Proper
  <2>1. CASE i = 1
    BY <2>1, <1>2, <1>3, <1>4
  <2>2. CASE j = 1
    BY <2>2, <1>2, <1>3, <1>4
  <2>3. CASE i # 1 /\ j # 1
    <3>1. i - 1 \in DOMAIN s /\ j - 1 \in DOMAIN s /\ p[i] = s[i - 1] /\ p[j] = s[j - 1]
      BY <2>3, <1>2, <1>3
    <3>2. i - 1 = j - 1
      BY <3>1 DEF Proper
    <3> QED
      BY <3>2, <1>3
  <2> QED
    BY <2>1, <2>2, <2>3
<1>6. Held(p) = Held(s) \cup {e}
  <2>1. \A i \in DOMAIN s : i + 1 \in DOMAIN p /\ p[i + 1] = s[i]
    BY <1>2, <1>3
  <2>2. \A i \in DOMAIN p : i = 1 \/ (i - 1 \in DOMAIN s /\ p[i] = s[i - 1])
    BY <1>2, <1>3
  <2>3. 1 \in DOMAIN p /\ p[1][2] = e
    BY <1>2, <1>3
  <2>4. Held(p) \subseteq Held(s) \cup {e}
    BY <2>2, <2>3 DEF Held
  <2>5. Held(s) \cup {e} \subseteq Held(p)
    BY <2>1, <2>3 DEF Held
  <2> QED
    BY <2>4, <2>5
<1> QED
  BY <1>2, <1>5, <1>6 DEF p

-----------------------------------------------------------------------------
LEMMA TypeIs ==
    TypeOK <=>
        /\ Proper(lru) /\ Len(lru) <= MaxElems
        /\ entries \in [Alive -> EntryState]
        /\ uses \in [Threads -> [key : Keys, entry : Entries]]
        /\ pc \in [Threads -> {"idle", "load", "failed", "wait"}]
BY DEF TypeOK, Proper, EntryState

LEMMA NoUseTyped == NoUse \in [key : Keys, entry : Entries]
<1>1. Cardinality({}) = 0 /\ Cardinality(Threads) \in Nat
  BY FS_EmptySet, FS_CardinalityType, UsersAssumption DEF UsersAssumption
<1>2. Entries # {}
  BY <1>1, MaxElemsAssumption, EntriesAssumption DEF MaxElemsAssumption, EntriesAssumption
<1> QED
  BY <1>2, UsersAssumption DEF NoUse, UsersAssumption

(* The bound on the entries leaves one free: the list has MaxElems at most,  *)
(* and every thread uses one.                                                *)
LEMMA FreshIsFree ==
    ASSUME TypeOK
    PROVE  FreshEntry \in Entries /\ FreshEntry \notin Alive
<1>1. Proper(lru) /\ Len(lru) <= MaxElems
  BY TypeIs
<1>2. Len(lru) \in Nat /\ DOMAIN lru = 1 .. Len(lru)
  BY <1>1, LenProperties DEF Proper
<1>3. IsFiniteSet(Held(lru)) /\ Cardinality(Held(lru)) <= Len(lru)
  <2> DEFINE f == [i \in 1 .. Len(lru) |-> lru[i][2]]
  <2>1. f \in Surjection(1 .. Len(lru), Held(lru))
    BY <1>2 DEF Surjection, Held
  <2>2. IsFiniteSet(1 .. Len(lru)) /\ Cardinality(1 .. Len(lru)) = Len(lru)
    <3>1. /\ IsFiniteSet(1 .. Len(lru))
          /\ Cardinality(1 .. Len(lru)) = IF 1 > Len(lru) THEN 0 ELSE Len(lru) - 1 + 1
      BY <1>2, FS_Interval
    <3> QED
      BY <3>1, <1>2
  <2> QED
    BY <2>1, <2>2, FS_Surjection
<1>4. IsFiniteSet(InUse) /\ Cardinality(InUse) <= Cardinality(Threads)
  <2> DEFINE T == {t \in Threads : pc[t] # "idle"}
             f == [t \in T |-> uses[t].entry]
  <2>1. f \in Surjection(T, InUse)
    BY DEF Surjection, InUse
  <2>2. IsFiniteSet(T) /\ Cardinality(T) <= Cardinality(Threads)
    BY FS_Subset, UsersAssumption DEF UsersAssumption
  <2>3. IsFiniteSet(InUse) /\ Cardinality(InUse) <= Cardinality(T)
    BY <2>1, <2>2, FS_Surjection
  <2> HIDE DEF T
  <2>4. Cardinality(T) \in Nat /\ Cardinality(InUse) \in Nat /\ Cardinality(Threads) \in Nat
    BY <2>2, <2>3, FS_CardinalityType, UsersAssumption DEF UsersAssumption
  <2> QED
    BY <2>2, <2>3, <2>4
<1>5. Alive = Held(lru) \cup InUse
  BY <1>1, AliveIs
<1>6. IsFiniteSet(Alive) /\ Cardinality(Alive) <= MaxElems + Cardinality(Threads)
  <2>1. /\ Cardinality(Held(lru)) \in Nat /\ Cardinality(InUse) \in Nat
        /\ Cardinality(Threads) \in Nat /\ Cardinality(Held(lru) \cap InUse) \in Nat
    BY <1>3, <1>4, FS_CardinalityType, FS_Intersection, UsersAssumption DEF UsersAssumption
  <2>2. /\ IsFiniteSet(Alive)
        /\ Cardinality(Alive) =
              Cardinality(Held(lru)) + Cardinality(InUse) - Cardinality(Held(lru) \cap InUse)
    BY <1>3, <1>4, <1>5, FS_Union
  <2> QED
    BY <1>1, <1>2, <1>3, <1>4, <2>1, <2>2, MaxElemsAssumption DEF MaxElemsAssumption
<1>7. ~(Entries \subseteq Alive)
  <2> SUFFICES ASSUME Entries \subseteq Alive PROVE FALSE
    OBVIOUS
  <2>1. IsFiniteSet(Entries) /\ Cardinality(Entries) <= Cardinality(Alive)
    BY <1>6, FS_Subset
  <2>2. /\ Cardinality(Entries) \in Nat /\ Cardinality(Alive) \in Nat
        /\ Cardinality(Threads) \in Nat
    BY <1>6, <2>1, FS_CardinalityType, UsersAssumption DEF UsersAssumption
  <2> QED
    BY <1>6, <2>1, <2>2, MaxElemsAssumption, EntriesAssumption
    DEF MaxElemsAssumption, EntriesAssumption
<1> QED
  BY <1>7 DEF FreshEntry

(* The entries that a step leaves alive keep what they were given.           *)
LEMMA Collected ==
    ASSUME NEW A, NEW all \in [A -> EntryState], Collect(all), Alive' \subseteq A
    PROVE  /\ entries' \in [Alive' -> EntryState]
           /\ \A e \in Alive' : entries'[e] = all[e]
BY DEF Collect, Restrict

-----------------------------------------------------------------------------
(* A step after which no thread loads that did not, and that settles the     *)
(* future of no entry that is still loaded.                                  *)
LEMMA LoadersKept ==
    ASSUME OneLoader, Loaders' \subseteq Loaders,
           \A t \in Loaders' : /\ uses'[t] = uses[t]
                               /\ entries'[uses[t].entry].future = entries[uses[t].entry].future
    PROVE  OneLoader'
BY DEF OneLoader

LEMMA UsersAlive ==
    ASSUME Proper(lru), NEW t \in Threads, pc[t] # "idle"
    PROVE  uses[t].entry \in Alive
BY AliveIs DEF InUse

LEMMA FoundInv ==
    ASSUME LInv, NEW t \in Threads, NEW k \in Keys, GetFound(t, k)
    PROVE  LInv'
<1> DEFINE e == EntryOf(k)
<1>1. /\ Proper(lru) /\ Len(lru) <= MaxElems /\ Len(lru) \in Nat
      /\ entries \in [Alive -> EntryState]
      /\ uses \in [Threads -> [key : Keys, entry : Entries]]
      /\ pc \in [Threads -> {"idle", "load", "failed", "wait"}]
  BY TypeIs, LenProperties DEF LInv, Proper
<1>2. PICK i \in DOMAIN lru : lru[i][1] = k
  BY DEF GetFound, Cached
<1>3. e = lru[i][2] /\ e \in Held(lru) /\ e \in Entries /\ e \in Alive
  BY <1>1, <1>2, AliveIs, ElementOfSeq DEF Held, Proper
<1> HIDE DEF e
<1>4. /\ Proper(Without(k)) /\ Len(Without(k)) = Len(lru) - 1
      /\ Held(Without(k)) = Held(lru) \ {e}
      /\ \A j \in DOMAIN Without(k) : Without(k)[j][1] # k
  BY <1>1, WithoutProper DEF GetFound, e
<1>5. Proper(lru') /\ Held(lru') = Held(lru) /\ Len(lru') <= MaxElems
  <2>1. lru' = <<<<k, e>>>> \o Without(k)
    BY DEF GetFound, Used, e
  <2>2. /\ Proper(lru') /\ Held(lru') = Held(Without(k)) \cup {e}
        /\ Len(lru') = Len(Without(k)) + 1
    BY <2>1, <1>3, <1>4, PutProper
  <2> QED
    BY <2>2, <1>1, <1>3, <1>4
<1>6. /\ uses' = [uses EXCEPT ![t] = [key |-> k, entry |-> e]]
      /\ pc[t] = "idle" /\ pc' = [pc EXCEPT ![t] = "wait"]
      /\ entries' = [entries EXCEPT ![e].loading = TRUE]
  BY <1>3 DEF GetFound, e, IsLoading, LInv, AllMarked
<1>7. InUse' = InUse \cup {e}
  BY <1>1, <1>6 DEF InUse
<1>8. Alive' = Alive
  BY <1>1, <1>3, <1>5, <1>7, AliveIs, AliveWillBe
<1>9. /\ entries' \in [Alive' -> EntryState]
      /\ \A x \in Alive' : entries'[x].loading /\ entries'[x].future = entries[x].future
  <2>1. entries[e] \in EntryState /\ \A x \in Alive : entries[x].loading
    BY <1>1, <1>3 DEF LInv, AllMarked
  <2>2. entries' = [entries EXCEPT ![e] = [entries[e] EXCEPT !.loading = TRUE]]
    BY <1>6
  <2>3. /\ [entries[e] EXCEPT !.loading = TRUE] \in EntryState
        /\ [entries[e] EXCEPT !.loading = TRUE].loading
        /\ [entries[e] EXCEPT !.loading = TRUE].future = entries[e].future
    BY <2>1 DEF EntryState
  <2> QED
    BY <2>1, <2>2, <2>3, <1>1, <1>3, <1>8
<1>10. TypeOK'
  <2>1. uses' \in [Threads -> [key : Keys, entry : Entries]]
    BY <1>1, <1>3, <1>6
  <2>2. pc' \in [Threads -> {"idle", "load", "failed", "wait"}]
    BY <1>1, <1>6
  <2> QED
    BY <2>1, <2>2, <1>5, <1>9 DEF TypeOK, Proper, EntryState
<1>11. OneLoader'
  <2>1. \A s \in Loaders' : s \in Loaders /\ s # t /\ uses'[s] = uses[s] /\ uses[s].entry \in Alive
    BY <1>1, <1>6, UsersAlive DEF Loaders
  <2> QED
    BY <2>1, <1>8, <1>9, LoadersKept DEF LInv
<1> QED
  BY <1>9, <1>10, <1>11 DEF LInv, AllMarked

LEMMA MissingInv ==
    ASSUME LInv, NEW t \in Threads, NEW k \in Keys, GetMissing(t, k)
    PROVE  LInv'
<1> DEFINE e == FreshEntry
           p == <<<<k, e>>>> \o lru
           new == [x \in Alive \cup {e} |->
                     IF x = e THEN [loading |-> TRUE, future |-> "pending"] ELSE entries[x]]
<1>1. /\ Proper(lru) /\ Len(lru) <= MaxElems /\ Len(lru) \in Nat
      /\ entries \in [Alive -> EntryState]
      /\ uses \in [Threads -> [key : Keys, entry : Entries]]
      /\ pc \in [Threads -> {"idle", "load", "failed", "wait"}]
  BY TypeIs, LenProperties DEF LInv, Proper
<1>2. e \in Entries /\ e \notin Alive
  BY FreshIsFree DEF LInv
<1>3. /\ lru' = Capped(p) /\ pc[t] = "idle" /\ pc' = [pc EXCEPT ![t] = "load"]
      /\ uses' = [uses EXCEPT ![t] = [key |-> k, entry |-> e]]
      /\ Collect(new)
  <2>1. Without(k) = lru
    BY DEF GetMissing, Without
  <2> QED
    BY <2>1 DEF GetMissing, Used, IsLoading
<1> HIDE DEF e
<1>4. Proper(p) /\ Held(p) = Held(lru) \cup {e} /\ Len(p) = Len(lru) + 1
  <2>1. e \notin Held(lru) /\ \A j \in DOMAIN lru : lru[j][1] # k
    BY <1>1, <1>2, AliveIs DEF GetMissing, Cached
  <2> QED
    BY <2>1, <1>1, <1>2, PutProper
<1> HIDE DEF p
<1>5. Proper(lru') /\ Held(lru') \subseteq Held(lru) \cup {e} /\ Len(lru') <= MaxElems
  <2>1. CASE Len(p) > MaxElems
    <3>1. lru' = SubSeq(p, 1, Len(p) - 1)
      BY <1>3, <2>1 DEF Capped, Front
    <3>2. Len(p) - 1 \in 0 .. Len(p)
      BY <1>1, <1>4
    <3>3. Proper(lru') /\ Held(lru') \subseteq Held(p) /\ Len(lru') = Len(p) - 1
      BY <3>1, <3>2, <1>4, ShorterProper
    <3> QED
      BY <3>3, <1>1, <1>4
  <2>2. CASE ~(Len(p) > MaxElems)
    BY <2>2, <1>1, <1>3, <1>4, MaxElemsAssumption DEF Capped, MaxElemsAssumption
  <2> QED
    BY <2>1, <2>2
<1>6. InUse' \subseteq InUse \cup {e}
  BY <1>1, <1>3 DEF InUse
<1>7. Alive' \subseteq Alive \cup {e}
  BY <1>1, <1>5, <1>6, AliveIs, AliveWillBe
<1>8. new \in [Alive \cup {e} -> EntryState]
  BY <1>1 DEF EntryState
<1>9. /\ entries' \in [Alive' -> EntryState]
      /\ \A x \in Alive' : entries'[x] = new[x]
  BY <1>3, <1>7, <1>8, Collected
<1>10. \A x \in Alive' : IF x = e THEN entries'[x] = [loading |-> TRUE, future |-> "pending"]
                                  ELSE x \in Alive /\ entries'[x] = entries[x]
  BY <1>7, <1>9
<1> HIDE DEF new
<1>11. AllMarked'
  BY <1>10 DEF AllMarked, LInv
<1>12. TypeOK'
  <2>1. uses' \in [Threads -> [key : Keys, entry : Entries]]
    BY <1>1, <1>2, <1>3
  <2>2. pc' \in [Threads -> {"idle", "load", "failed", "wait"}]
    BY <1>1, <1>3
  <2> QED
    BY <2>1, <2>2, <1>5, <1>9 DEF TypeOK, Proper, EntryState
<1>13. \A s \in Loaders' : /\ uses'[s].entry \in Alive'
                           /\ s = t => uses'[s].entry = e
                           /\ s # t => /\ s \in Loaders /\ uses'[s] = uses[s]
                                       /\ uses[s].entry \in Alive
  <2>1. \A s \in Loaders' : uses'[s].entry \in Alive'
    BY <1>5, AliveWillBe DEF Loaders, InUse
  <2>2. \A s \in Loaders' : s # t => s \in Loaders /\ uses'[s] = uses[s]
    BY <1>1, <1>3 DEF Loaders
  <2>3. \A s \in Loaders : uses[s].entry \in Alive
    BY <1>1, UsersAlive DEF Loaders
  <2>4. uses'[t].entry = e
    BY <1>1, <1>3
  <2> QED
    BY <2>1, <2>2, <2>3, <2>4
<1>14. OneLoader'
  <2>1. ASSUME NEW r \in Loaders', NEW s \in Loaders', uses'[r].entry = uses'[s].entry
        PROVE  r = s
    BY <2>1, <1>2, <1>13 DEF LInv, OneLoader
  <2>2. ASSUME NEW s \in Loaders' PROVE entries'[uses'[s].entry].future = "pending"
    BY <2>2, <1>2, <1>10, <1>13 DEF LInv, OneLoader
  <2> QED
    BY <2>1, <2>2 DEF OneLoader
<1> QED
  BY <1>11, <1>12, <1>14 DEF LInv

(* The steps in which the list becomes no longer, and which only keep of the *)
(* entries what is still in use.                                             *)
LEMMA ShrinkInv ==
    ASSUME LInv, Proper(lru'), Len(lru') <= MaxElems, Held(lru') \subseteq Held(lru),
           uses' \in [Threads -> [key : Keys, entry : Entries]],
           pc' \in [Threads -> {"idle", "load", "failed", "wait"}],
           InUse' \subseteq InUse, Loaders' \subseteq Loaders,
           NEW all \in [Alive -> EntryState], Collect(all),
           \A e \in Alive : all[e].loading,
           \A t \in Loaders' : /\ uses'[t] = uses[t]
                               /\ all[uses[t].entry] = entries[uses[t].entry]
    PROVE  LInv'
<1>1. Proper(lru)
  BY TypeIs DEF LInv
<1>2. Alive' \subseteq Alive
  BY <1>1, AliveIs, AliveWillBe
<1>3. /\ entries' \in [Alive' -> EntryState]
      /\ \A e \in Alive' : entries'[e] = all[e]
  BY <1>2, Collected
<1>4. AllMarked'
  BY <1>2, <1>3 DEF AllMarked
<1>5. \A t \in Loaders' : uses'[t].entry \in Alive'
  BY AliveWillBe DEF Loaders, InUse
<1>6. OneLoader'
  BY <1>3, <1>5, LoadersKept DEF LInv
<1>7. TypeOK'
  BY <1>3 DEF TypeOK, Proper, EntryState
<1> QED
  BY <1>4, <1>6, <1>7 DEF LInv

LEMMA LoadInv ==
    ASSUME LInv, NEW t \in Threads, LoadSucceeds(t) \/ LoadFails(t)
    PROVE  LInv'
<1> DEFINE e == uses[t].entry
<1>1. /\ Proper(lru) /\ entries \in [Alive -> EntryState]
      /\ pc \in [Threads -> {"idle", "load", "failed", "wait"}]
  BY TypeIs DEF LInv
<1>2. /\ pc[t] = "load" /\ pc' \in [Threads -> {"idle", "load", "failed", "wait"}]
      /\ lru' = lru /\ uses' = uses /\ \A s \in Threads : s # t => pc'[s] = pc[s]
      /\ pc'[t] \in {"wait", "failed"}
  BY <1>1 DEF LoadSucceeds, LoadFails
<1>3. InUse' = InUse
  BY <1>1, <1>2 DEF InUse
<1>4. Alive' = Alive
  BY <1>1, <1>2, <1>3, AliveIs, AliveWillBe
<1>5. e \in Alive /\ t \in Loaders /\ Loaders' \subseteq Loaders
  BY <1>1, <1>2, UsersAlive DEF Loaders
<1>6. CASE LoadFails(t)
  <2>1. entries' = entries
    BY <1>6 DEF LoadFails
  <2>2. OneLoader'
    BY <2>1, <1>2, <1>5, LoadersKept DEF LInv
  <2> QED
    BY <2>1, <2>2, <1>1, <1>2, <1>4 DEF LInv, TypeOK, AllMarked
<1>7. CASE LoadSucceeds(t)
  <2>1. entries' = [entries EXCEPT ![e].future = "value"] /\ pc'[t] = "wait"
    BY <1>1, <1>7 DEF LoadSucceeds
  <2> HIDE DEF e
  <2>2. /\ entries' \in [Alive' -> EntryState]
        /\ \A x \in Alive' : /\ entries'[x].loading
                             /\ x # e => entries'[x] = entries[x]
    BY <2>1, <1>1, <1>4, <1>5 DEF EntryState, LInv, AllMarked
  <2>3. \A s \in Loaders' : s # t /\ s \in Loaders /\ uses[s].entry # e /\ uses[s].entry \in Alive
    <3>1. \A s \in Loaders' : s # t /\ s \in Loaders
      BY <2>1, <1>5 DEF Loaders
    <3>2. \A s \in Loaders : uses[s].entry \in Alive
      BY <1>1, UsersAlive DEF Loaders
    <3> QED
      BY <3>1, <3>2, <1>5 DEF e, LInv, OneLoader
  <2>4. OneLoader'
    BY <2>2, <2>3, <1>2, <1>4, <1>5, LoadersKept DEF LInv
  <2>5. TypeOK'
    BY <2>2, <1>2 DEF TypeOK, EntryState, LInv
  <2> QED
    BY <2>2, <2>4, <2>5 DEF LInv, AllMarked
<1> QED
  BY <1>6, <1>7

LEMMA FailureInv ==
    ASSUME LInv, NEW t \in Threads, HandleFailure(t)
    PROVE  LInv'
<1> DEFINE k == uses[t].key
           e == uses[t].entry
           all == [entries EXCEPT ![e].future = "exception"]
<1>1. /\ Proper(lru) /\ Len(lru) <= MaxElems /\ Len(lru) \in Nat
      /\ entries \in [Alive -> EntryState]
      /\ uses \in [Threads -> [key : Keys, entry : Entries]]
      /\ pc \in [Threads -> {"idle", "load", "failed", "wait"}]
  BY TypeIs, LenProperties DEF LInv, Proper
<1>2. /\ lru' = Without(k) /\ uses' = uses /\ Collect(all)
      /\ pc[t] = "failed" /\ pc' = [pc EXCEPT ![t] = "wait"]
  BY DEF HandleFailure, EvictFailed, SetException
<1>3. /\ Proper(lru') /\ Held(lru') \subseteq Held(lru)
      /\ Len(lru') <= MaxElems
  <2> HIDE DEF k
  <2> QED
    BY <1>1, <1>2, WithoutProper, MaxElemsAssumption DEF MaxElemsAssumption
<1>4. InUse' \subseteq InUse
  BY <1>1, <1>2 DEF InUse
<1>5. t \in Loaders /\ e \in Alive /\ \A s \in Loaders' : s \in Loaders /\ s # t
  BY <1>1, <1>2, UsersAlive DEF Loaders
<1>6. \A s \in Loaders' : uses[s].entry \in Alive /\ uses[s].entry # e
  <2>1. \A s \in Loaders : uses[s].entry \in Alive
    BY <1>1, UsersAlive DEF Loaders
  <2> QED
    BY <2>1, <1>5 DEF LInv, OneLoader
<1> HIDE DEF e
<1>7. /\ all \in [Alive -> EntryState]
      /\ \A x \in Alive : all[x].loading /\ (x # e => all[x] = entries[x])
  BY <1>1, <1>5 DEF EntryState, LInv, AllMarked
<1> HIDE DEF all
<1>8. pc' \in [Threads -> {"idle", "load", "failed", "wait"}]
  BY <1>1, <1>2
<1> QED
  BY <1>1, <1>2, <1>3, <1>4, <1>5, <1>6, <1>7, <1>8, ShrinkInv

LEMMA ReturnInv ==
    ASSUME LInv, NEW t \in Threads, GetReturns(t)
    PROVE  LInv'
<1>1. /\ Proper(lru) /\ Len(lru) <= MaxElems /\ entries \in [Alive -> EntryState]
      /\ uses \in [Threads -> [key : Keys, entry : Entries]]
      /\ pc \in [Threads -> {"idle", "load", "failed", "wait"}]
  BY TypeIs DEF LInv
<1>2. /\ lru' = lru /\ Collect(entries) /\ pc[t] = "wait"
      /\ pc' = [pc EXCEPT ![t] = "idle"] /\ uses' = [uses EXCEPT ![t] = NoUse]
  BY DEF GetReturns
<1>3. uses' \in [Threads -> [key : Keys, entry : Entries]]
  BY <1>1, <1>2, NoUseTyped
<1>4. /\ pc' \in [Threads -> {"idle", "load", "failed", "wait"}]
      /\ \A s \in Threads : pc'[s] # "idle" => s # t /\ pc'[s] = pc[s]
      /\ \A s \in Threads : s # t => uses'[s] = uses[s]
  BY <1>1, <1>2
<1>5. InUse' \subseteq InUse
  BY <1>4 DEF InUse
<1>6. Loaders' \subseteq Loaders /\ \A s \in Loaders' : uses'[s] = uses[s]
  BY <1>4 DEF Loaders
<1> QED
  BY <1>1, <1>2, <1>3, <1>4, <1>5, <1>6, ShrinkInv DEF LInv, AllMarked

LEMMA RemovalInv ==
    ASSUME LInv, NEW t \in Threads, NEW k,
           Evict(t, k) \/ Pop(t) \/ Clear(t)
    PROVE  LInv'
<1>1. /\ Proper(lru) /\ Len(lru) <= MaxElems /\ Len(lru) \in Nat
      /\ entries \in [Alive -> EntryState]
      /\ uses \in [Threads -> [key : Keys, entry : Entries]]
      /\ pc \in [Threads -> {"idle", "load", "failed", "wait"}]
  BY TypeIs, LenProperties DEF LInv, Proper
<1>2. uses' = uses /\ pc' = pc /\ Collect(entries)
  BY DEF Evict, Pop, Clear
<1>3. Proper(lru') /\ Held(lru') \subseteq Held(lru) /\ Len(lru') <= MaxElems
  <2>1. CASE Evict(t, k)
    <3>1. lru' = Without(k) /\ k \in Cached
      BY <2>1 DEF Evict
    <3> QED
      BY <3>1, <1>1, WithoutProper, MaxElemsAssumption DEF MaxElemsAssumption
  <2>2. CASE Pop(t)
    <3>1. lru' = SubSeq(lru, 1, Len(lru) - 1) /\ lru # <<>>
      BY <2>2 DEF Pop, Front
    <3>2. Len(lru) - 1 \in 0 .. Len(lru)
      BY <3>1, <1>1, EmptySeq DEF Proper
    <3>3. Proper(lru') /\ Held(lru') \subseteq Held(lru) /\ Len(lru') = Len(lru) - 1
      BY <3>1, <3>2, <1>1, ShorterProper
    <3> QED
      BY <3>3, <1>1, MaxElemsAssumption DEF MaxElemsAssumption
  <2>3. CASE Clear(t)
    <3>1. lru' = <<>>
      BY <2>3 DEF Clear
    <3> QED
      BY <3>1, MaxElemsAssumption DEF Proper, Held, MaxElemsAssumption
  <2> QED
    BY <2>1, <2>2, <2>3
<1>4. InUse' = InUse /\ Loaders' = Loaders
  BY <1>2 DEF InUse, Loaders
<1> QED
  BY <1>1, <1>2, <1>3, <1>4, ShrinkInv DEF LInv, AllMarked

-----------------------------------------------------------------------------
LEMMA InitInv == Init => LInv
<1> SUFFICES ASSUME Init PROVE LInv
  OBVIOUS
<1>1. lru = <<>> /\ entries = <<>> /\ \A t \in Threads : pc[t] = "idle"
  BY DEF Init
<1>2. Alive = {}
  BY <1>1 DEF Alive, Cached, InUse
<1>3. Loaders = {}
  BY <1>1 DEF Loaders
<1>4. TypeOK
  BY <1>1, <1>2, NoUseTyped, MaxElemsAssumption DEF Init, TypeOK, MaxElemsAssumption
<1> QED
  BY <1>2, <1>3, <1>4 DEF LInv, OneLoader, AllMarked

LEMMA StepInv == LInv /\ [Next]_vars => LInv'
<1> SUFFICES ASSUME LInv, [Next]_vars PROVE LInv'
  OBVIOUS
<1>1. CASE UNCHANGED vars
  <2>1. lru' = lru /\ entries' = entries /\ uses' = uses /\ pc' = pc
    BY <1>1 DEF vars
  <2>2. Proper(lru)
    BY TypeIs DEF LInv
  <2>3. InUse' = InUse /\ Loaders' = Loaders
    BY <2>1 DEF InUse, Loaders
  <2>4. Alive' = Alive
    BY <2>1, <2>2, <2>3, AliveIs, AliveWillBe
  <2> QED
    BY <2>1, <2>3, <2>4 DEF LInv, TypeOK, OneLoader, AllMarked
<1>2. CASE Next
  <2>1. PICK t \in Threads :
            \/ Proceed(t) \/ Pop(t) \/ Clear(t)
            \/ \E k \in Keys : GetFound(t, k) \/ GetMissing(t, k) \/ Evict(t, k)
    BY <1>2 DEF Next
  <2>2. CASE Proceed(t)
    BY <2>2, LoadInv, FailureInv, ReturnInv DEF Proceed
  <2>3. CASE Pop(t) \/ Clear(t)
    BY <2>3, RemovalInv
  <2>4. CASE \E k \in Keys : GetFound(t, k) \/ GetMissing(t, k) \/ Evict(t, k)
    BY <2>4, FoundInv, MissingInv, RemovalInv
  <2> QED
    BY <2>1, <2>2, <2>3, <2>4
<1> QED
  BY <1>1, <1>2

LEMMA SpecInv == Spec => []LInv
BY InitInv, StepInv, PTL DEF Spec

(* The list has MaxElems elements at most and every key and every entry once *)
(* in it (LRUCache::Get, Evict and Pop, util/cache.h:212-249).               *)
THEOREM TypeCorrect == Spec => []TypeOK
<1>1. LInv => TypeOK
  BY DEF LInv
<1> QED
  BY <1>1, SpecInv, PTL

(* One thread at most loads an entry, and sets its promise once: set_value   *)
(* and set_exception (util/cache.h:306-311) never throw future_error.        *)
THEOREM LoadedOnce == Spec => []OneLoader
<1>1. LInv => OneLoader
  BY DEF LInv
<1> QED
  BY <1>1, SpecInv, PTL

-----------------------------------------------------------------------------
(* Induction over a set, which stands for the property of the numbers in it. *)
LEMMA Least ==
    ASSUME NEW S \in SUBSET Nat, S # {}
    PROVE  \E x \in S : \A y \in S : x <= y
<1> DEFINE R == {p \in Nat \X Nat : p[1] < p[2]}
<1>1. IsWellFoundedOn(R, Nat)
  BY NatLessThanWellFounded DEF OpToRel
<1> HIDE DEF R
<1>2. PICK x \in S : \A y \in S : ~(<<y, x>> \in R)
  BY <1>1, WFMin
<1>3. ASSUME NEW y \in S PROVE x <= y
  <2>1. x \in Nat /\ y \in Nat /\ ~(<<y, x>> \in R)
    BY <1>2
  <2>2. <<y, x>> \in R <=> y < x
    BY <2>1 DEF R
  <2> QED BY <2>1, <2>2
<1> QED BY <1>3

LEMMA Induction ==
    ASSUME NEW S, 0 \in S, \A n \in Nat : n \in S => n + 1 \in S
    PROVE  Nat \subseteq S
<1> SUFFICES ASSUME Nat \ S # {} PROVE FALSE
  OBVIOUS
<1>1. PICK x \in Nat \ S : \A y \in Nat \ S : x <= y
  BY Least
<1>2. x # 0 /\ x - 1 \in Nat
  BY <1>1
<1>3. x - 1 \in S
  <2>1. ~(x <= x - 1)
    BY <1>1
  <2> QED BY <1>1, <1>2, <2>1
<1>4. (x - 1) + 1 = x
  BY <1>1
<1> QED BY <1>1, <1>2, <1>3, <1>4

(* A function that is defined by recursion over the numbers up to n exists:  *)
(* H gives each of its values from the number and the value before.          *)
Follows(f, n, H) == \A i \in 1 .. n : f[i] = H[<<i, f[i - 1]>>]

LEMMA RecursionExists ==
    ASSUME NEW n \in Nat, NEW V, NEW a \in V, NEW H \in [(1 .. n) \X V -> V]
    PROVE  \E f \in [0 .. n -> V] : f[0] = a /\ Follows(f, n, H)
<1> DEFINE Good(f, m) == f[0] = a /\ \A i \in 1 .. m : f[i] = H[<<i, f[i - 1]>>]
           S == {m \in Nat : m <= n => \E f \in [0 .. m -> V] : Good(f, m)}
<1>1. 0 \in S
  <2> DEFINE f == [i \in 0 .. 0 |-> a]
  <2>1. f \in [0 .. 0 -> V] /\ Good(f, 0)
    OBVIOUS
  <2> QED BY <2>1
<1>2. ASSUME NEW m \in Nat, m \in S PROVE m + 1 \in S
  <2> SUFFICES ASSUME m + 1 <= n PROVE \E f \in [0 .. m + 1 -> V] : Good(f, m + 1)
    OBVIOUS
  <2>1. PICK f \in [0 .. m -> V] : Good(f, m)
    BY <1>2
  <2> DEFINE g == [i \in 0 .. m + 1 |-> IF i = m + 1 THEN H[<<m + 1, f[m]>>] ELSE f[i]]
  <2>2. f[m] \in V /\ m + 1 \in 1 .. n
    BY <2>1
  <2>3. H[<<m + 1, f[m]>>] \in V
    BY <2>2
  <2>4. g \in [0 .. m + 1 -> V]
    <3>1. \A i \in 0 .. m + 1 : i # m + 1 => i \in 0 .. m
      OBVIOUS
    <3> QED BY <2>1, <2>3, <3>1
  <2>5. g[0] = a /\ g[m + 1] = H[<<m + 1, f[m]>>] /\ g[m] = f[m]
    BY <2>1
  <2>6. ASSUME NEW i \in 1 .. m + 1 PROVE g[i] = H[<<i, g[i - 1]>>]
    <3>1. CASE i = m + 1
      <4>1. i - 1 = m
        BY <3>1
      <4> HIDE DEF g
      <4> QED BY <2>5, <3>1, <4>1
    <3>2. CASE i # m + 1
      <4>1. /\ i \in 1 .. m /\ i - 1 \in 0 .. m /\ i - 1 # m + 1
            /\ i \in 0 .. m + 1 /\ i - 1 \in 0 .. m + 1
        BY <3>2
      <4>2. g[i] = f[i] /\ g[i - 1] = f[i - 1]
        BY <3>2, <4>1
      <4> HIDE DEF g
      <4> QED BY <2>1, <4>1, <4>2
    <3> QED BY <3>1, <3>2
  <2> HIDE DEF g
  <2> QED BY <2>4, <2>5, <2>6
<1>3. n \in S
  <2> HIDE DEF S
  <2>1. Nat \subseteq S
    BY <1>1, <1>2, Induction
  <2> QED BY <2>1
<1>4. PICK f \in [0 .. n -> V] : Good(f, n)
  BY <1>3
<1> QED BY <1>4 DEF Follows

-----------------------------------------------------------------------------
(* The bytes counted for the elements of a list. *)
Element == [image : Images, object : W!Objects, counted : Nat]

Countable(s) == Len(s) \in Nat /\ \A i \in 1 .. Len(s) : s[i].counted \in Nat

LEMMA CountedIs ==
    ASSUME NEW s, Countable(s)
    PROVE  /\ W!Counted(s) \in [0 .. Len(s) -> Nat]
           /\ W!Counted(s)[0] = 0
           /\ \A i \in 1 .. Len(s) : W!Counted(s)[i] = W!Counted(s)[i - 1] + s[i].counted
<1> DEFINE n == Len(s)
           H == [p \in (1 .. n) \X Nat |-> p[2] + s[p[1]].counted]
           Is(f) == f = [i \in 0 .. n |-> IF i = 0 THEN 0 ELSE f[i - 1] + s[i].counted]
<1> USE DEF Countable
<1>1. H \in [(1 .. n) \X Nat -> Nat]
  OBVIOUS
<1>2. \A i \in 1 .. n, v \in Nat : H[<<i, v>>] = v + s[i].counted
  OBVIOUS
<1> HIDE DEF H
<1>3. PICK f \in [0 .. n -> Nat] : f[0] = 0 /\ Follows(f, n, H)
  BY <1>1, RecursionExists
<1>4. Is(f)
  <2>1. \A i \in 0 .. n : f[i] = IF i = 0 THEN 0 ELSE f[i - 1] + s[i].counted
    <3> SUFFICES ASSUME NEW i \in 0 .. n, i # 0 PROVE f[i] = f[i - 1] + s[i].counted
      BY <1>3
    <3>1. i \in 1 .. n /\ i - 1 \in 0 .. n
      OBVIOUS
    <3> QED
      BY <3>1, <1>2, <1>3 DEF Follows
  <2> QED
    BY <2>1
<1>5. Is(W!Counted(s))
  <2>1. W!Counted(s) = CHOOSE x : Is(x)
    BY DEF W!Counted
  <2> HIDE DEF Is
  <2> QED
    BY <1>4, <2>1
<1>6. ASSUME NEW i \in 0 .. n
      PROVE  W!Counted(s)[i] = IF i = 0 THEN 0 ELSE W!Counted(s)[i - 1] + s[i].counted
  BY <1>5
<1> DEFINE g == W!Counted(s)
           T == {m \in Nat : m <= n => g[m] \in Nat}
<1>7. DOMAIN g = 0 .. n /\ g = [i \in 0 .. n |-> g[i]]
  BY <1>5
<1>8. g[0] = 0 /\ \A i \in 1 .. n : g[i] = g[i - 1] + s[i].counted
  BY <1>6
<1> HIDE DEF g
<1>9. 0 \in T
  BY <1>8
<1>10. ASSUME NEW m \in Nat, m \in T PROVE m + 1 \in T
  <2> SUFFICES ASSUME m + 1 <= n PROVE g[m + 1] \in Nat
    OBVIOUS
  <2>1. m + 1 \in 1 .. n /\ m + 1 - 1 = m /\ g[m] \in Nat
    BY <1>10
  <2>2. g[m + 1] = g[m] + s[m + 1].counted
    BY <2>1, <1>8
  <2> QED
    BY <2>1, <2>2
<1>11. \A m \in 0 .. n : g[m] \in Nat
  <2> HIDE DEF T
  <2>1. Nat \subseteq T
    BY <1>9, <1>10, Induction
  <2> QED
    BY <2>1 DEF T
<1> QED
  BY <1>7, <1>8, <1>11 DEF g

LEMMA AddBoth ==
    ASSUME NEW p \in Nat, NEW q \in Nat, NEW u \in Nat, NEW v \in Nat, NEW w \in Nat,
           p - v = q - w
    PROVE  (p + u) - v = (q + u) - w
OBVIOUS

(* Two lists count the same bytes over l elements that count the same.       *)
Alike(a, b, x, y, l) ==
    /\ x + l <= Len(a) /\ y + l <= Len(b)
    /\ \A j \in 1 .. l : a[x + j].counted = b[y + j].counted

LEMMA CountedAlike ==
    ASSUME NEW a, NEW b, Countable(a), Countable(b),
           NEW x \in Nat, NEW y \in Nat, NEW l \in Nat, Alike(a, b, x, y, l)
    PROVE  W!Counted(a)[x + l] - W!Counted(a)[x] = W!Counted(b)[y + l] - W!Counted(b)[y]
<1> DEFINE f == W!Counted(a)
           g == W!Counted(b)
           T == {m \in Nat : m <= l => f[x + m] - f[x] = g[y + m] - g[y]}
<1>1. /\ Len(a) \in Nat /\ Len(b) \in Nat
      /\ x + l <= Len(a) /\ y + l <= Len(b)
      /\ \A j \in 1 .. l : a[x + j].counted = b[y + j].counted
  BY DEF Countable, Alike
<1>2. f \in [0 .. Len(a) -> Nat] /\ \A i \in 1 .. Len(a) : f[i] = f[i - 1] + a[i].counted
  BY CountedIs
<1>3. g \in [0 .. Len(b) -> Nat] /\ \A i \in 1 .. Len(b) : g[i] = g[i - 1] + b[i].counted
  BY CountedIs
<1> HIDE DEF f, g
<1>4. f[x] \in Nat /\ g[y] \in Nat
  <2>1. x \in 0 .. Len(a) /\ y \in 0 .. Len(b)
    BY <1>1
  <2> QED
    BY <2>1, <1>2, <1>3
<1>5. 0 \in T
  BY <1>4
<1>6. ASSUME NEW m \in Nat, m \in T PROVE m + 1 \in T
  <2> SUFFICES ASSUME m + 1 <= l PROVE f[x + (m + 1)] - f[x] = g[y + (m + 1)] - g[y]
    OBVIOUS
  <2>1. f[x + m] - f[x] = g[y + m] - g[y]
    BY <1>6
  <2>2. /\ x + (m + 1) \in 1 .. Len(a) /\ x + (m + 1) - 1 = x + m /\ x + m \in 0 .. Len(a)
        /\ y + (m + 1) \in 1 .. Len(b) /\ y + (m + 1) - 1 = y + m /\ y + m \in 0 .. Len(b)
        /\ m + 1 \in 1 .. l
    BY <1>1
  <2>3. a[x + (m + 1)].counted = b[y + (m + 1)].counted
    BY <2>2, <1>1
  <2>4. /\ f[x + (m + 1)] = f[x + m] + a[x + (m + 1)].counted
        /\ g[y + (m + 1)] = g[y + m] + b[y + (m + 1)].counted
    BY <2>2, <1>2, <1>3
  <2>5. /\ f[x + m] \in Nat /\ g[y + m] \in Nat
        /\ a[x + (m + 1)].counted \in Nat /\ b[y + (m + 1)].counted \in Nat
    BY <2>2, <1>2, <1>3 DEF Countable
  <2> DEFINE u == a[x + (m + 1)].counted
             p == f[x + m]
             q == g[y + m]
  <2>6. p - f[x] = q - g[y] /\ f[x + (m + 1)] = p + u /\ g[y + (m + 1)] = q + u
    BY <2>1, <2>3, <2>4
  <2>7. p \in Nat /\ q \in Nat /\ u \in Nat
    BY <2>5
  <2>8. (p + u) - f[x] = (q + u) - g[y]
    <3> HIDE DEF u, p, q
    <3>1. PICK v \in Nat, w \in Nat : v = f[x] /\ w = g[y]
      BY <1>4
    <3>2. p - v = q - w
      BY <2>6, <3>1
    <3>3. (p + u) - v = (q + u) - w
      BY <2>7, <3>2, AddBoth
    <3> QED
      BY <3>1, <3>3
  <2> QED
    BY <2>6, <2>8
<1>7. l \in T
  <2> HIDE DEF T
  <2>1. Nat \subseteq T
    BY <1>5, <1>6, Induction
  <2> QED
    BY <2>1
<1> QED
  BY <1>7 DEF f, g

(* Every image and every object is at one place of the list, and an object   *)
(* is that of its image.                                                     *)
Listed(s) ==
    /\ s \in Seq(Element)
    /\ \A i, j \in DOMAIN s : s[i].image = s[j].image \/ s[i].object = s[j].object => i = j
    /\ \A i \in DOMAIN s : s[i].object[1] = s[i].image

ObjectsOf(s) == {s[i].object : i \in DOMAIN s}

LEMMA ListedIs ==
    ASSUME NEW s, Listed(s)
    PROVE  /\ Len(s) \in Nat /\ DOMAIN s = 1 .. Len(s) /\ Countable(s)
           /\ \A i \in DOMAIN s : s[i] \in Element
           /\ W!Total(s) \in Nat
<1>1. Len(s) \in Nat /\ DOMAIN s = 1 .. Len(s) /\ \A i \in DOMAIN s : s[i] \in Element
  BY LenProperties, ElementOfSeq DEF Listed
<1>2. Countable(s)
  BY <1>1 DEF Countable, Element
<1>3. W!Counted(s) \in [0 .. Len(s) -> Nat] /\ Len(s) \in 0 .. Len(s)
  BY <1>1, <1>2, CountedIs
<1> QED
  BY <1>1, <1>2, <1>3 DEF W!Total

(* The front of a list, and what its rest counts. *)
LEMMA FrontListed ==
    ASSUME NEW s, Listed(s), NEW n \in 0 .. Len(s)
    PROVE  /\ Listed(SubSeq(s, 1, n)) /\ Len(SubSeq(s, 1, n)) = n
           /\ \A i \in DOMAIN SubSeq(s, 1, n) : i \in DOMAIN s /\ SubSeq(s, 1, n)[i] = s[i]
           /\ W!Total(s) - W!Total(SubSeq(s, n + 1, Len(s))) = W!Total(SubSeq(s, 1, n))
<1> DEFINE w == SubSeq(s, 1, n)
           r == SubSeq(s, n + 1, Len(s))
           m == Len(s) - n
<1>1. /\ Len(s) \in Nat /\ DOMAIN s = 1 .. Len(s) /\ \A i \in 1 .. Len(s) : s[i] \in Element
      /\ Countable(s) /\ s \in Seq(Element)
  BY ListedIs DEF Listed
<1> HIDE DEF Element
<1>2. w \in Seq(Element) /\ Len(w) = n /\ \A i \in 1 .. n : w[i] = s[i]
  BY <1>1, SubSeqProperties
<1>3. r \in Seq(Element) /\ Len(r) = m /\ \A i \in 1 .. m : r[i] = s[n + i]
  <2>1. Len(s) \in Int /\ n + 1 \in 1 .. Len(s) + 1 /\ n \in Nat
    BY <1>1
  <2>2. CASE n < Len(s)
    <3>1. \A i \in n + 1 .. Len(s) : s[i] \in Element
      BY <2>1, <1>1
    <3>2. /\ r \in Seq(Element)
          /\ Len(r) = IF n + 1 <= Len(s) THEN Len(s) - (n + 1) + 1 ELSE 0
          /\ \A i \in 1 .. Len(s) - (n + 1) + 1 : r[i] = s[(n + 1) + i - 1]
      BY <2>1, <3>1, SubSeqProperties
    <3> HIDE DEF r
    <3>3. /\ n + 1 <= Len(s) /\ Len(s) - (n + 1) + 1 = m
          /\ \A i \in 1 .. m : (n + 1) + i - 1 = n + i
      BY <2>1, <2>2
    <3> QED
      BY <3>2, <3>3
  <2>3. CASE n = Len(s)
    <3>1. r = <<>>
      BY <2>1, <2>3, <1>1
    <3> QED
      BY <3>1, <2>1, <2>3
  <2> QED
    BY <2>1, <2>2, <2>3
<1> HIDE DEF w, r
<1>4. DOMAIN w = 1 .. n /\ \A i \in DOMAIN w : i \in DOMAIN s /\ w[i] = s[i]
  <2>1. DOMAIN w = 1 .. n
    BY <1>2
  <2> QED
    BY <2>1, <1>1, <1>2
<1>5. Listed(w)
  BY <1>2, <1>4 DEF Listed
<1>6. Countable(w) /\ Countable(r) /\ m \in Nat /\ n + m = Len(s)
  <2>1. m \in Nat /\ n + m = Len(s)
    BY <1>1
  <2>2. \A i \in 1 .. m : n + i \in 1 .. Len(s)
    BY <1>1
  <2>3. \A i \in 1 .. m : r[i].counted \in Nat
    BY <2>2, <1>1, <1>3 DEF Countable
  <2> QED
    BY <2>1, <2>3, <1>3, <1>5, ListedIs DEF Countable
<1>7. W!Counted(w)[n] - W!Counted(w)[0] = W!Counted(s)[n] - W!Counted(s)[0]
  <2>1. Alike(w, s, 0, 0, n) /\ n \in Nat /\ 0 + n = n
    BY <1>1, <1>2 DEF Alike
  <2> HIDE DEF m
  <2>2. W!Counted(w)[0 + n] - W!Counted(w)[0] = W!Counted(s)[0 + n] - W!Counted(s)[0]
    BY <2>1, <1>1, <1>6, CountedAlike
  <2> QED
    BY <2>1, <2>2
<1>8. W!Counted(r)[m] - W!Counted(r)[0] = W!Counted(s)[Len(s)] - W!Counted(s)[n]
  <2> HIDE DEF m
  <2>1. Alike(r, s, 0, n, m) /\ 0 + m = m
    BY <1>1, <1>3, <1>6 DEF Alike
  <2>2. W!Counted(r)[0 + m] - W!Counted(r)[0] = W!Counted(s)[n + m] - W!Counted(s)[n]
    BY <2>1, <1>1, <1>6, CountedAlike
  <2> QED
    BY <2>1, <2>2, <1>6
<1>9. /\ W!Total(w) = W!Counted(w)[n] /\ W!Total(r) = W!Counted(r)[m]
      /\ W!Total(s) = W!Counted(s)[Len(s)]
  BY <1>2, <1>3 DEF W!Total
<1>10. /\ W!Counted(w)[0] = 0 /\ W!Counted(r)[0] = 0 /\ W!Counted(s)[0] = 0
       /\ W!Counted(w)[n] \in Nat /\ W!Counted(r)[m] \in Nat
       /\ W!Counted(s)[n] \in Nat /\ W!Counted(s)[Len(s)] \in Nat
  <2>1. W!Counted(w) \in [0 .. n -> Nat] /\ W!Counted(w)[0] = 0 /\ n \in 0 .. n
    BY <1>2, <1>6, CountedIs
  <2>2. W!Counted(r) \in [0 .. m -> Nat] /\ W!Counted(r)[0] = 0 /\ m \in 0 .. m
    BY <1>3, <1>6, CountedIs
  <2>3. W!Counted(s) \in [0 .. Len(s) -> Nat] /\ W!Counted(s)[0] = 0 /\ Len(s) \in 0 .. Len(s)
    BY <1>1, CountedIs
  <2> QED
    BY <2>1, <2>2, <2>3
<1>11. W!Total(s) - W!Total(r) = W!Total(w)
  <2> HIDE DEF m
  <2> QED
    BY <1>7, <1>8, <1>9, <1>10
<1> QED
  BY <1>2, <1>4, <1>5, <1>11 DEF w, r

LEMMA RemovedIs == \A s, n : W!RemoveAt(s, n) = RemoveAt(s, n)
BY DEF W!RemoveAt, RemoveAt

LEMMA TakeBoth ==
    ASSUME NEW p \in Nat, NEW q \in Nat, NEW u \in Nat, NEW v \in Nat, p - q = v - (q + u)
    PROVE  p + u = v
OBVIOUS

(* The list without the image that is used. *)
LEMMA OthersListed ==
    ASSUME Listed(wlru), NEW img, img \in W!Cached
    PROVE  /\ Listed(W!Others(img))
           /\ W!Place(img) \in DOMAIN wlru /\ wlru[W!Place(img)].image = img
           /\ W!Total(W!Others(img)) + W!Entry(img).counted = W!Total(wlru)
           /\ \A i \in DOMAIN W!Others(img) : \E j \in DOMAIN wlru :
                 j # W!Place(img) /\ W!Others(img)[i] = wlru[j]
<1> DEFINE n == Len(wlru)
           k == W!Place(img)
           w == W!Others(img)
           from(i) == IF i < k THEN i ELSE i + 1
<1>1. /\ n \in Nat /\ DOMAIN wlru = 1 .. n /\ \A i \in 1 .. n : wlru[i] \in Element
      /\ Countable(wlru) /\ wlru \in Seq(Element)
  BY ListedIs DEF Listed
<1>2. k \in DOMAIN wlru /\ wlru[k].image = img
  BY DEF W!Cached, W!Place
<1>3. w = RemoveAt(wlru, k)
  BY RemovedIs DEF W!Others
<1> HIDE DEF Element, k, w
<1>4. /\ w \in Seq(Element) /\ Len(w) = n - 1 /\ DOMAIN w = 1 .. n - 1
      /\ \A i \in 1 .. n - 1 : w[i] = wlru[from(i)]
  <2>1. k \in 1 .. Len(wlru)
    BY <1>1, <1>2
  <2>2. /\ w \in Seq(Element) /\ Len(w) = n - 1
        /\ \A i \in 1 .. n - 1 : w[i] = wlru[from(i)]
    BY <2>1, <1>1, <1>3, RemoveAtIs
  <2> QED
    BY <2>2, LenProperties
<1>5. \A i \in DOMAIN w : from(i) \in DOMAIN wlru /\ from(i) # k /\ w[i] = wlru[from(i)]
  BY <1>1, <1>2, <1>4
<1>6. Listed(w)
  <2>1. \A i, j \in DOMAIN w : from(i) = from(j) => i = j
    BY <1>1, <1>2, <1>4
  <2>2. \A i \in DOMAIN w : w[i].object[1] = w[i].image
    BY <1>5 DEF Listed
  <2> HIDE DEF from
  <2>3. \A i, j \in DOMAIN w : w[i].image = w[j].image \/ w[i].object = w[j].object => i = j
    BY <2>1, <1>5 DEF Listed
  <2> QED
    BY <2>2, <2>3, <1>4 DEF Listed
<1>7. Countable(w)
  BY <1>6, ListedIs
<1> DEFINE f == W!Counted(wlru)
           g == W!Counted(w)
<1>8. f \in [0 .. n -> Nat] /\ f[0] = 0 /\ \A i \in 1 .. n : f[i] = f[i - 1] + wlru[i].counted
  BY <1>1, CountedIs
<1>9. g \in [0 .. n - 1 -> Nat] /\ g[0] = 0
  BY <1>4, <1>7, CountedIs
<1>10. /\ k \in 1 .. n /\ k - 1 \in Nat /\ n - k \in Nat /\ k \in Nat /\ n \in Nat
       /\ 0 + (k - 1) = k - 1 /\ (k - 1) + (n - k) = n - 1 /\ k + (n - k) = n
  BY <1>1, <1>2
<1>11. g[k - 1] - g[0] = f[k - 1] - f[0]
  <2>1. Alike(w, wlru, 0, 0, k - 1)
    <3>1. \A j \in 1 .. k - 1 : w[0 + j] = wlru[0 + j]
      BY <1>1, <1>2, <1>4
    <3> QED
      BY <3>1, <1>4, <1>10 DEF Alike
  <2>2. g[0 + (k - 1)] - g[0] = f[0 + (k - 1)] - f[0]
    BY <2>1, <1>1, <1>7, <1>10, CountedAlike
  <2> QED
    BY <2>2, <1>10
<1>12. g[n - 1] - g[k - 1] = f[n] - f[k]
  <2>1. Alike(w, wlru, k - 1, k, n - k)
    <3>1. \A j \in 1 .. n - k : w[(k - 1) + j] = wlru[k + j]
      <4> SUFFICES ASSUME NEW j \in 1 .. n - k PROVE w[(k - 1) + j] = wlru[k + j]
        OBVIOUS
      <4>1. (k - 1) + j \in 1 .. n - 1 /\ from((k - 1) + j) = k + j
        BY <1>10
      <4> QED
        BY <4>1, <1>4
    <3> QED
      BY <3>1, <1>4, <1>10 DEF Alike
  <2>2. g[(k - 1) + (n - k)] - g[k - 1] = f[k + (n - k)] - f[k]
    BY <2>1, <1>1, <1>7, <1>10, CountedAlike
  <2> QED
    BY <2>2, <1>10
<1> HIDE DEF f, g
<1>13. f[k] = f[k - 1] + wlru[k].counted
  BY <1>8, <1>10
<1>14. /\ f[k] \in Nat /\ f[k - 1] \in Nat /\ f[n] \in Nat /\ g[k - 1] \in Nat /\ g[n - 1] \in Nat
       /\ wlru[k].counted \in Nat
  <2>1. /\ k \in 0 .. n /\ k - 1 \in 0 .. n /\ n \in 0 .. n
        /\ k - 1 \in 0 .. n - 1 /\ n - 1 \in 0 .. n - 1
    BY <1>10
  <2>2. wlru[k].counted \in Nat
    BY <1>1, <1>10 DEF Countable
  <2> QED
    BY <2>1, <2>2, <1>8, <1>9
<1>15. g[n - 1] + wlru[k].counted = f[n]
  <2>1. g[k - 1] = f[k - 1]
    BY <1>8, <1>9, <1>11, <1>14
  <2> QED
    <3>1. g[n - 1] - f[k - 1] = f[n] - (f[k - 1] + wlru[k].counted)
      BY <2>1, <1>12, <1>13
    <3> QED
      BY <3>1, <1>14, TakeBoth
<1>16. W!Total(w) = g[n - 1] /\ W!Total(wlru) = f[n] /\ W!Entry(img) = wlru[k]
  BY <1>4 DEF W!Total, W!Entry, f, g, k
<1>17. W!Total(w) + W!Entry(img).counted = W!Total(wlru)
  BY <1>15, <1>16
<1> HIDE DEF from
<1> QED
  BY <1>2, <1>5, <1>6, <1>17 DEF k, w

(* An element put at the front. *)
LEMMA PutListed ==
    ASSUME NEW s, Listed(s), NEW e \in Element, e.object[1] = e.image,
           \A i \in DOMAIN s : s[i].image # e.image
    PROVE  /\ Listed(<<e>> \o s)
           /\ W!Total(<<e>> \o s) = e.counted + W!Total(s)
           /\ \A i \in DOMAIN (<<e>> \o s) :
                 (<<e>> \o s)[i] = e \/ \E j \in DOMAIN s : (<<e>> \o s)[i] = s[j]
<1> DEFINE p == <<e>> \o s
           n == Len(s)
<1>1. /\ n \in Nat /\ DOMAIN s = 1 .. n /\ \A i \in 1 .. n : s[i] \in Element
      /\ Countable(s) /\ s \in Seq(Element)
  BY ListedIs DEF Listed
<1>2. e.counted \in Nat
  BY DEF Element
<1>3. \A i \in DOMAIN s : s[i].object # e.object
  BY DEF Listed
<1> HIDE DEF Element
<1>4. /\ p \in Seq(Element) /\ Len(p) = n + 1
      /\ p[1] = e /\ \A i \in 1 .. n : p[1 + i] = s[i]
      /\ \A i \in 2 .. n + 1 : i - 1 \in DOMAIN s /\ p[i] = s[i - 1]
  BY <1>1
<1>5. DOMAIN p = 1 .. n + 1
  BY <1>1, <1>4
<1> HIDE DEF p
<1>6. \A i \in DOMAIN p : i = 1 \/ i \in 2 .. n + 1
  BY <1>1, <1>5
<1>7. Listed(p)
  <2>1. \A i \in DOMAIN p : p[i].object[1] = p[i].image
    BY <1>4, <1>6 DEF Listed
  <2>2. ASSUME NEW i \in DOMAIN p, NEW j \in DOMAIN p,
               p[i].image = p[j].image \/ p[i].object = p[j].object
        PROVE  i = j
    <3>1. CASE i = 1 /\ j = 1
      BY <3>1
    <3>2. CASE i = 1 /\ j \in 2 .. n + 1
      BY <3>2, <2>2, <1>3, <1>4
    <3>3. CASE i \in 2 .. n + 1 /\ j = 1
      BY <3>3, <2>2, <1>3, <1>4
    <3>4. CASE i \in 2 .. n + 1 /\ j \in 2 .. n + 1
      <4>1. i - 1 = j - 1
        BY <3>4, <2>2, <1>4 DEF Listed
      <4> QED
        BY <4>1, <3>4, <1>1
    <3> QED
      BY <3>1, <3>2, <3>3, <3>4, <1>6
  <2> QED
    BY <2>1, <2>2, <1>4 DEF Listed
<1>8. Countable(p)
  BY <1>7, ListedIs
<1>9. W!Counted(p)[1 + n] - W!Counted(p)[1] = W!Counted(s)[0 + n] - W!Counted(s)[0]
  <2>1. Alike(p, s, 1, 0, n)
    BY <1>1, <1>4 DEF Alike
  <2> QED
    BY <2>1, <1>1, <1>8, CountedAlike
<1>10. /\ W!Counted(p) \in [0 .. n + 1 -> Nat] /\ W!Counted(p)[1] = e.counted
       /\ 1 + n \in 0 .. n + 1
  <2>1. /\ W!Counted(p) \in [0 .. n + 1 -> Nat] /\ W!Counted(p)[0] = 0
        /\ \A i \in 1 .. n + 1 : W!Counted(p)[i] = W!Counted(p)[i - 1] + p[i].counted
    BY <1>4, <1>8, CountedIs
  <2>2. 1 \in 1 .. n + 1 /\ 1 - 1 = 0 /\ 1 + n \in 0 .. n + 1
    BY <1>1
  <2>3. W!Counted(p)[1] = W!Counted(p)[1 - 1] + p[1].counted
    BY <2>1, <2>2
  <2> QED
    BY <2>1, <2>2, <2>3, <1>2, <1>4
<1>11. W!Counted(s) \in [0 .. n -> Nat] /\ W!Counted(s)[0] = 0 /\ n \in 0 .. n /\ 0 + n = n
  BY <1>1, CountedIs
<1>12. W!Total(p) = W!Counted(p)[1 + n] /\ W!Total(s) = W!Counted(s)[0 + n]
  BY <1>1, <1>4 DEF W!Total
<1>13. W!Total(p) = e.counted + W!Total(s)
  BY <1>2, <1>9, <1>10, <1>11, <1>12
<1> QED
  BY <1>4, <1>6, <1>7, <1>13 DEF p

(* What is left of a list that is shrunk counts what the cache counts. *)
LEMMA ShrunkListed ==
    ASSUME NEW s, Listed(s), W!Shrink(s, W!Total(s))
    PROVE  /\ Listed(wlru') /\ numBytes' = W!Total(wlru')
           /\ \A i \in DOMAIN wlru' : \E j \in DOMAIN s : wlru'[i] = s[j]
<1> DEFINE left(i) == W!Total(s) - W!PoppedBytes(SubSeq(s, i + 1, Len(s)))
           fits(i) == W!Fits(left(i), s, SubSeq(s, 1, i))
           best(i) == fits(i) /\ \A j \in i + 1 .. Len(s) : ~fits(j)
           n == CHOOSE i \in 0 .. Len(s) : best(i)
<1>1. Len(s) \in Nat /\ DOMAIN s = 1 .. Len(s) /\ W!Total(s) \in Nat
  BY ListedIs
<1>2. wlru' = SubSeq(s, 1, n) /\ numBytes' = left(n)
  BY DEF W!Shrink
<1>3. \E i \in 0 .. Len(s) : best(i)
  <2>1. fits(0)
    <3>1. Len(SubSeq(s, 1, 0)) = 0
      BY <1>1
    <3> QED
      BY <3>1 DEF W!Fits
  <2> HIDE DEF fits
  <2> DEFINE T == {Len(s) - i : i \in {i \in 0 .. Len(s) : fits(i)}}
  <2>2. T \in SUBSET Nat /\ Len(s) - 0 \in T
    <3>1. \A i \in 0 .. Len(s) : Len(s) - i \in Nat
      BY <1>1
    <3>2. 0 \in 0 .. Len(s)
      BY <1>1
    <3> QED
      BY <2>1, <3>1, <3>2
  <2>3. PICK x \in T : \A y \in T : x <= y
    BY <2>2, Least
  <2>4. PICK i \in 0 .. Len(s) : fits(i) /\ x = Len(s) - i
    BY <2>3
  <2>5. ASSUME NEW j \in i + 1 .. Len(s), fits(j) PROVE FALSE
    <3>1. j \in 0 .. Len(s) /\ i \in Int /\ Len(s) \in Int
      BY <1>1
    <3>2. Len(s) - j \in T
      BY <3>1, <2>5
    <3>3. Len(s) - i <= Len(s) - j
      BY <3>2, <2>3, <2>4
    <3> QED
      BY <3>1, <3>3
  <2> QED
    BY <2>4, <2>5
<1> HIDE DEF best, fits
<1>4. n \in 0 .. Len(s)
  BY <1>3
<1> HIDE DEF n
<1>5. /\ Listed(wlru')
      /\ \A i \in DOMAIN wlru' : i \in DOMAIN s /\ wlru'[i] = s[i]
      /\ W!Total(s) - W!Total(SubSeq(s, n + 1, Len(s))) = W!Total(wlru')
  BY <1>2, <1>4, FrontListed
<1>6. numBytes' = W!Total(wlru')
  BY <1>2, <1>5 DEF W!PoppedBytes
<1> QED
  BY <1>5, <1>6

-----------------------------------------------------------------------------
HeapEntry == [bytes : Nat, parts : SUBSET Parts]
Use == [image : Images, part : Parts, object : W!Objects]
Results == {{}} \cup {{o} : o \in W!Objects}

(* The objects that threads hold, and those that are being loaded into. *)
HeldObjects == {wuses[t].object : t \in {t \in Accessors : wpc[t] # "idle"}}
Loading(o) == \E t \in Accessors : wpc[t] = "update" /\ wuses[t].object = o

UsesRight ==
    /\ wuses \in [Accessors -> Use \cup {<<>>}]
    /\ wpc \in [Accessors -> {"idle", "got", "update"}]
    /\ \A t \in Accessors : wpc[t] # "idle" =>
          wuses[t] \in Use /\ wuses[t].object[1] = wuses[t].image

ResultsRight == ref \in [Accessors -> Results] /\ gone \subseteq Accessors

BytesRight == \A i \in DOMAIN wlru :
    ~Loading(wlru[i].object) => wlru[i].counted = heap[wlru[i].object].bytes

WInv ==
    /\ Listed(wlru) /\ numBytes = W!Total(wlru)
    /\ heap \in [W!Owned -> HeapEntry]
    /\ UsesRight /\ ResultsRight /\ BytesRight

LEMMA OwnedAre == W!Owned = ObjectsOf(wlru) \cup HeldObjects
BY DEF W!Owned, ObjectsOf, HeldObjects

LEMMA OwnedWillBe == W!Owned' = ObjectsOf(wlru') \cup HeldObjects'
BY DEF W!Owned, ObjectsOf, HeldObjects

(* The bound on the objects of an image leaves one free, when a thread that  *)
(* holds none asks for an image that is not cached.                          *)
LEMMA FreshIs ==
    ASSUME W!GenerationsAssumption, WInv, NEW t \in Accessors, wpc[t] = "idle",
           NEW img \in Images, img \notin W!Cached
    PROVE  W!Fresh(img) \in {img} \X Generations /\ W!Fresh(img) \notin W!Owned
<1> DEFINE R == Accessors \ {t}
           f == [s \in R |-> wuses[s].object[2]]
           T == {f[s] : s \in R}
<1>1. IsFiniteSet(Accessors) /\ Cardinality(Accessors) \in Nat
  <2>1. IsFiniteSet(Accessors)
    BY DEF W!GenerationsAssumption, W!IsFiniteSet, IsFiniteSet
  <2> QED
    BY <2>1, FS_CardinalityType
<1>2. IsFiniteSet(R) /\ Cardinality(R) = Cardinality(Accessors) - 1
  BY <1>1, FS_RemoveElement
<1>3. IsFiniteSet(T) /\ Cardinality(T) <= Cardinality(R)
  <2>1. f \in Surjection(R, T)
    BY DEF Surjection
  <2> QED
    BY <2>1, <1>2, FS_Surjection
<1>4. ~(Generations \subseteq T)
  <2> SUFFICES ASSUME Generations \subseteq T PROVE FALSE
    OBVIOUS
  <2>1. IsFiniteSet(Generations) /\ Cardinality(Generations) <= Cardinality(T)
    BY <1>3, FS_Subset
  <2>2. Cardinality(Generations) \in Nat /\ Cardinality(T) \in Nat
    BY <2>1, <1>3, FS_CardinalityType
  <2>3. Cardinality(Generations) >= Cardinality(Accessors)
    <3>1. W!Cardinality(Generations) = Cardinality(Generations)
      BY DEF W!Cardinality, Cardinality
    <3>2. W!Cardinality(Accessors) = Cardinality(Accessors)
      BY DEF W!Cardinality, Cardinality
    <3> QED
      BY <3>1, <3>2 DEF W!GenerationsAssumption
  <2> QED
    BY <1>1, <1>2, <1>3, <2>1, <2>2, <2>3
<1>5. PICK g \in Generations : g \notin T
  BY <1>4
<1>6. <<img, g>> \notin ObjectsOf(wlru)
  BY DEF ObjectsOf, W!Cached, WInv, Listed
<1>7. <<img, g>> \notin HeldObjects
  <2> SUFFICES ASSUME NEW s \in Accessors, wpc[s] # "idle", wuses[s].object = <<img, g>>
               PROVE  FALSE
    BY DEF HeldObjects
  <2>1. s \in R /\ f[s] = g
    OBVIOUS
  <2> QED
    BY <2>1, <1>5
<1>8. <<img, g>> \in {img} \X Generations /\ <<img, g>> \notin W!Owned
  BY <1>5, <1>6, <1>7, OwnedAre
<1> QED
  BY <1>8 DEF W!Fresh

(* A step that collects: what stays on the heap keeps its bytes, and a list  *)
(* whose elements are those of s counts them when s does.                    *)
LEMMA CollectKeeps ==
    ASSUME WInv, NEW t \in Accessors, NEW s, Listed(wlru'), numBytes' = W!Total(wlru'),
           \A i \in DOMAIN wlru' : \E j \in DOMAIN s : wlru'[i] = s[j],
           UsesRight', NEW h, NEW results \in [Accessors -> Results],
           W!Collect(h, results, t),
           \A o \in W!Owned' : h[o] \in HeapEntry,
           \A j \in DOMAIN s : Loading(s[j].object)' \/ s[j].counted = h[s[j].object].bytes
    PROVE  WInv'
<1>1. /\ heap' = [o \in W!Owned' |-> h[o]]
      /\ ref' = [r \in Accessors |-> results[r] \cap W!Owned']
      /\ gone' = (gone \ {t}) \cup {r \in Accessors : ~(results[r] \subseteq W!Owned')}
  BY DEF W!Collect, W!Restrict
<1>2. heap' \in [W!Owned' -> HeapEntry]
  BY <1>1
<1>3. ResultsRight'
  <2>1. \A r \in Accessors : results[r] \cap W!Owned' \in Results
    BY DEF Results
  <2>2. gone \subseteq Accessors
    BY DEF WInv, ResultsRight
  <2> QED
    BY <2>1, <2>2, <1>1 DEF ResultsRight
<1>4. BytesRight'
  <2> SUFFICES ASSUME NEW i \in DOMAIN wlru', ~Loading(wlru[i].object)'
               PROVE  wlru'[i].counted = heap'[wlru'[i].object].bytes
    BY DEF BytesRight
  <2>1. PICK j \in DOMAIN s : wlru'[i] = s[j]
    OBVIOUS
  <2>2. ~Loading(s[j].object)'
    BY <2>1 DEF Loading
  <2>3. wlru'[i].object \in W!Owned'
    BY OwnedWillBe DEF ObjectsOf
  <2>4. heap'[wlru'[i].object] = h[wlru'[i].object]
    BY <1>1, <2>3
  <2> QED
    BY <2>1, <2>2, <2>4
<1> QED
  BY <1>2, <1>3, <1>4 DEF WInv

LEMMA UsesAfter ==
    ASSUME WInv, NEW t \in Accessors, wpc[t] = "idle", NEW img \in Images, NEW p \in Parts,
           NEW o \in W!Objects, o[1] = img, W!Uses(t, img, p, o)
    PROVE  /\ UsesRight' /\ HeldObjects' \subseteq HeldObjects \cup {o}
           /\ \A x : Loading(x)' <=> Loading(x)
<1> DEFINE u == [image |-> img, part |-> p, object |-> o]
<1>1. /\ wuses' = [wuses EXCEPT ![t] = u] /\ wpc' = [wpc EXCEPT ![t] = "got"]
      /\ u \in Use /\ u.object = o /\ u.image = img
  BY DEF W!Uses, Use
<1> HIDE DEF u
<1>2. UsesRight
  BY DEF WInv
<1>3. /\ wuses'[t] = u /\ wpc'[t] = "got"
      /\ \A s \in Accessors : s # t => wuses'[s] = wuses[s] /\ wpc'[s] = wpc[s]
  BY <1>1, <1>2 DEF UsesRight
<1>4. UsesRight'
  BY <1>1, <1>2, <1>3 DEF UsesRight
<1>5. HeldObjects' \subseteq HeldObjects \cup {o}
  BY <1>1, <1>3 DEF HeldObjects
<1>6. ASSUME NEW x PROVE Loading(x)' <=> Loading(x)
  BY <1>3 DEF Loading
<1> QED
  BY <1>4, <1>5, <1>6

LEMMA ReturnAfter ==
    ASSUME WInv, NEW t \in Accessors,
           wuses' = [wuses EXCEPT ![t] = <<>>], wpc' = [wpc EXCEPT ![t] = "idle"]
    PROVE  /\ UsesRight' /\ HeldObjects' \subseteq HeldObjects
           /\ \A x : Loading(x)' => Loading(x)
           /\ \A x : Loading(x) /\ ~(wpc[t] = "update" /\ wuses[t].object = x) => Loading(x)'
<1>1. UsesRight
  BY DEF WInv
<1>2. /\ wuses'[t] = <<>> /\ wpc'[t] = "idle"
      /\ \A s \in Accessors : s # t => wuses'[s] = wuses[s] /\ wpc'[s] = wpc[s]
  BY <1>1 DEF UsesRight
<1>3. UsesRight'
  BY <1>1, <1>2 DEF UsesRight
<1>4. HeldObjects' \subseteq HeldObjects
  BY <1>2 DEF HeldObjects
<1>5. ASSUME NEW x PROVE /\ Loading(x)' => Loading(x)
                         /\ Loading(x) /\ ~(wpc[t] = "update" /\ wuses[t].object = x) => Loading(x)'
  BY <1>2 DEF Loading
<1> QED
  BY <1>3, <1>4, <1>5

LEMMA EntryIs ==
    ASSUME WInv, NEW img, img \in W!Cached
    PROVE  /\ W!Entry(img) \in Element /\ W!Entry(img).image = img
           /\ W!Entry(img).object[1] = img /\ W!Entry(img).object \in ObjectsOf(wlru)
           /\ W!Entry(img).object \in W!Owned
<1>1. W!Place(img) \in DOMAIN wlru /\ wlru[W!Place(img)].image = img
  BY OthersListed DEF WInv
<1>2. W!Entry(img) = wlru[W!Place(img)]
  BY DEF W!Entry
<1> QED
  BY <1>1, <1>2, ListedIs, OwnedAre DEF WInv, Listed, ObjectsOf

(* Get() of an image that is cached, and of one that is not. *)
LEMMA GetFoundKeeps ==
    ASSUME WInv, NEW t \in Accessors, NEW img \in Images, NEW p \in Parts, W!GetFound(t, img, p)
    PROVE  WInv'
<1> DEFINE e == W!Entry(img)
<1>1. /\ wpc[t] = "idle" /\ img \in W!Cached /\ wlru' = <<e>> \o W!Others(img)
      /\ W!Uses(t, img, p, e.object) /\ numBytes' = numBytes
      /\ W!Collect(heap, [ref EXCEPT ![t] = {}], t)
  BY DEF W!GetFound
<1>2. /\ e \in Element /\ e.image = img /\ e.object[1] = img /\ e.object \in ObjectsOf(wlru)
      /\ e = wlru[W!Place(img)]
  BY <1>1, EntryIs DEF W!Entry
<1>3. /\ Listed(W!Others(img)) /\ W!Place(img) \in DOMAIN wlru
      /\ W!Total(W!Others(img)) + e.counted = W!Total(wlru)
      /\ \A i \in DOMAIN W!Others(img) : \E j \in DOMAIN wlru :
            j # W!Place(img) /\ W!Others(img)[i] = wlru[j]
  BY <1>1, OthersListed DEF WInv
<1> HIDE DEF e
<1>4. \A i \in DOMAIN W!Others(img) : W!Others(img)[i].image # e.image
  BY <1>2, <1>3 DEF WInv, Listed
<1>5. /\ Listed(wlru') /\ W!Total(wlru') = e.counted + W!Total(W!Others(img))
      /\ \A i \in DOMAIN wlru' : \/ wlru'[i] = e
                                 \/ \E j \in DOMAIN W!Others(img) : wlru'[i] = W!Others(img)[j]
  BY <1>1, <1>2, <1>3, <1>4, PutListed
<1>6. \A i \in DOMAIN wlru' : \E j \in DOMAIN wlru : wlru'[i] = wlru[j]
  BY <1>2, <1>3, <1>5
<1>7. numBytes' = W!Total(wlru')
  <2>1. e.counted \in Nat /\ W!Total(W!Others(img)) \in Nat
    BY <1>2, <1>3, ListedIs DEF Element
  <2> QED
    BY <2>1, <1>1, <1>3, <1>5 DEF WInv
<1>8. /\ UsesRight' /\ HeldObjects' \subseteq HeldObjects \cup {e.object}
      /\ \A x : Loading(x)' <=> Loading(x)
  <2>1. e.object \in W!Objects
    BY <1>2 DEF Element
  <2> QED
    BY <2>1, <1>1, <1>2, UsesAfter
<1>9. W!Owned' \subseteq W!Owned
  <2>1. ObjectsOf(wlru') \subseteq ObjectsOf(wlru)
    BY <1>6 DEF ObjectsOf
  <2> QED
    BY <2>1, <1>2, <1>8, OwnedAre, OwnedWillBe
<1>10. PICK s, h, results : s = wlru /\ h = heap /\ results = [ref EXCEPT ![t] = {}]
  OBVIOUS
<1>11. results \in [Accessors -> Results] /\ W!Collect(h, results, t)
  BY <1>1, <1>10 DEF WInv, ResultsRight, Results
<1>12. \A o \in W!Owned' : h[o] \in HeapEntry
  BY <1>9, <1>10 DEF WInv
<1>13. \A j \in DOMAIN s : Loading(s[j].object)' \/ s[j].counted = h[s[j].object].bytes
  BY <1>8, <1>10 DEF WInv, BytesRight
<1>14. \A i \in DOMAIN wlru' : \E j \in DOMAIN s : wlru'[i] = s[j]
  BY <1>6, <1>10
<1> QED
  BY <1>5, <1>7, <1>8, <1>11, <1>12, <1>13, <1>14, CollectKeeps

LEMMA GetMissingKeeps ==
    ASSUME W!GenerationsAssumption, WInv, NEW t \in Accessors, NEW img \in Images,
           NEW p \in Parts, W!GetMissing(t, img, p)
    PROVE  WInv'
<1> DEFINE o == W!Fresh(img)
           e == [image |-> img, object |-> o, counted |-> 0]
           q == <<e>> \o wlru
           g == [x \in W!Owned \cup {o} |->
                    IF x = o THEN [bytes |-> 0, parts |-> {}] ELSE heap[x]]
<1>1. /\ wpc[t] = "idle" /\ img \notin W!Cached /\ W!Shrink(q, numBytes)
      /\ W!Uses(t, img, p, o) /\ W!Collect(g, [ref EXCEPT ![t] = {}], t)
  BY DEF W!GetMissing
<1>2. o \in {img} \X Generations /\ o \notin W!Owned
  BY <1>1, FreshIs
<1>3. o \in W!Objects /\ o[1] = img
  BY <1>2 DEF W!Objects
<1> HIDE DEF o
<1>4. e \in Element /\ e.image = img /\ e.object = o /\ e.counted = 0
  BY <1>3 DEF Element
<1> HIDE DEF e
<1>5. /\ Listed(q) /\ W!Total(q) = e.counted + W!Total(wlru)
      /\ \A i \in DOMAIN q : q[i] = e \/ \E j \in DOMAIN wlru : q[i] = wlru[j]
  <2>1. \A i \in DOMAIN wlru : wlru[i].image # e.image
    BY <1>1, <1>4 DEF W!Cached
  <2> QED
    BY <2>1, <1>3, <1>4, PutListed DEF WInv
<1> HIDE DEF q
<1>6. W!Total(q) = numBytes
  <2>1. W!Total(wlru) \in Nat
    BY ListedIs DEF WInv
  <2> QED
    BY <2>1, <1>4, <1>5 DEF WInv
<1>7. PICK s, h, results : s = q /\ h = g /\ results = [ref EXCEPT ![t] = {}]
  OBVIOUS
<1>8. /\ Listed(wlru') /\ numBytes' = W!Total(wlru')
      /\ \A i \in DOMAIN wlru' : \E j \in DOMAIN s : wlru'[i] = s[j]
  BY <1>1, <1>5, <1>6, <1>7, ShrunkListed
<1>9. /\ UsesRight' /\ HeldObjects' \subseteq HeldObjects \cup {o}
      /\ \A x : Loading(x)' <=> Loading(x)
  BY <1>1, <1>3, UsesAfter
<1>10. W!Owned' \subseteq W!Owned \cup {o}
  <2>1. ObjectsOf(wlru') \subseteq ObjectsOf(wlru) \cup {o}
    BY <1>4, <1>5, <1>7, <1>8 DEF ObjectsOf
  <2> QED
    BY <2>1, <1>9, OwnedAre, OwnedWillBe
<1>11. /\ h[o] = [bytes |-> 0, parts |-> {}] /\ \A x \in W!Owned : h[x] = heap[x]
  BY <1>2, <1>7
<1> HIDE DEF g
<1>12. results \in [Accessors -> Results] /\ W!Collect(h, results, t)
  BY <1>1, <1>7 DEF WInv, ResultsRight, Results
<1>13. \A x \in W!Owned' : h[x] \in HeapEntry
  <2>1. h[o] \in HeapEntry
    BY <1>11 DEF HeapEntry
  <2>2. \A x \in W!Owned : heap[x] \in HeapEntry
    BY DEF WInv
  <2> QED
    BY <2>1, <2>2, <1>10, <1>11
<1>14. ASSUME NEW j \in DOMAIN s
       PROVE  Loading(s[j].object)' \/ s[j].counted = h[s[j].object].bytes
  <2>1. CASE s[j] = e
    BY <2>1, <1>4, <1>11
  <2>2. CASE \E i \in DOMAIN wlru : s[j] = wlru[i]
    <3>1. PICK i \in DOMAIN wlru : s[j] = wlru[i]
      BY <2>2
    <3>2. wlru[i].object \in W!Owned
      BY OwnedAre DEF ObjectsOf
    <3>3. Loading(wlru[i].object) \/ wlru[i].counted = heap[wlru[i].object].bytes
      BY DEF WInv, BytesRight
    <3> QED
      BY <3>1, <3>2, <3>3, <1>9, <1>11
  <2> QED
    BY <2>1, <2>2, <1>5, <1>7
<1> QED
  BY <1>8, <1>9, <1>12, <1>13, <1>14, CollectKeeps

(* Loading into the object, and returning with what it has. *)
LEMMA HeldIs ==
    ASSUME WInv, NEW t \in Accessors, wpc[t] # "idle"
    PROVE  /\ wuses[t] \in Use /\ wuses[t].object \in W!Objects /\ wuses[t].part \in Parts
           /\ wuses[t].object[1] = wuses[t].image
           /\ wuses[t].object \in W!Owned /\ heap[wuses[t].object] \in HeapEntry
<1>1. wuses[t] \in Use /\ wuses[t].object[1] = wuses[t].image
  BY DEF WInv, UsesRight
<1>2. wuses[t].object \in W!Owned
  BY OwnedAre DEF HeldObjects
<1>3. heap[wuses[t].object] \in HeapEntry
  BY <1>2 DEF WInv
<1> QED
  BY <1>1, <1>2, <1>3 DEF Use

LEMMA StayKeeps ==
    ASSUME WInv, NEW t \in Accessors, wpc[t] = "got", wlru' = wlru, numBytes' = numBytes,
           NEW r \in Results, NEW h, W!Return(t, h, r),
           \A o \in W!Owned : h[o] \in HeapEntry /\ h[o].bytes = heap[o].bytes
    PROVE  WInv'
<1>1. /\ wuses' = [wuses EXCEPT ![t] = <<>>] /\ wpc' = [wpc EXCEPT ![t] = "idle"]
      /\ W!Collect(h, [ref EXCEPT ![t] = r], t)
  BY DEF W!Return, W!NoUse
<1>2. /\ UsesRight' /\ HeldObjects' \subseteq HeldObjects
      /\ \A x : Loading(x) => Loading(x)'
  BY <1>1, ReturnAfter
<1>3. W!Owned' \subseteq W!Owned
  BY <1>2, OwnedAre, OwnedWillBe
<1>4. PICK s, results : s = wlru /\ results = [ref EXCEPT ![t] = r]
  OBVIOUS
<1>5. results \in [Accessors -> Results] /\ W!Collect(h, results, t)
  BY <1>1, <1>4 DEF WInv, ResultsRight
<1>6. \A o \in W!Owned' : h[o] \in HeapEntry
  BY <1>3
<1>7. ASSUME NEW j \in DOMAIN s
      PROVE  Loading(s[j].object)' \/ s[j].counted = h[s[j].object].bytes
  <2>1. s[j].object \in W!Owned
    BY <1>4, OwnedAre DEF ObjectsOf
  <2>2. Loading(s[j].object) \/ s[j].counted = heap[s[j].object].bytes
    BY <1>4 DEF WInv, BytesRight
  <2> QED
    BY <2>1, <2>2, <1>2
<1>8. /\ Listed(wlru') /\ numBytes' = W!Total(wlru')
      /\ \A i \in DOMAIN wlru' : \E j \in DOMAIN s : wlru'[i] = s[j]
  BY <1>4 DEF WInv
<1> QED
  BY <1>2, <1>5, <1>6, <1>7, <1>8, CollectKeeps

LEMMA HitKeeps == ASSUME WInv, NEW t \in Accessors, W!Hit(t) PROVE WInv'
<1>1. PICK o, h : o = wuses[t].object /\ h = heap
  OBVIOUS
<1>2. wpc[t] = "got" /\ wlru' = wlru /\ numBytes' = numBytes /\ W!Return(t, h, {o})
  BY <1>1 DEF W!Hit
<1>3. {o} \in Results
  BY <1>1, <1>2, HeldIs DEF Results
<1>4. \A x \in W!Owned : h[x] \in HeapEntry /\ h[x].bytes = heap[x].bytes
  BY <1>1 DEF WInv
<1> QED
  BY <1>2, <1>3, <1>4, StayKeeps

LEMMA LoadFailsKeeps == ASSUME WInv, NEW t \in Accessors, W!LoadFails(t) PROVE WInv'
<1> DEFINE o == wuses[t].object
           new == [heap[o] EXCEPT !.parts = @ \cup {wuses[t].part}]
<1>1. PICK h : h = [heap EXCEPT ![o] = new]
  OBVIOUS
<1>2. wpc[t] = "got" /\ wlru' = wlru /\ numBytes' = numBytes /\ W!Return(t, h, {})
  <2>1. h = [heap EXCEPT ![o].parts = @ \cup {wuses[t].part}]
    BY <1>1
  <2> QED
    BY <2>1 DEF W!LoadFails
<1>3. heap[o] \in HeapEntry /\ wuses[t].part \in Parts
  BY <1>2, HeldIs
<1>4. new \in HeapEntry /\ new.bytes = heap[o].bytes
  BY <1>3 DEF HeapEntry
<1> HIDE DEF new, o
<1>5. \A x \in W!Owned : h[x] \in HeapEntry /\ h[x].bytes = heap[x].bytes
  BY <1>1, <1>4 DEF WInv
<1>6. {} \in Results
  BY DEF Results
<1> QED
  BY <1>2, <1>5, <1>6, StayKeeps

LEMMA LoadKeeps ==
    ASSUME W!BytesAssumption, WInv, NEW t \in Accessors, W!Load(t) PROVE WInv'
<1> DEFINE o == wuses[t].object
           new == [heap[o] EXCEPT !.bytes = @ + BytesOf[wuses[t].part],
                                  !.parts = @ \cup {wuses[t].part}]
<1>1. /\ wpc[t] = "got" /\ wpc' = [wpc EXCEPT ![t] = "update"]
      /\ wlru' = wlru /\ numBytes' = numBytes /\ wuses' = wuses /\ ref' = ref /\ gone' = gone
      /\ heap' = [heap EXCEPT ![o] = [bytes |-> @.bytes + BytesOf[wuses[t].part],
                                     parts |-> @.parts \cup {wuses[t].part}]]
  BY DEF W!Load
<1>2. heap[o] \in HeapEntry /\ wuses[t].part \in Parts /\ o \in W!Owned
  BY <1>1, HeldIs
<1>3. PICK new0 : new0 = [bytes |-> heap[o].bytes + BytesOf[wuses[t].part],
                          parts |-> heap[o].parts \cup {wuses[t].part}]
  OBVIOUS
<1>4. new0 \in HeapEntry
  BY <1>2, <1>3 DEF W!BytesAssumption, HeapEntry
<1>5. heap' = [heap EXCEPT ![o] = new0]
  BY <1>1, <1>3
<1> HIDE DEF o
<1>6. heap' \in [W!Owned -> HeapEntry] /\ \A x \in W!Owned : x # o => heap'[x] = heap[x]
  BY <1>2, <1>4, <1>5 DEF WInv
<1>7. HeldObjects' = HeldObjects
  BY <1>1 DEF HeldObjects, WInv, UsesRight
<1>8. W!Owned' = W!Owned
  <2>1. ObjectsOf(wlru') = ObjectsOf(wlru)
    BY <1>1
  <2> QED
    BY <2>1, <1>7, OwnedAre, OwnedWillBe
<1>9. UsesRight'
  BY <1>1 DEF WInv, UsesRight
<1>10. BytesRight'
  <2> SUFFICES ASSUME NEW i \in DOMAIN wlru', ~Loading(wlru[i].object)'
               PROVE  wlru'[i].counted = heap'[wlru'[i].object].bytes
    BY DEF BytesRight
  <2>1. ~Loading(wlru[i].object) /\ wlru[i].object # o
    BY <1>1 DEF Loading, WInv, UsesRight, o
  <2>2. wlru[i].object \in W!Owned
    BY <1>1, OwnedAre DEF ObjectsOf
  <2> QED
    BY <2>1, <2>2, <1>1, <1>6 DEF WInv, BytesRight
<1>11. ResultsRight'
  BY <1>1 DEF WInv, ResultsRight
<1> QED
  BY <1>1, <1>6, <1>8, <1>9, <1>10, <1>11 DEF WInv

(* UpdateNumBytes(): the object that is cached for the image is counted anew, *)
(* or the image has left the cache.                                          *)
LEMMA UpdateKeeps == ASSUME WInv, NEW t \in Accessors, W!Update(t) PROVE WInv'
<1> DEFINE img == wuses[t].image
           e == W!Entry(img)
           b == [e EXCEPT !.counted = heap[e.object].bytes]
           q == <<b>> \o W!Others(img)
<1>1. /\ wpc[t] = "update" /\ W!Return(t, heap, {wuses[t].object})
      /\ IF img \in W!Cached
         THEN W!Shrink(q, numBytes - e.counted + heap[e.object].bytes)
         ELSE wlru' = wlru /\ numBytes' = numBytes
  BY DEF W!Update, W!MustUpdate
<1>2. /\ wuses[t].object \in W!Objects /\ wuses[t].object[1] = img
  BY <1>1, HeldIs
<1>3. /\ wuses' = [wuses EXCEPT ![t] = <<>>] /\ wpc' = [wpc EXCEPT ![t] = "idle"]
      /\ W!Collect(heap, [ref EXCEPT ![t] = {wuses[t].object}], t)
  BY <1>1 DEF W!Return, W!NoUse
<1>4. /\ UsesRight' /\ HeldObjects' \subseteq HeldObjects
      /\ \A x : Loading(x) /\ x # wuses[t].object => Loading(x)'
  BY <1>3, ReturnAfter
<1>5. PICK h, results : h = heap /\ results = [ref EXCEPT ![t] = {wuses[t].object}]
  OBVIOUS
<1>6. results \in [Accessors -> Results] /\ W!Collect(h, results, t)
  <2>1. {wuses[t].object} \in Results
    BY <1>2 DEF Results
  <2> QED
    BY <2>1, <1>3, <1>5 DEF WInv, ResultsRight
<1> HIDE DEF img
<1>7. ASSUME NEW i \in DOMAIN wlru, wlru[i].image # img, NEW x, x = wlru[i].object
      PROVE  Loading(x)' \/ wlru[i].counted = h[x].bytes
  <2>1. wlru[i].object # wuses[t].object
    BY <1>2, <1>7 DEF WInv, Listed
  <2>2. Loading(x) \/ wlru[i].counted = h[x].bytes
    BY <1>5, <1>7 DEF WInv, BytesRight
  <2> QED
    BY <2>1, <2>2, <1>4, <1>7
<1>8. ASSUME ObjectsOf(wlru') \subseteq ObjectsOf(wlru)
      PROVE  \A o \in W!Owned' : h[o] \in HeapEntry
  <2>1. W!Owned' \subseteq W!Owned
    BY <1>4, <1>8, OwnedAre, OwnedWillBe
  <2> QED
    BY <2>1, <1>5 DEF WInv
<1>9. CASE img \notin W!Cached
  <2>1. wlru' = wlru /\ numBytes' = numBytes
    BY <1>1, <1>9
  <2>2. PICK s : s = wlru
    OBVIOUS
  <2>3. \A j \in DOMAIN s : Loading(s[j].object)' \/ s[j].counted = h[s[j].object].bytes
    BY <2>2, <1>5, <1>7, <1>9 DEF W!Cached
  <2>4. /\ Listed(wlru') /\ numBytes' = W!Total(wlru')
        /\ \A i \in DOMAIN wlru' : \E j \in DOMAIN s : wlru'[i] = s[j]
    BY <2>1, <2>2 DEF WInv
  <2>5. \A o \in W!Owned' : h[o] \in HeapEntry
    BY <2>1, <1>8
  <2> QED
    BY <2>3, <2>4, <2>5, <1>4, <1>6, CollectKeeps
<1>10. CASE img \in W!Cached
  <2>1. /\ e \in Element /\ e.image = img /\ e.object[1] = img /\ e.object \in ObjectsOf(wlru)
        /\ e.object \in W!Owned
    BY <1>10, EntryIs
  <2>2. /\ Listed(W!Others(img)) /\ W!Place(img) \in DOMAIN wlru
        /\ wlru[W!Place(img)].image = img
        /\ W!Total(W!Others(img)) + e.counted = W!Total(wlru)
        /\ \A i \in DOMAIN W!Others(img) : \E j \in DOMAIN wlru :
              j # W!Place(img) /\ W!Others(img)[i] = wlru[j]
    BY <1>10, OthersListed DEF WInv
  <2>3. W!Shrink(q, numBytes - e.counted + heap[e.object].bytes)
    BY <1>1, <1>10
  <2> HIDE DEF e
  <2>4. heap[e.object] \in HeapEntry
    BY <2>1 DEF WInv
  <2>5. /\ b \in Element /\ b.image = img /\ b.object = e.object
        /\ b.counted = heap[e.object].bytes /\ b.counted \in Nat /\ e.counted \in Nat
    BY <2>1, <2>4 DEF Element, HeapEntry
  <2> HIDE DEF b
  <2>6. \A i \in DOMAIN W!Others(img) : W!Others(img)[i].image # img
    BY <2>2 DEF WInv, Listed
  <2>7. /\ Listed(q) /\ W!Total(q) = b.counted + W!Total(W!Others(img))
        /\ \A i \in DOMAIN q : \/ q[i] = b
                               \/ \E j \in DOMAIN W!Others(img) : q[i] = W!Others(img)[j]
    BY <2>1, <2>2, <2>5, <2>6, PutListed
  <2> HIDE DEF q
  <2>8. numBytes - e.counted + heap[e.object].bytes = W!Total(q)
    <3>1. W!Total(W!Others(img)) \in Nat /\ numBytes = W!Total(wlru)
      BY <2>2, ListedIs DEF WInv
    <3> QED
      BY <3>1, <2>2, <2>5, <2>7
  <2>9. PICK s : s = q
    OBVIOUS
  <2>10. /\ Listed(wlru') /\ numBytes' = W!Total(wlru')
         /\ \A i \in DOMAIN wlru' : \E j \in DOMAIN s : wlru'[i] = s[j]
    BY <2>3, <2>7, <2>8, <2>9, ShrunkListed
  <2>11. \A j \in DOMAIN s :
            s[j] = b \/ \E i \in DOMAIN wlru : wlru[i].image # img /\ s[j] = wlru[i]
    <3>1. \A i \in DOMAIN W!Others(img) : \E j \in DOMAIN wlru :
              wlru[j].image # img /\ W!Others(img)[i] = wlru[j]
      BY <2>2, <2>6
    <3> QED
      BY <3>1, <2>7, <2>9
  <2>12. ObjectsOf(wlru') \subseteq ObjectsOf(wlru)
    <3>1. \A j \in DOMAIN s : s[j].object \in ObjectsOf(wlru)
      BY <2>1, <2>5, <2>11 DEF ObjectsOf
    <3> QED
      BY <3>1, <2>10 DEF ObjectsOf
  <2>13. \A o \in W!Owned' : h[o] \in HeapEntry
    BY <2>12, <1>8
  <2>14. \A j \in DOMAIN s : Loading(s[j].object)' \/ s[j].counted = h[s[j].object].bytes
    <3> SUFFICES ASSUME NEW j \in DOMAIN s
                 PROVE  Loading(s[j].object)' \/ s[j].counted = h[s[j].object].bytes
      OBVIOUS
    <3>1. CASE s[j] = b
      BY <3>1, <2>5, <1>5
    <3>2. CASE \E i \in DOMAIN wlru : wlru[i].image # img /\ s[j] = wlru[i]
      BY <3>2, <1>5, <1>7
    <3> QED
      BY <3>1, <3>2, <2>11
  <2> QED
    BY <2>10, <2>13, <2>14, <1>4, <1>6, CollectKeeps
<1> QED
  BY <1>9, <1>10

-----------------------------------------------------------------------------
LEMMA WorkspaceStarts == W!Init => WInv
<1> SUFFICES ASSUME W!Init PROVE WInv
  OBVIOUS
<1>1. /\ wlru = <<>> /\ numBytes = 0 /\ heap = <<>> /\ gone = {}
      /\ wuses = [t \in Accessors |-> <<>>] /\ ref = [t \in Accessors |-> {}]
      /\ wpc = [t \in Accessors |-> "idle"]
  BY DEF W!Init, W!NoUse
<1>2. Listed(wlru) /\ Len(wlru) = 0 /\ DOMAIN wlru = {}
  BY <1>1 DEF Listed
<1>3. W!Total(wlru) = 0
  BY <1>2, ListedIs, CountedIs DEF W!Total
<1>4. W!Owned = {}
  BY <1>1, <1>2 DEF W!Owned
<1>5. heap \in [W!Owned -> HeapEntry]
  BY <1>1, <1>4
<1>6. UsesRight /\ ResultsRight /\ BytesRight
  BY <1>1, <1>2 DEF UsesRight, ResultsRight, BytesRight, Results
<1> QED
  BY <1>1, <1>2, <1>3, <1>5, <1>6 DEF WInv

LEMMA WorkspaceStutters == ASSUME WInv, UNCHANGED W!vars PROVE WInv'
<1>1. /\ wlru' = wlru /\ numBytes' = numBytes /\ heap' = heap /\ gone' = gone
      /\ wuses' = wuses /\ ref' = ref /\ wpc' = wpc
  BY DEF W!vars
<1>2. W!Owned' = W!Owned
  BY <1>1 DEF W!Owned
<1>3. UsesRight' /\ ResultsRight'
  BY <1>1 DEF WInv, UsesRight, ResultsRight
<1>4. BytesRight'
  BY <1>1 DEF WInv, BytesRight, Loading
<1> QED
  BY <1>1, <1>2, <1>3, <1>4 DEF WInv

LEMMA WorkspaceInv ==
    W!BytesAssumption /\ W!GenerationsAssumption /\ W!Spec => []WInv
<1> SUFFICES ASSUME W!BytesAssumption, W!GenerationsAssumption PROVE W!Spec => []WInv
  OBVIOUS
<1>1. ASSUME WInv, [W!Next]_(W!vars) PROVE WInv'
  <2>1. CASE UNCHANGED W!vars
    BY <1>1, <2>1, WorkspaceStutters
  <2>2. CASE W!Next
    <3>1. PICK t \in Accessors :
              \/ \E img \in Images, p \in Parts : W!GetFound(t, img, p) \/ W!GetMissing(t, img, p)
              \/ W!Hit(t) \/ W!Load(t) \/ W!LoadFails(t) \/ W!Update(t)
      BY <2>2 DEF W!Next
    <3> QED
      BY <1>1, <3>1, GetFoundKeeps, GetMissingKeeps, HitKeeps, LoadKeeps, LoadFailsKeeps,
         UpdateKeeps
  <2> QED
    BY <1>1, <2>1, <2>2
<1> QED
  BY <1>1, WorkspaceStarts, PTL DEF W!Spec

LEMMA WorkspaceTypes == WInv => W!TypeOK
<1> SUFFICES ASSUME WInv PROVE W!TypeOK
  OBVIOUS
<1>1. wlru \in Seq([image : Images, object : W!Objects, counted : Nat])
  BY DEF WInv, Listed, Element
<1>2. numBytes \in Nat
  BY ListedIs DEF WInv
<1> QED
  BY <1>1, <1>2
  DEF WInv, Listed, W!TypeOK, W!NoUse, HeapEntry, UsesRight, ResultsRight, Use, Results

(* The type invariants of both caches, with what they say of the lists: every *)
(* key, image and object is once in its list, what a thread holds is alive,  *)
(* and nothing else is kept (util/cache.h, mvs/workspace.cc).                *)
THEOREM CachesTypeCorrect ==
    W!BytesAssumption /\ W!GenerationsAssumption /\ Spec /\ W!Spec => []TypesOK
<1>1. LInv /\ WInv => TypesOK
  BY WorkspaceTypes DEF LInv, TypesOK
<1> QED
  BY <1>1, SpecInv, WorkspaceInv, PTL

(* num_bytes_ is the sum of what is counted for the elements the workspace    *)
(* has, whatever loads, evictions and returns of images threads interleave:   *)
(* the underflow checks of Pop() and UpdateNumBytes() (util/cache.h:411-414,  *)
(* 424-426) never throw, and an image no thread is loading is fully counted.  *)
THEOREM BytesCounted ==
    W!BytesAssumption /\ W!GenerationsAssumption /\ W!Spec => []BytesAddUp
<1>1. WInv => BytesAddUp
  BY DEF WInv, BytesRight, Loading, BytesAddUp, W!BytesAddUp, W!AllBytesCounted
<1> QED
  BY <1>1, WorkspaceInv, PTL

===============================================================================

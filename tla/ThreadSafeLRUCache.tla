-------------------------- MODULE ThreadSafeLRUCache --------------------------
(***************************************************************************)
(* colmap::ThreadSafeLRUCache (util/cache.h) over an LRUCache of entries.   *)
(* The first Get() of a key puts an entry into the cache and loads its      *)
(* value outside the lock; the others wait for the entry's future.  Threads *)
(* own the entry they use, so that one can outlive its place in the cache:  *)
(* an entry is free again when neither the cache nor a thread refers to it. *)
(***************************************************************************)
EXTENDS Naturals, Sequences, FiniteSets, SequencesExt, Functions

CONSTANTS
    Threads, Keys,
    MaxElems,               \* max_num_elems_
    Entries                 \* bound: identities for the entries that are alive

ASSUME MaxElemsAssumption == MaxElems \in Nat \ {0}
ASSUME UsersAssumption == IsFiniteSet(Threads) /\ Keys # {}
ASSUME EntriesAssumption == Cardinality(Entries) >= MaxElems + Cardinality(Threads) + 1

VARIABLES
    lru,                    \* elems_list_: the cached <<key, entry>>, last used first
    entries,                \* is_loading and the state of the future of each entry alive
    uses,                   \* the key and entry of the Get() a thread is in
    pc

vars == <<lru, entries, uses, pc>>

Cached == {lru[i][1] : i \in DOMAIN lru}
IndexOf(k) == CHOOSE i \in DOMAIN lru : lru[i][1] = k
EntryOf(k) == lru[IndexOf(k)][2]
InUse == {uses[t].entry : t \in {t \in Threads : pc[t] # "idle"}}
Alive == {EntryOf(k) : k \in Cached} \cup InUse

TypeOK ==
    /\ lru \in Seq(Keys \X Entries) /\ Len(lru) <= MaxElems
    /\ \A i, j \in DOMAIN lru :
          lru[i][1] = lru[j][1] \/ lru[i][2] = lru[j][2] => i = j
    /\ entries \in [Alive -> [loading : BOOLEAN, future : {"pending", "value", "exception"}]]
    /\ uses \in [Threads -> [key : Keys, entry : Entries]]
    /\ pc \in [Threads -> {"idle", "load", "failed", "wait"}]

NoUse == [key |-> CHOOSE k \in Keys : TRUE, entry |-> CHOOSE e \in Entries : TRUE]

Init ==
    /\ lru = <<>>
    /\ entries = <<>>
    /\ uses = [t \in Threads |-> NoUse]
    /\ pc = [t \in Threads |-> "idle"]

(* An entry dies when neither the cache nor a thread refers to it. *)
Collect(all) == entries' = Restrict(all, Alive')

-----------------------------------------------------------------------------
Without(k) == IF k \in Cached THEN RemoveAt(lru, IndexOf(k)) ELSE lru

(* LRUCache::Get(): the key moves or is added to the front; when there are   *)
(* too many the last one leaves.                                             *)
Used(k, e) == <<<<k, e>>>> \o Without(k)
Capped_OneMore(s) == IF Len(s) > MaxElems + 1 THEN Front(s) ELSE s
Capped(s) == IF Len(s) > MaxElems THEN Front(s) ELSE s

FreshEntry == CHOOSE e \in Entries : e \notin Alive

IsLoading_NotSet == FALSE
(* The caller of Get() that finds is_loading unset sets it and loads. *)
IsLoading == TRUE

GetFound(t, k) ==
    /\ pc[t] = "idle" /\ k \in Cached
    /\ lru' = Used(k, EntryOf(k))
    /\ uses' = [uses EXCEPT ![t] = [key |-> k, entry |-> EntryOf(k)]]
    /\ pc' = [pc EXCEPT ![t] = IF entries[EntryOf(k)].loading THEN "wait" ELSE "load"]
    /\ entries' = [entries EXCEPT ![EntryOf(k)].loading = IsLoading]

GetMissing(t, k) ==
    /\ pc[t] = "idle" /\ k \notin Cached
    /\ pc' = [pc EXCEPT ![t] = "load"]
    /\ LET e == FreshEntry IN
          /\ lru' = Capped(Used(k, e))
          /\ uses' = [uses EXCEPT ![t] = [key |-> k, entry |-> e]]
          /\ Collect([x \in Alive \cup {e} |->
                IF x = e THEN [loading |-> IsLoading, future |-> "pending"] ELSE entries[x]])

LoadSucceeds(t) ==
    /\ pc[t] = "load"
    /\ entries' = [entries EXCEPT ![uses[t].entry].future = "value"]
    /\ pc' = [pc EXCEPT ![t] = "wait"]
    /\ UNCHANGED <<lru, uses>>

(* The load function throws, or returns null. *)
LoadFails(t) ==
    /\ pc[t] = "load"
    /\ pc' = [pc EXCEPT ![t] = "failed"]
    /\ UNCHANGED <<lru, entries, uses>>

EvictFailed(k) == Without(k)

SetException_IfEvicted(t) == IF uses[t].key \in Cached THEN "exception" ELSE "pending"
SetException(t) == "exception"

(* In one critical section: the entry under the key, whichever it is now,    *)
(* is evicted, and the exception is set on the entry of this load.           *)
HandleFailure(t) ==
    /\ pc[t] = "failed"
    /\ lru' = EvictFailed(uses[t].key)
    /\ pc' = [pc EXCEPT ![t] = "wait"]
    /\ UNCHANGED uses
    /\ Collect([entries EXCEPT ![uses[t].entry].future = SetException(t)])

(* shared_future.get() returns or throws; the thread lets go of the entry,   *)
(* which dies unless it is cached.                                           *)
GetReturns(t) ==
    /\ pc[t] = "wait" /\ entries[uses[t].entry].future # "pending"
    /\ uses' = [uses EXCEPT ![t] = NoUse]
    /\ pc' = [pc EXCEPT ![t] = "idle"]
    /\ UNCHANGED lru
    /\ Collect(entries)

Evict(t, k) ==
    /\ pc[t] = "idle" /\ k \in Cached
    /\ lru' = Without(k)
    /\ UNCHANGED <<uses, pc>>
    /\ Collect(entries)

Pop(t) ==
    /\ pc[t] = "idle" /\ lru # <<>>
    /\ lru' = Front(lru)
    /\ UNCHANGED <<uses, pc>>
    /\ Collect(entries)

Clear(t) ==
    /\ pc[t] = "idle"
    /\ lru' = <<>>
    /\ UNCHANGED <<uses, pc>>
    /\ Collect(entries)

Proceed(t) == LoadSucceeds(t) \/ LoadFails(t) \/ HandleFailure(t) \/ GetReturns(t)

Next ==
    \E t \in Threads :
        \/ Proceed(t) \/ Pop(t) \/ Clear(t)
        \/ \E k \in Keys : GetFound(t, k) \/ GetMissing(t, k) \/ Evict(t, k)

(* Loads end, one way or the other, and threads run. *)
Spec == Init /\ [][Next]_vars /\ \A t \in Threads : WF_vars(Proceed(t))

-----------------------------------------------------------------------------
Loaders == {t \in Threads : pc[t] \in {"load", "failed"}}

(* One thread at most loads an entry, and it finds its future not yet set,   *)
(* which can be set once only, although entries leave the cache and the same *)
(* key comes back while they load.                                           *)
OneLoader ==
    /\ \A s, t \in Loaders : uses[s].entry = uses[t].entry => s = t
    /\ \A t \in Loaders : entries[uses[t].entry].future = "pending"

(* Every Get() returns or throws, also one that waits for an entry that was  *)
(* evicted, replaced or whose load failed.                                   *)
GetsEnd == \A t \in Threads : pc[t] # "idle" ~> pc[t] = "idle"

==============================================================================

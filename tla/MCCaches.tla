------------------------------- MODULE MCCaches -------------------------------
(***************************************************************************)
(* The caches of util/cache.h: three threads and two keys on a thread-safe  *)
(* cache of one element, or two threads on a cached workspace of two images *)
(* in which the depth maps of both fit, or one bitmap, but not both parts   *)
(* of an image.  A behaviour is one of the cache it is about.               *)
(***************************************************************************)
EXTENDS Caching, TLC

CONSTANTS t1, t2, t3, k1, k2, i1, i2

VARIABLE about

all == <<about, vars, workspace>>

MCThreads == {t1, t2, t3}
MCKeys == {k1, k2}
MCEntries == 1 .. MaxElems + Cardinality(Threads) + 1

MCImages == {i1, i2}
MCBytesOf == ("depth_map" :> 1) @@ ("bitmap" :> 3)
MCGenerations == 1 .. 2

ASSUME W!BytesAssumption /\ W!GenerationsAssumption

MCInit == about \in {"cache", "workspace"} /\ Init /\ W!Init

CacheNext == about = "cache" /\ Next /\ UNCHANGED <<about, workspace>>
WorkspaceNext == about = "workspace" /\ W!Next /\ UNCHANGED <<about, vars>>

MCNext == CacheNext \/ WorkspaceNext

MCSpec ==
    /\ MCInit /\ [][MCNext]_all
    /\ \A t \in Threads : WF_vars(about = "cache" /\ Proceed(t))

-----------------------------------------------------------------------------
(* "Only access workspace from one thread at a time"                         *)
(* (mvs/patch_match.cc:462): what a call on the workspace returned is still  *)
(* there when it is used.                                                    *)
ResultAlive == W!ResultAlive
=============================================================================

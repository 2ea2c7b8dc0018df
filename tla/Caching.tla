-------------------------------- MODULE Caching --------------------------------
(***************************************************************************)
(* The caches of util/cache.h that are more than a list: the thread-safe    *)
(* one, and the memory-constrained one inside the cached workspace (W) of   *)
(* the stereo stages.                                                       *)
(***************************************************************************)
EXTENDS ThreadSafeLRUCache

CONSTANTS Accessors, Images, Parts, BytesOf, MaxBytes, Generations   \* of the workspace

VARIABLES wlru, numBytes, heap, wuses, ref, gone, wpc

workspace == <<wlru, numBytes, heap, wuses, ref, gone, wpc>>

W == INSTANCE CachedWorkspace WITH
        Threads <- Accessors, lru <- wlru, uses <- wuses, pc <- wpc

-----------------------------------------------------------------------------
(* The type invariants of the cache (util/cache.h) and the workspace         *)
(* (mvs/workspace.cc).                                                       *)
TypesOK == TypeOK /\ W!TypeOK

(* The bytes the cache of the workspace counts are those of the elements it  *)
(* has (Pop() and UpdateNumBytes(), util/cache.h:407-434), and once no load  *)
(* into it is under way, an image is counted with all its bytes.             *)
BytesAddUp == W!BytesAddUp /\ W!AllBytesCounted
================================================================================

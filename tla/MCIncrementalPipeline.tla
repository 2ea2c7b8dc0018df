------------------------- MODULE MCIncrementalPipeline -------------------------
(* Three or four images in frames of their own, or four images in rigs of two cameras. *)
EXTENDS IncrementalPipeline, TLC

CONSTANTS a, b, c, d, e, f, g, h

Trivial == (a :> f) @@ (b :> g) @@ (c :> h)
FourFrames == Trivial @@ (d :> e)
Rigs == (a :> f) @@ (b :> f) @@ (c :> g) @@ (d :> g)
AllPairs == {p \in SUBSET Images : Cardinality(p) = 2}
TwoPairs == {{a, b}, {c, d}}

StructureBased == <<FALSE>>
WithFallback == <<FALSE, TRUE>>
NoPair == {}
PairBC == {b, c}
NoModel == <<>>
OneFrame == <<{f}>>
=============================================================================

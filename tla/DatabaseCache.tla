----------------------------- MODULE DatabaseCache -----------------------------
(***************************************************************************)
(* colmap::DatabaseCache (scene/database_cache.cc): Load() chooses frames   *)
(* and image pairs of the database and builds the correspondence graph of   *)
(* them; CreateFromCache() makes a smaller cache of a part of the images,   *)
(* for a sub-model or a cluster.                                            *)
(***************************************************************************)
EXTENDS CorrespondenceGraph, SequencesExt

CONSTANTS
    Frames, FrameOf,        \* the frame of each image
    Databases,              \* sets of geometries: the rows of two_view_geometries
    OptionSets              \* options: image_names (none: all), min_num_matches,
                            \* ignore_watermarks, load_all_images

(* What the constants must satisfy. *)
RowsAssumption ==
    /\ FrameOf \in [Images -> Frames]
    /\ \A known \in Databases : \A g, h \in known :
          /\ g \in Geometry /\ Fits(g) /\ g.image1 <= g.image2
          /\ Ends(g) = Ends(h) => g = h

VARIABLES
    rows, marked,           \* the database; pairs whose matches are a watermark
    options,
    todo,                   \* geometries that are still to be added
    source,                 \* the graph that CreateFromCache() reads
    at

cache == <<rows, marked, options, todo, source, at>>

NoSource == [images |-> {}, listed |-> listed, pairs |-> {}]

CacheTypeOK ==
    /\ TypeOK
    /\ rows \in Databases /\ marked \subseteq SUBSET Images
    /\ options \in OptionSets
    /\ source.images \subseteq Images
    /\ at \in {"database", "load", "loaded", "filter", "filtered", "threw"}

CacheInit ==
    /\ Init
    /\ rows \in Databases /\ marked \in {{}, {Ends(g) : g \in rows}}
    /\ options \in OptionSets /\ todo = {} /\ source = NoSource /\ at = "database"

InFrames(fs) == {i \in Images : FrameOf[i] \in fs}
FramesOf(S) == {FrameOf[i] : i \in S}
Named(S, o) == IF o.names = {} THEN S ELSE S \cap o.names

(* UseInlierMatchesCheck() *)
Usable(pair, n, o) == n >= o.min /\ (o.watermarks => pair \notin marked)

-----------------------------------------------------------------------------
Selected_OneEnd(g, fs) == FrameOf[g.image1] \in fs
(* Pairs whose frames may both be loaded.                                    *)
Selected(g, fs) == FramesOf(Ends(g)) \subseteq fs

Load ==
    /\ at = "database"
    /\ LET candidates == FramesOf(Named(Images, options))
           selected == {g \in rows : /\ Usable(Ends(g), Len(g.matches), options)
                                     /\ Selected(g, candidates)}
           connected == UNION {FramesOf(Ends(g)) : g \in selected}
       IN /\ images' = InFrames(IF options.all THEN candidates ELSE connected)
          /\ todo' = selected
    /\ at' = "load"
    /\ UNCHANGED <<listed, numObservations, numCorrespondences, numMatches, direction,
                   adding, finalized, thrown, rows, marked, options, source>>

Loaded_Named(S, fs) == S
(* "Copy all images of filtered frames" *)
Loaded(S, fs) == images \cap InFrames(fs)

(* The geometries of the source, with the matches they have left.            *)
Extracted(i, j) ==
    [image1 |-> i, image2 |-> j, matches |-> SetToSeq(MatchesBetween(i, j))]

CreateFromCache(o) ==
    /\ at = "loaded"
    /\ LET candidates == Named(images, o)
           connected == UNION {p \in DOMAIN numMatches :
                                  p \subseteq candidates /\ Usable(p, numMatches[p], o)}
           chosen == IF o.all THEN candidates ELSE connected
           loaded == Loaded(chosen, FramesOf(chosen))
       IN /\ images' = loaded
          /\ todo' = {Extracted(d[1], d[2]) : d \in
                        {d \in loaded \X loaded : d[1] < d[2] /\ {d[1], d[2]} \in DOMAIN numMatches}}
    /\ source' = [images |-> images, listed |-> listed, pairs |-> DOMAIN numMatches]
    /\ listed' = [p \in DOMAIN listed |-> 0]
    /\ numObservations' = [i \in Images |-> 0] /\ numCorrespondences' = [i \in Images |-> 0]
    /\ numMatches' = [p \in {} |-> 0] /\ direction' = [p \in {} |-> <<0, 0>>]
    /\ finalized' = FALSE
    /\ options' = o /\ at' = "filter"
    /\ UNCHANGED <<adding, thrown, rows, marked>>

-----------------------------------------------------------------------------
AddNext ==
    /\ at \in {"load", "filter"} /\ Idle
    /\ \E g \in todo :
          /\ todo' = todo \ {g}
          /\ \/ AddTwoViewGeometry(g) /\ UNCHANGED at
             \/ g.image1 = g.image2 /\ UNCHANGED <<graph, at>>
             \/ /\ g.image1 # g.image2 /\ ~(Ends(g) \subseteq images)
                /\ at' = "threw" /\ UNCHANGED graph
    /\ UNCHANGED <<rows, marked, options, source>>

Build == at \in {"load", "filter"} /\ AddStep /\ UNCHANGED cache

Finish ==
    /\ at \in {"load", "filter"} /\ todo = {} /\ Finalize
    /\ at' = (IF at = "load" THEN "loaded" ELSE "filtered")
    /\ UNCHANGED <<rows, marked, options, todo, source>>

CacheNext ==
    Load \/ (\E o \in OptionSets : CreateFromCache(o)) \/ AddNext \/ Build \/ Finish

CacheSpec == CacheInit /\ [][CacheNext]_<<graph, cache>>

-----------------------------------------------------------------------------
(* Whatever is selected, images_.at() finds both images and no pair is added  *)
(* twice (correspondence_graph.cc:112-126).                                  *)
NothingThrows == at # "threw" /\ ~thrown

MatchesOf(g) ==
    {p \in Observations \X Observations :
        \E k \in 1 .. Len(g.matches) : g.matches[k] \in {p, Invert(p)}}

Joined(S) == {p \in Observations \X Observations : {ImageOf[p[1]], ImageOf[p[2]]} \subseteq S}
ListedPairs == {p \in Observations \X Observations : listed[p] > 0}

(* A loaded graph is the database restricted to the loaded images: it has    *)
(* the matches of the usable pairs between them, though these are selected    *)
(* by the options and not by what is loaded.                                 *)
GraphIsDatabase ==
    at = "loaded" =>
        ListedPairs = Joined(images) \cap
                UNION {MatchesOf(g) : g \in
                    {g \in rows : g.image1 # g.image2 /\
                                  Usable(Ends(g), Len(g.matches), options)}}

(* "Only images that participate in at least one valid match pair are         *)
(* loaded", with all others of their frames (database_cache.h:59-67).        *)
FramesWhole ==
    /\ at = "loaded" =>
          /\ images = InFrames(FramesOf(images))
          /\ ~options.all => \A f \in FramesOf(images) : \E g \in rows :
                f \in FramesOf(Ends(g)) /\ Usable(Ends(g), Len(g.matches), options)
    /\ at = "filtered" => images = source.images \cap InFrames(FramesOf(images))

(* A smaller cache has every match of the source between its images.         *)
FilterKeeps ==
    at = "filtered" =>
        /\ ListedPairs = Joined(images) \cap {p \in DOMAIN source.listed : source.listed[p] > 0}
        /\ DOMAIN numMatches = {p \in source.pairs : p \subseteq images}

CacheIsDatabase == GraphIsDatabase /\ FramesWhole /\ FilterKeeps
==============================================================================

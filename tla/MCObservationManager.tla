------------------------- MODULE MCObservationManager -------------------------
(***************************************************************************)
(* Three images with two image points each.  A behaviour is one of seven    *)
(* kinds, which differ in the matches and the frames:                       *)
(*   "offline"     the manager alone; the first points all match, the second *)
(*                 ones of 1 and 2 do, and the second one of 2 and of 1 match *)
(*                 the first and second one of 3; images 2 and 3 in one      *)
(*                 frame, all images known from the start;                  *)
(*   "live"        the same with a frame for each image, where image 3 is    *)
(*                 added while the model grows and brings the second point  *)
(*                 of 1 its first match;                                    *)
(*   "triangulate" the triangulator on a chain of three image points and a   *)
(*                 pair that only matches itself; image 3 may have a bogus  *)
(*                 camera;                                                  *)
(*   "transitive"  the triangulator with transitive matches on a star of     *)
(*                 four image points, two of which are in one image;        *)
(*                 nothing is retriangulated here;                          *)
(*   "graph"       the correspondence graph alone, with matches that are      *)
(*                 duplicated, out of bounds or of an image with itself;      *)
(*   "cache"       a database cache of two or three images, two in one frame, *)
(*                 loaded with all options and then made smaller;            *)
(*   "reader"      the image reader on collections of three or four images   *)
(*                 in folders, on a new database or one with images that have *)
(*                 no features, twice.                                       *)
(***************************************************************************)
EXTENDS IncrementalTriangulator, TLC

VARIABLE kind

VARIABLES photos, wishes, cameras, rigs, written, reader, runs

collection == <<photos, wishes, cameras, rigs, written, reader, runs>>

VARIABLES images, listed, graphObservations, numCorrespondences, numMatches, direction,
          adding, finalized, thrown, rows, marked, options, todo, source, at

data == <<images, listed, graphObservations, numCorrespondences, numMatches, direction,
          adding, finalized, thrown, rows, marked, options, todo, source, at>>

BothWays(pairs) == pairs \cup {<<p[2], p[1]>> : p \in pairs}

MCImages == {1, 2, 3}
MCFrames == {"f1", "f2", "f3"}
Rig == (1 :> "f1") @@ (2 :> "f2") @@ (3 :> "f2")
Single == (1 :> "f1") @@ (2 :> "f2") @@ (3 :> "f3")
MCObservations == {11, 12, 21, 22, 31, 32}
MCImageOf == [o \in MCObservations |-> o \div 10]
OneWay == {<<11, 21>>, <<11, 31>>, <<21, 31>>, <<12, 22>>, <<22, 31>>, <<12, 32>>}
MCCorrs == BothWays(OneWay)
MCPointIds == 1 .. 3

Live == INSTANCE ObservationManager WITH
            FrameOf <- Single, Corrs <- BothWays(OneWay \ {<<12, 22>>}),
            InitialImages <- {1, 2}

Chain == INSTANCE IncrementalTriangulator WITH
            FrameOf <- Single,
            Corrs <- BothWays({<<11, 21>>, <<21, 31>>, <<12, 22>>}),
            MaxTransitivity <- 1, MaybeBogus <- {3}

Star == INSTANCE IncrementalTriangulator WITH
            Frames <- {"f1", "f2"},
            Corrs <- BothWays({<<11, 21>>, <<11, 22>>, <<11, 31>>}),
            MaxTransitivity <- 2, MaybeBogus <- {}, ReMaxTrials <- 0

Geo(i, j, m) == [image1 |-> i, image2 |-> j, matches |-> m]

(* Geometries that are added in any order: duplicates, a bogus index on       *)
(* either side, both directions of one pair, an image with itself.           *)
MCGeometries ==
    {Geo(1, 2, <<>>), Geo(1, 2, << <<11, 21>>, <<11, 21>>, <<12, 21>> >>),
     Geo(1, 2, << <<11, 0>>, <<11, 22>> >>), Geo(2, 1, << <<21, 11>>, <<21, 11>> >>),
     Geo(3, 2, << <<0, 21>>, <<31, 21>> >>),
     Geo(1, 3, << <<12, 31>>, <<12, 31>>, <<12, 32>> >>), Geo(2, 2, << <<21, 22>> >>)}

OneOf(S) == {{}} \cup {{g} : g \in S}

(* Databases of up to four rows; a raw row may have matches that do not count. *)
MCDatabases ==
    {UNION {a, b, c, d} :
        a \in OneOf({Geo(1, 2, << <<11, 21>> >>), Geo(1, 2, << <<11, 21>>, <<11, 21>> >>)}),
        b \in OneOf({Geo(1, 3, << <<12, 31>>, <<12, 0>>, <<11, 31>> >>)}),
        c \in OneOf({Geo(2, 3, <<>>), Geo(2, 3, << <<21, 32>>, <<22, 32>> >>)}),
        d \in OneOf({Geo(1, 1, << <<11, 12>> >>)})}

MCOptionSets ==
    [names : {{}, {1}, {1, 2}}, min : {0, 2}, watermarks : {TRUE}, all : BOOLEAN]

Data == INSTANCE DatabaseCache WITH
            Bogus <- 0, Geometries <- MCGeometries, Databases <- MCDatabases,
            OptionSets <- MCOptionSets, numObservations <- graphObservations

ASSUME Data!PointsAssumption /\ Data!GeometriesAssumption /\ Data!RowsAssumption

(* A photo in a folder, with the camera model of its EXIF data and its size. *)
Photo(folder, model, size) ==
    [folder |-> folder, model |-> model, size |-> size, readable |-> TRUE, valid |-> TRUE]
Refused(photo) == [photo EXCEPT !.valid = FALSE]
Unreadable(photo) == [photo EXCEPT !.readable = FALSE]

(* Another size in a folder of its own or amid others; cameras known by their  *)
(* EXIF data from another folder; refused parameters; a folder met again.      *)
MCCollections ==
    {<<Photo("a", "none", 1), Photo("b", "none", 2), Photo("b", "none", 2),
       Unreadable(Photo("b", "none", 2))>>,
     <<Photo("a", "M", 1), Refused(Photo("b", "N", 2)), Photo("b", "M", 1),
       Photo("c", "none", 1)>>,
     <<Photo("a", "none", 1), Refused(Photo("b", "none", 2)), Photo("c", "M", 2),
       Photo("c", "M", 1)>>,
     <<Photo("a", "M", 1), Photo("b", "M", 2), Photo("a", "none", 1), Photo("a", "M", 1)>>,
     <<Photo("", "M", 1), Photo("", "none", 1), Photo("a", "none", 1), Photo("a", "M", 1)>>}

Wish(single, folder, image, existing) ==
    [single |-> single, folder |-> folder, image |-> image, existing |-> existing]
MCWishes ==
    {Wish(FALSE, FALSE, FALSE, 0), Wish(TRUE, FALSE, FALSE, 0), Wish(FALSE, TRUE, FALSE, 0),
     Wish(FALSE, FALSE, TRUE, 0), Wish(TRUE, TRUE, FALSE, 0), Wish(TRUE, FALSE, FALSE, 1),
     Wish(FALSE, FALSE, FALSE, 1), Wish(FALSE, TRUE, FALSE, 1)}

(* An image that another program put into the database, with its camera. *)
Old(camera) ==
    [camera |-> camera, rig |-> camera, complete |-> FALSE, run |-> 0, again |-> {},
     by |-> Wish(FALSE, FALSE, FALSE, 0)]

Reader == INSTANCE ImageReader WITH
            Folders <- {"", "a", "b", "c"}, Models <- {"none", "M", "N"}, Sizes <- {1, 2},
            Collections <- MCCollections, Options <- MCWishes, MaxRuns <- 2,
            Databases <-
                {[cameras |-> <<>>, rigs |-> <<>>, rows |-> <<>>],
                 [cameras |-> <<1, 1>>, rigs |-> <<>>, rows |-> <<Old(0), Old(2)>>],
                 [cameras |-> <<1, 2>>, rigs |-> <<1>>, rows |-> <<Old(1), Old(2)>>]},
            images <- photos, options <- wishes, rows <- written

ASSUME Reader!CollectionsAssumption

AnyOptions == [names |-> {}, min |-> 0, watermarks |-> TRUE, all |-> TRUE]
NothingLoaded == Data!CacheInit /\ rows = {} /\ marked = {} /\ options = AnyOptions

OneReader ==
    /\ photos = CHOOSE p \in MCCollections : TRUE
    /\ cameras = <<>>

MCInit ==
    /\ NothingDone
    /\ \/ kind = "offline" /\ Init /\ NothingLoaded
       \/ kind = "live" /\ Live!Init /\ NothingLoaded
       \/ kind = "triangulate" /\ Chain!Init /\ NothingLoaded
       \/ kind = "transitive" /\ Star!Init /\ NothingLoaded
       \/ kind \in {"graph", "reader"} /\ Init /\ NothingLoaded
       \/ kind = "cache" /\ Init /\ Data!CacheInit
    /\ Reader!Init /\ (kind # "reader" => OneReader)

(* The rig has no third frame. *)
OfflineNext ==
    kind = "offline" /\ Next /\ "f3" \notin reg' /\ UNCHANGED <<triangulator, data, collection, kind>>
LiveNext == kind = "live" /\ Live!Next /\ UNCHANGED <<triangulator, data, collection, kind>>
ChainNext == kind = "triangulate" /\ Chain!TriNext /\ UNCHANGED <<data, collection, kind>>
StarNext == kind = "transitive" /\ Star!TriNext /\ UNCHANGED <<data, collection, kind>>
GraphNext ==
    /\ kind = "graph" /\ Data!Next
    /\ UNCHANGED <<triVars, rows, marked, options, todo, source, at, collection, kind>>
CacheNext == kind = "cache" /\ Data!CacheNext /\ UNCHANGED <<triVars, collection, kind>>
ReaderNext == kind = "reader" /\ Reader!Next /\ UNCHANGED <<triVars, data, kind>>

(* A finished graph without pairs, a filtered cache, and a database of which   *)
(* the last run has seen all images, are left as they are.                     *)
Finished ==
    /\ finalized \/ at = "filtered" \/ (kind = "reader" /\ ~Reader!Reading)
    /\ UNCHANGED <<triVars, data, collection, kind>>

MCNext ==
    \/ OfflineNext \/ LiveNext \/ ChainNext \/ StarNext
    \/ GraphNext \/ CacheNext \/ ReaderNext \/ Finished

MCSpec == MCInit /\ [][MCNext]_<<triVars, data, collection, kind>>

-----------------------------------------------------------------------------
TypesOK == TypeOK /\ Data!CacheTypeOK /\ Reader!TypeOK

(* What one part of a scene refers to is there in the other: points are seen *)
(* by registered frames only, or deleting them would throw                   *)
(* (THROW_CHECK(image.HasPose()) in ResetTriObservations()); correspondences  *)
(* are listed at both ends, once, between images of a pair, whose geometry   *)
(* has the direction that is asked for; the pairs of a cache are of images   *)
(* that it has loaded; and an image gets the rig of its camera, which is in  *)
(* no other (image_reader.cc:150-330).                                       *)
NothingDangles ==
    CASE kind \in {"offline", "transitive"} -> OnlyRegistered
      [] kind \in {"live", "triangulate"} -> Live!OnlyRegistered
      [] kind = "graph" -> Data!Symmetric /\ Data!Directed
      [] kind = "cache" -> Data!Symmetric /\ Data!Directed /\ Data!NothingThrows
      [] kind = "reader" -> Reader!RigsFit

(* The counters of triangulated matches, visible points, triangulated        *)
(* correspondences and points per image equal what counting afresh would     *)
(* give, whether or not images arrive while the model grows, and whatever    *)
(* the triangulator makes of them; so does the count of visible              *)
(* correspondences (observation_manager.h:209), when every image is known to *)
(* the manager from the start; and so do the counts of observations,         *)
(* correspondences and matches of a correspondence graph.                    *)
AllCountersAgree ==
    CASE kind = "offline" -> CountersAgree /\ VisibleCorrsCounted
      [] kind = "live" -> Live!CountersAgree
      [] kind = "triangulate" -> Chain!CountersAgree /\ Chain!VisibleCorrsCounted
      [] kind = "transitive" -> Star!CountersAgree /\ Star!VisibleCorrsCounted
      [] kind \in {"graph", "cache"} -> Data!CountsAgree
      [] kind = "reader" -> TRUE

(* "The sum of correspondences that have a corresponding registered image."  *)
(* (observation_manager.h:209), when images are added one by one.            *)
VisibleCorrsLive == kind = "live" => Live!VisibleCorrsCounted

(* "Whether to ignore two-view tracks" (incremental_triangulator.h:77):       *)
(* whichever call of the triangulator a point comes from, it is not one of    *)
(* two images that only match each other.  And a cache has the images and     *)
(* the matches of the database that its options ask for                      *)
(* (database_cache.h:52-68), also when it is made from another cache.  And   *)
(* the images of a database have the size of the camera that the options of  *)
(* the reader gave them, which is one camera for all with single_camera      *)
(* (image_reader.cc:60-90, 150-310).                                         *)
OptionsHonoured ==
    /\ kind = "triangulate" => Chain!TwoViewIgnored
    /\ kind = "cache" => Data!CacheIsDatabase
    /\ kind = "reader" => Reader!CamerasFit /\ Reader!OneCamera
===============================================================================

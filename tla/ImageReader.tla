------------------------------ MODULE ImageReader ------------------------------
(***************************************************************************)
(* ImageReader (controllers/image_reader.cc): which camera and which rig an *)
(* image gets, by the options, by what the reader remembers of the images   *)
(* before, and by what earlier runs left in the database.  Cameras and rigs *)
(* are written when an image is read, its own row once its features are     *)
(* there; a run may end between the two.                                    *)
(***************************************************************************)
EXTENDS Naturals, Sequences, FiniteSets

CONSTANTS
    Folders, Models, Sizes, \* of images
    Collections,            \* sequences of images, in the order of their names
    Options,                \* [single, folder, image: BOOLEAN, existing: camera id or 0]
    Databases,              \* [cameras, rigs, rows] that a run may find
    MaxRuns                 \* bound: runs on one database

(* An image: its folder, its camera model by EXIF ("none" without), the size of *)
(* its bitmap, whether it can be read, and whether the parameters derived from  *)
(* it are those of a camera.                                                    *)
Photo == [folder : Folders, model : Models, size : Sizes, readable : BOOLEAN, valid : BOOLEAN]

Wishes == [single : BOOLEAN, folder : BOOLEAN, image : BOOLEAN, existing : Nat]

(* What the constants must satisfy; a database has one rig for a camera. *)
CollectionsAssumption ==
    /\ MaxRuns \in Nat /\ Options \subseteq Wishes /\ Collections \subseteq Seq(Photo)
    /\ \A d \in Databases :
          /\ d.cameras \in Seq(Sizes) /\ d.rigs \in Seq(DOMAIN d.cameras)
          /\ \A r, s \in DOMAIN d.rigs : d.rigs[r] = d.rigs[s] => r = s
          /\ \A i \in DOMAIN d.rows :
                d.rows[i] \in [camera : 0 .. Len(d.cameras), rig : Nat, complete : BOOLEAN,
                               run : {0}, again : {{}}, by : Wishes]

Root == ""
NoOptions == [single |-> FALSE, folder |-> FALSE, image |-> FALSE, existing |-> 0]

VARIABLES
    images,                 \* options_.image_names and the files
    options,
    cameras,                \* the size of each camera; its id is the index
    rigs,                   \* the reference camera of each rig
    rows,                   \* the image rows; camera 0: none.  History: run, by, and
                            \* again, the runs that read the image again
    reader,                 \* the members of ImageReader
    runs

vars == <<images, options, cameras, rigs, rows, reader, runs>>

NoRow == [camera |-> 0, rig |-> 0, complete |-> FALSE, run |-> 0,
          again |-> {}, by |-> NoOptions]
Indices == DOMAIN images

(* ReadRigWithSensor, or a rig for a camera of an old database, which has none *)
HasRig(c) == \E r \in DOMAIN rigs : rigs[r] = c
RigOf(c) == IF HasRig(c) THEN CHOOSE r \in DOMAIN rigs : rigs[r] = c ELSE Len(rigs) + 1
RigsWith(c) == IF c = 0 \/ HasRig(c) THEN rigs ELSE Append(rigs, c)

(* The constructor *)
Fresh(o) ==
    /\ options' = o
    /\ reader' = [camera |-> [id |-> o.existing,
                              size |-> IF o.existing = 0 THEN 0 ELSE cameras[o.existing]],
                  rig |-> IF o.existing = 0 THEN 0 ELSE RigOf(o.existing),
                  models |-> {}, folders |-> {}, previous |-> Root, index |-> 0]
    /\ rigs' = RigsWith(o.existing)

Init ==
    /\ images \in Collections
    /\ \E d \in Databases :
          /\ cameras = d.cameras /\ rigs = d.rigs
          /\ rows = [i \in DOMAIN images |->
                        IF i \in DOMAIN d.rows THEN d.rows[i] ELSE NoRow]
    /\ options = NoOptions
    /\ reader = [camera |-> [id |-> 0, size |-> 0], rig |-> 0, models |-> {},
                 folders |-> {}, previous |-> Root, index |-> Len(images)]
    /\ runs = 0

(* Extraction is started, or started again after it ended or was killed.  A row *)
(* without features is what another program left.                              *)
Start ==
    /\ runs < MaxRuns /\ runs' = runs + 1
    /\ \E o \in Options : (o.existing = 0 \/ o.existing \in DOMAIN cameras) /\ Fresh(o)
    /\ UNCHANGED <<images, cameras, rows>>
-----------------------------------------------------------------------------
Image == images[reader.index + 1]
Row == rows[reader.index + 1]
Reading == reader.index < Len(images)

(* The image is done already, or it or its mask cannot be read. *)
Skip ==
    /\ Reading /\ (Row.complete \/ ~Image.readable)
    /\ reader' = [reader EXCEPT !.index = @ + 1]
    /\ UNCHANGED <<images, options, cameras, rigs, rows, runs>>

(* The image goes on to extraction with this camera and rig.  It may be lost     *)
(* there, or with the run, before the writer has it.                            *)
Succeed(camera, rig, models) ==
    reader' = [camera |-> camera, rig |-> rig, models |-> models,
               folders |-> reader.folders \cup {Image.folder},
               previous |-> Image.folder, index |-> reader.index + 1]

(* The row that the writer makes for a new image. *)
Written(camera, rig) ==
    [rows EXCEPT ![reader.index + 1] =
        [camera |-> camera, rig |-> rig, complete |-> TRUE, run |-> runs,
         again |-> {}, by |-> options]]

(* The row of an image that is read again; it is complete when the writer adds  *)
(* the features.                                                                *)
ReadBy(written) ==
    LET row == [Row EXCEPT !.again = @ \cup {runs}, !.complete = written]
    IN [rows EXCEPT ![reader.index + 1] = row]

(* An image with a row but without features keeps its camera, which becomes the *)
(* camera of the images that follow.                                            *)
ReadAgain ==
    LET size == cameras[Row.camera]
        refused == \/ /\ options.single /\ reader.camera.id # 0
                      /\ size # reader.camera.size
                   \/ Image.size # size
    IN /\ Reading /\ Row.camera # 0 /\ ~Row.complete /\ Image.readable
       /\ IF refused
          THEN reader' = [reader EXCEPT !.index = @ + 1] /\ UNCHANGED <<rows, rigs>>
          ELSE /\ Succeed([id |-> Row.camera, size |-> size], RigOf(Row.camera),
                          reader.models)
               /\ rigs' = RigsWith(Row.camera)
               /\ rows' \in {ReadBy(FALSE), ReadBy(TRUE)}
       /\ UNCHANGED <<images, options, cameras, runs>>

(* The camera of an image seen before with the same make, model, focal length  *)
(* and size, or else the one of the image before.                              *)
Model == <<Image.model, Image.size>>
Known == \E m \in reader.models : m.model = Model
Base ==
    IF ~Known THEN reader.camera
    ELSE LET m == CHOOSE m \in reader.models : m.model = Model
         IN [id |-> m.camera, size |-> cameras[m.camera]]
BaseRig == IF Known THEN RigOf(Base.id) ELSE reader.rig

Shares ==
    \/ options.single /\ ~options.folder
    \/ options.folder /\ Image.folder = reader.previous

NeedsCamera_EveryFolder ==
    \/ Base.id = 0
    \/ options.image
    \/ ~options.single /\ ~options.folder /\ options.existing = 0 /\ ~Known

NeedsCamera ==
    \/ Base.id = 0
    \/ options.image
    \/ ~options.single /\ ~options.folder /\ options.existing = 0 /\ ~Known
    \/ options.folder /\ Image.folder \notin reader.folders

(* A camera whose parameters are refused stays in prev_camera_, under the id of *)
(* the one before.                                                              *)
ReadNew ==
    /\ Reading /\ Row.camera = 0 /\ Image.readable
    /\ IF reader.camera.id # 0 /\ Shares /\ reader.camera.size # Image.size
       THEN /\ reader' = [reader EXCEPT !.index = @ + 1]
            /\ UNCHANGED <<rows, cameras, rigs>>
       ELSE IF ~NeedsCamera
       THEN /\ Succeed(Base, BaseRig, reader.models)
            /\ rows' \in {rows, Written(Base.id, BaseRig)}
            /\ UNCHANGED <<cameras, rigs>>
       ELSE IF ~Image.valid
       THEN /\ reader' = [reader EXCEPT !.index = @ + 1, !.rig = BaseRig,
                             !.camera = [id |-> Base.id, size |-> Image.size]]
            /\ UNCHANGED <<rows, cameras, rigs>>
       ELSE LET camera == Len(cameras) + 1 IN
            /\ cameras' = Append(cameras, Image.size)
            /\ rigs' = Append(rigs, camera)
            /\ rows' \in {rows, Written(camera, Len(rigs) + 1)}
            /\ Succeed([id |-> camera, size |-> Image.size], Len(rigs) + 1,
                       IF Image.model = "none" THEN reader.models
                       ELSE {m \in reader.models : m.model # Model}
                              \cup {[model |-> Model, camera |-> camera]})
    /\ UNCHANGED <<images, options, runs>>

Next == Start \/ Skip \/ ReadAgain \/ ReadNew

Spec == Init /\ [][Next]_vars
-----------------------------------------------------------------------------
TypeOK ==
    /\ images \in Collections /\ options \in Options \cup {NoOptions}
    /\ cameras \in Seq(Sizes) /\ rigs \in Seq(DOMAIN cameras)
    /\ rows \in [Indices -> [camera : 0 .. Len(cameras), rig : Nat, complete : BOOLEAN,
                             run : 0 .. runs, again : SUBSET (1 .. runs), by : Wishes]]
    /\ reader \in [camera : [id : 0 .. Len(cameras), size : Sizes \cup {0}],
                    rig : 0 .. Len(rigs),
                    models : SUBSET [model : Models \X Sizes, camera : DOMAIN cameras],
                    folders : SUBSET Folders, previous : Folders \cup {Root},
                    index : 0 .. Len(images)]
    /\ runs \in 0 .. MaxRuns

(* The frame of an image is of the rig its camera belongs to, and a camera     *)
(* belongs to one rig: camera and rig of the image before are replaced together *)
(* on every path, the refused ones included.                                   *)
Added == {i \in Indices : rows[i].run # 0}
RigsFit ==
    /\ \A i \in Added : rows[i].rig # 0 /\ rigs[rows[i].rig] = rows[i].camera
    /\ \A r, s \in DOMAIN rigs : rigs[r] = rigs[s] => r = s

(* An image has the size of its camera, whatever was refused before.  Not so    *)
(* when the user names the camera, and not when single_camera_per_folder meets *)
(* a folder again after one of its sub-folders: there the camera of the        *)
(* sub-folder is taken and no size is compared.                                *)
MetAgain(i) ==
    \E j, k \in Indices : j < k /\ k < i /\ images[j].folder = images[i].folder
                                       /\ images[k].folder # images[i].folder
CamerasFit ==
    \A i \in Added :
        rows[i].by.existing = 0 /\ ~(rows[i].by.folder /\ MetAgain(i)) =>
            cameras[rows[i].camera] = images[i].size

(* With single_camera the images that one run adds share a camera, the named    *)
(* one if there is one, unless an older image without features comes between.   *)
(* Once the run has read such an image again, one that is known by its EXIF     *)
(* data may come between as well.                                               *)
OneCamera ==
    \A i \in Added :
        LET by == rows[i].by
            Again(j) == \E k \in Indices : j <= k /\ k < i /\ rows[i].run \in rows[k].again
            Plain(j) == \A k \in Indices : j < k /\ k <= i => images[k].model = "none"
        IN by.single /\ ~by.folder /\ ~by.image =>
             /\ \A j \in Added :
                   j < i /\ rows[j].run = rows[i].run /\ (Again(1) => ~Again(j) /\ Plain(j))
                     => rows[j].camera = rows[i].camera
             /\ by.existing # 0 /\ ~Again(1) => rows[i].camera = by.existing
=============================================================================

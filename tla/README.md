# ColmapKit in TLA+

A verification project for ColmapKit, a build of the COLMAP structure-from-motion
library behind a C interface with cancellable jobs. Paths below are relative to
`src/src/colmap/` unless they begin with `src/`.

COLMAP is for the most part numerical code. What can go wrong in it without a number
being wrong is in four places: the threads and the queues between them; the caches they
share; the bookkeeping that mapper, triangulator and correspondence graph keep by increments
while frames, points and models come and go; and the files and rows that a run which is
stopped or killed leaves to the next one. That is what these modules model.

## 1. The system

| part | state | operations | works with |
|---|---|---|---|
| `util/threading.h` JobQueue | queue, stop flag, three condition variables | Push, Pop, Wait, Stop, Clear | every stage of extraction and matching |
| `util/threading.cc` Thread | seven flags, a mutex, the joinable thread | Start, Stop, Pause, Resume, Wait, CheckValidSetup; BlockIfPaused, IsStopped and the signals on the worker's side | base of all controllers |
| `util/threading.cc` ThreadPool | task queue, busy count, finished-task checkers | AddTask, Wait, Stop | pair search, rig verification, stereo |
| `util/cache.h` caches | an LRU list and map; entries with futures, or bytes per element | Get, Evict, Pop, Clear, UpdateNumBytes | matcher cache, stereo workspace |
| `mvs/workspace.cc` CachedWorkspace | a cache of images, each with its own mutex and parts loaded on demand | GetBitmap, GetDepthMap, GetNormalMap | patch match, fusion |
| `controllers/feature_extraction.cc` | three queues, resizer, extractor and writer threads, rows in the database | Run, Stop | Thread, JobQueue, database |
| `controllers/feature_matching*.cc` | four queues, matcher, verifier and guided-matcher threads, two rows for each pair | Match, Verify, rig verification | Thread, JobQueue, ThreadPool, cache, database |
| `sfm/observation_manager.cc` | five kinds of counters beside the points and tracks of a Reconstruction | add, merge and delete points and observations, register and remove frames, filters, AddImage | mapper, triangulator |
| `sfm/incremental_mapper.cc`, `_impl.cc` | registration statistics across models, trials, filtered and existing frames, tried pairs | Begin/EndReconstruction, Find*, Register*, FilterFrames | observation manager, ThreadPool |
| `controllers/incremental_pipeline.cc` | models, relaxation round, trial, the registration loop | Run, Reconstruct, ReconstructSubModel | mapper |
| `colmapkit/colmapkit.cc` | a job: worker thread, cancel flag, active stage, result | Start, Cancel, Wait, Release | all controllers |
| `controllers/image_reader.cc` | camera and rig of the image before, folders and camera models seen; camera, rig, frame and image rows | Next | database, extraction |
| `controllers/pairing.cc` | position in the images, pending pairs; for the vocabulary tree an index, a queue of results and a pool | Next, Reset, HasFinished | matching; ThreadPool, JobQueue |
| `scene/correspondence_graph.cc` | matches of every image point, counts of pairs, images and correspondences | AddImage, AddTwoViewGeometry, Finalize, UpdateTwoViewGeometry, Extract* | database cache, observation manager, triangulator |
| `scene/database_cache.cc` | the frames, images and pairs that were loaded | Load, CreateFromCache | database, correspondence graph, mapper |
| `sfm/incremental_triangulator.cc` | modified points, merge and retriangulation trials, bogus cameras | Triangulate, Complete, Merge, Retriangulate | observation manager, correspondence graph |
| `controllers/hierarchical_pipeline.cc`, `scene/scene_clustering.cc` | a tree of clusters, a manager of models for each | Partition, mapping the leaves, MergeClusters | pipeline, ThreadPool |
| `controllers/reconstruction_clustering.cc`, `scene/reconstruction_clustering.cc` | weights of pairs of frames, a union-find | ClusterReconstructionFrames, Run | global and incremental results |
| `sfm/global_mapper.cc` (tracks) | a union-find of observations, counters per image | EstablishTracks | correspondence graph |
| `mvs/patch_match.cc` | problems, locks of devices, files of depth and normal maps | Run, ProcessProblem | ThreadPool, workspace |
| `mvs/fusion.cc` | masks of fused pixels, images in use, points of each thread | Run, Fuse | ThreadPool, workspace |
| `controllers/automatic_reconstruction.cc` | the stage under way, what the workspace has | Run, Stop | all of these |
| estimators, geometry, retrieval, sensors, meshing, feature backends | real-valued | | |
| reading and writing files, options, GUI, command line, bindings, bundled code | none of their own | | |

What is hard about it, and what makes each part correct:

* **Queue, thread, pool.** One mutex with several conditions, notifications to one
  sleeper or after the lock is released, spurious wake-ups, waits without a loop. Correct
  means: no sleeper is forgotten, jobs are delivered once and in order, a stop reaches
  everyone, failures reach a caller, the flags tell where the thread is.
* **Caches.** Elements are loaded outside the lock and may be evicted, and come back,
  before the load ends. Correct means: one loader for each entry, every caller is
  answered, bytes are neither counted twice nor lost, a result lives while it is used.
* **Extraction and matching.** Stages that drain one another, cancellation, and a process
  killed between two rows of the database. Correct means: the pipeline ends, nothing
  computed is lost on the way, and a later run completes what an earlier one left.
* **Observation manager.** A dozen counters kept by increments under a long sequence of
  legal calls. Correct means: they equal what counting afresh would give.
* **Mapper and pipeline.** Statistics over several models, retries, and a loop that must
  end although frames are filtered again. Correct means: the statistics are right, seeds
  are new, the user's model survives, the loop ends, and not before it is stuck.
* **Triangulator.** Copies of correspondences that are used after points were created,
  merged and deleted. Correct means: nothing refers to a deleted point when the manager would
  throw, every changed point is among the modified ones, the options hold for every call.
* **Graph and cache.** Matches added in both directions, checked, de-duplicated and compacted,
  with counts by hand. Correct means: counts and lists agree, and the cache holds what the
  options ask of the database.
* **Pair generators.** Blocks, overlaps and a last batch that is shorter. Correct means: each
  pair that should come comes, and no more often than it should.
* **Image reader.** What is remembered of the image before is used for the next one. Correct
  means: camera and rig of an image fit it and one another.
* **Clusters, components, tracks.** Trees, union-find and greedy choices fed in the order of
  hash maps. Correct means: the result does not depend on it, and no image is lost.
* **Stereo.** Files and masks that several tasks read and write. Correct means: every view and
  pixel is done, none is redone, and a killed run can be continued.
* **Automatic reconstruction.** Stages that are skipped when their output exists. Correct
  means: a run nobody stops completes everything, and what is complete is not touched.
* **Job.** A cancel that races with the start of a stage. Correct means: it is never lost,
  and one terminal event says what the status says.

Which line carries which of these hazards is listed in `PROJECT.json`, `hazards`.

## 2. The modules

| module | models | shape |
|---|---|---|
| `BoundedFifo` | what a JobQueue promises: a bounded FIFO buffer that can be closed | abstract specification |
| `JobQueue` | JobQueue<T> | one step from one wait to the next; refines `BoundedFifo` |
| `Thread` | Thread, ControllerThread | controllers and one worker, at the granularity of critical sections |
| `ThreadPool` | ThreadPool | workers, clients, notifications outside the lock |
| `ThreadSafeLRUCache` | ThreadSafeLRUCache on LRUCache | entries with identities, so that an evicted one can be told from the one that replaced it |
| `CachedWorkspace` | CachedWorkspace on MemoryConstrainedLRUCache | objects owned by cache and threads, references that own nothing |
| `FeatureExtraction` | FeatureExtractorController and its threads | queue calls as atomic steps |
| `ImageReader` | ImageReader, and the rows that come of it | one action for each way through Next() |
| `FeatureMatching` | FeatureMatcherController, FeatureMatcherThread, rig verification | queue calls and rows of the database one by one |
| `PairGenerators` | the exhaustive, sequential, spatial, transitive and imported pair generators | one action for each call of Next(); the batches are functions of the position |
| `VocabTreePairs` | VocabTreePairGenerator | caller, pool and queue of results |
| `PairMatching` | the generators beside the matching of what they return | `FeatureMatching` with both modules of generators |
| `CorrespondenceGraph` | CorrespondenceGraph | one step for each match that is added |
| `DatabaseCache` | DatabaseCache::Load, CreateFromCache | extends `CorrespondenceGraph`: chooses the pairs, then builds the graph of them |
| `ObservationManager` | ObservationManager with the points of Reconstruction | one action for each operation, one step for each deletion of a loop |
| `IncrementalTriangulator` | IncrementalTriangulator | extends `ObservationManager`: loops over points and correspondences that call its actions; refines it |
| `InitialPairSearch` | FindInitialImagePair of the mapper | tasks, stop flag, tried pairs, the caller |
| `IncrementalPipeline` | IncrementalPipeline and the bookkeeping of IncrementalMapper | program counter over Run, Reconstruct, ReconstructSubModel |
| `HierarchicalPipeline` | HierarchicalPipeline, SceneClustering::PartitionHierarchical | the tree of clusters, mapping tasks, merging bottom-up |
| `UnionFind` | UnionFind | operators on the map of parents, with path compression |
| `ReconstructionClustering` | ClusterReconstructionFrames and its controller | edges joined in any order, then the models |
| `GlobalTracks` | GlobalMapper::EstablishTracks | matches joined in any order, then the choice of tracks |
| `PatchMatch` | PatchMatchController | sweeps, tasks, locks, files that may be torn |
| `StereoFusion` | StereoFusion | the images in turn, the tasks on blocks of rows, the traversal |
| `AutomaticReconstruction` | AutomaticReconstructionController | the stages as a small program, the caller of Stop(), the workspace on disk |
| `ColmapKitJob` | a job of the C interface | the stages as a small program, clients beside it |
| `Threading`, `Caching`, `PoolTasks`, `FeatureStages`, `MappingSearch` | JobQueue and Thread; both caches; pool, stereo, fusion and clusters; matching, extraction, job and automatic reconstruction; pipeline, search, parts and tracks | the components side by side, with the properties that runs check of them and theorems prove |
| `X_proofs` for `JobQueue`, `ThreadPool`, `ThreadSafeLRUCache`, `CorrespondenceGraph`, `IncrementalTriangulator`, `IncrementalPipeline`, `FeatureMatching`, and `Controllers_proofs` | theorems about X and what works with it (section 6) | TLAPS |

How they rest on one another: `FeatureExtraction` and `FeatureMatching` take a call of
Push or Pop as one step that waits for room or for a job, which is what `BoundedFifo`
allows and `JobQueue` implements. `ColmapKitJob` starts and stops its stages by the
interface that `Thread` provides: Start() clears an earlier stop, Stop() is seen by the
worker, Wait() joins it. `IncrementalPipeline` chooses any pair that `InitialPairSearch`
may return, and any images, failures and filtered frames that the counters of
`ObservationManager` could bring about. `IncrementalTriangulator` takes the actions of
`ObservationManager` for the calls it makes and keeps its invariants, which is proved
(section 6). `VocabTreePairs`, `HierarchicalPipeline`, `PatchMatch` and `StereoFusion` take the
tasks of a pool in their order, by any idle worker, and a Wait() that returns when none is
left, as `ThreadPool` does. `AutomaticReconstruction` starts and stops its two threads as
`Thread` allows: a stop that comes before Start() is forgotten.

Definitions have the name of the function or member they translate where TLA+ allows;
`PROJECT.json`, `map`, gives the lines of each. A definition `X_Something` before `X` is
a plausible mistake in `X` (a lost notification, an off-by-one, a missing reset); no
module uses it. It is there to confirm that the property it belongs to notices.

### Side by side

The MC modules put several components into one run without letting them interact: a
variable (`about`, `kind`), chosen in the initial state and never changed, says which
component a behaviour is about, and only that one moves. A property of such a run is that
of the component under the instance's parameters; the fairness of each component binds
the behaviours that are about it.

Five modules (`Threading`, `Caching`, `PoolTasks`, `FeatureStages`, `MappingSearch`) declare the
constants and variables of such components together and state what is asked of all of them;
an MC module extends one and gives it values, a proof module extends the same one and proves
the same definitions for all values.

| MC module | subjects |
|---|---|
| `MCThreading` | `queue`, `thread` |
| `MCThreadPool` | `pool`, `stereo` (PatchMatch), `fusion`, `clusters` (HierarchicalPipeline) |
| `MCCaches` | `cache`, `workspace` |
| `MCObservationManager` | `offline` and `live` (the manager alone), `triangulate` and `transitive` (the triangulator), `graph`, `cache` (DatabaseCache), `reader` (ImageReader) |
| `MCFeatures` | `matching`, `verification`, `extraction`, `job`, `pairs`, `vocabulary`, `automatic` |
| `MCMapping` | `single`, `models`, `rigs`, `given`, `fallback` (five settings of the pipeline), `search`, `tracks` (GlobalTracks), `parts` (ReconstructionClustering) |

Assumptions on constants are ASSUMEs of the module that declares them, where a run's module
extends it; TLC evaluates them there. The modules that are only instantiated
(`CorrespondenceGraph`, `InitialPairSearch`, `PatchMatch` and so on) name them as definitions
instead: the MC module assumes them of the instance, and the theorems about these modules
have them as hypotheses.

## 3. State and actions against the code

**JobQueue.** A method holds `mutex_` from its first line to its return or to a wait, so
an action is one such piece: `PushBlocks`, `PushSucceeds`, `PushFails`, and so on.
`asleep[c]` are the threads waiting on condition c; a notified thread leaves the set and
contends for the mutex with everyone else, therefore it may be overtaken. `Stop()` sets
the flag under the lock and notifies two conditions after it: three steps. Job number n
is the n-th one accepted.

**Thread.** `flags` are the members of the class; `mutex` names the controller that keeps
the lock across steps (Start() does, from the join of the old run to the reset of the
flags); `worker` is the place of the worker in the loop `util/threading.h` documents. IsStopped() and the item that its answer lets begin are two
steps, with the mutex free in between; `lateItems` (history) counts the items that began after
Stop() had returned.

**ThreadPool.** A worker looks for a task, runs it without the lock, reports, then
notifies. `outcome` is what the future of a task says, `checkers` what Wait() and Stop()
will rethrow, `reported` (history) what they have.

**ThreadSafeLRUCache.** Get() is one step under the lock (find or insert, move to the
front, evict the last), one or two for the load, one for the return. Identities of
entries are reused once neither the cache nor a thread refers to them.

**CachedWorkspace.** Get*() takes the cache lock, then the object's lock, loads, then takes
the cache lock again to update the bytes. `heap` holds the objects that somebody owns;
`ref` is what a plain reference points to after the call.

**FeatureExtraction, FeatureMatching.** One action for each queue call and each database
statement or transaction. `hand[w]` is what a thread works on. `Rerun` ends or kills the
process at any point and starts again on the same rows. A row of matches or geometry is
absent, poor (below `min_num_inliers`) or good.

**ObservationManager.** `point` and `track` are the two directions of the 3D points, the
rest are the members of `image_stats_` and `image_pair_stats_`. `DeRegisterFrame` and the
reprojection filter are loops: `removing` and `filtered` say which is under way.

**InitialPairSearch.** The result of the geometric estimation of a pair is fixed in the
initial state (`good`), so is what earlier calls tried (`before`). The two checks of the
stop flag, the insertion into the shared set and the estimation are steps of their own.

**IncrementalPipeline.** Points and poses are left out. What they decide (the images that
see enough points, the success of an estimation, the frames a filter removes) is any
choice; kept are the bounds the code tests (`kMinNumFrames`, trials, model sizes,
`kMinNumInitialRegTrials`) as constants, so that three images reach them all. `Provided` is what
the user gives of `init_image_id1` and `init_image_id2`. Two images are taken as they are
(`IsInitialPairProvided`); one alone (`controllers/incremental_pipeline.h:71`) is the first image
of every pair, without the checks that other first images undergo
(`sfm/incremental_mapper_impl.cc:204`), so that each model begins with it; `SeedPairs` says so. Two given ids are
distinct. A trial of RegisterNextImage() is one of the image alone or, if its frame has several,
of all images of the frame (`sfm/incremental_mapper.cc:225`, `:484`): `CountNextImage`.

**IncrementalTriangulator.** A call is a loop over image points or points, and an action is
one turn of it, up to the next change of the reconstruction: `corrs` are the correspondences
that were collected before it, as copies, `queue` what Complete() has still to look at.
Estimations return any subset of what they are given, also nothing. `modified` are the ids
that the bundle adjustment will be told of. Fresh ids come from three that are reused, where
the code counts up.

**CorrespondenceGraph, DatabaseCache.** `listed` are the correspondences of each image point
as a set of pairs, with their counts beside it; `direction` says which way round a geometry is
kept. AddTwoViewGeometry() goes through its matches one by one and may throw at a bogus index
after it has counted; so `adding` and `thrown`. A database is a set of rows; Load() and
CreateFromCache() choose images and pairs in their steps, then add each pair.

**ImageReader.** `reader` is what the object remembers, `cameras` and `rigs` the rows that are
written when an image is read, `rows` the image rows, written by the extraction's writer later
or, if the process ends before, never. Who added a row, with which options, is history.

**PairGenerators, VocabTreePairs.** Indices, as in the code, start at 0. `out` is the batch
that Next() returned last, with what came before it as history. The pool of the vocabulary
tree and its queue are those of `ThreadPool` and `JobQueue`, a query that throws included.

**HierarchicalPipeline.** `part` is the tree, any that the graph cut may give; each leaf is a
task. Which models the mapper finds in a leaf and which of them can be aligned is any choice,
fixed in advance. Merging goes up the tree; models are erased by index.

**ReconstructionClustering, GlobalTracks.** Both join pairs in any order with the operators of
`UnionFind`; `edges` or `todo` is what is left. Equal sizes, which std::sort leaves in any
order, are taken in any order.

**PatchMatch.** `files` are missing, torn or complete for each view and kind; the estimation of
a view holds one lock of a device. A run may be killed and started again on the same files.

**StereoFusion.** `masks` are the fused pixels as the tasks see them: each works on the state
in which the block was queued and writes without a lock. Projections and agreement between
pixels are constants.

**AutomaticReconstruction.** `stage` and `at` are the place of Run(); `sparse` and `dense` the
directories of the workspace, a result being the model it belongs to and whether it is
complete. The stages themselves are one or two steps.

**ColmapKitJob.** `Program` is the sequence of steps of `RunSparseReconstructionImpl`,
with the guard of `ScopedActiveThread` around two stages; `exit` is the exception on its
way to the handlers.

## 4. The runs

Six runs pass. Every property has a mutation of a modelled definition that breaks it, and the
properties that speak of several components have one for each of the larger ones. `TypesOK`
stands for the type invariants of all subjects of a run.

| run | bounds | shows |
|---|---|---|
| `threading` | queue: 2 producers, 2 consumers, 1 controller, 2 places, 4 pushes; thread: an owner and a user interface | `NoLostWakeup`, `ImplementsFifo` (refinement of `BoundedFifo`); `FlagsTellTheTruth`; `OneItemAfterStop`: a run does one more item at most once Stop() has returned; `StopFinishes`: a stop releases every sleeper of a queue and ends a thread, and whoever waits for the setup is told |
| `thread_pool` | pool: 2 workers, 2 clients, 3 tasks, one fails; stereo: 3 images, 2 problems, 2 runs; fusion: 4 images, one not in use, 2 workers; clusters: 8 images, 13 trees of depth 2 at most | `PoolNoLostWakeup`, `WaitReports`; `PoolCallsEnd`: calls of the pool, stereo and fusion end; `ViewsComplete`, `DoneIsLeftAlone`: every view is computed, also after a kill, and none twice; `PixelsFused`; `ClustersMerged`: no registered image is lost in merging, and one model is left where all poses agree and three images on either side of the first cut are matched across it |
| `caches` | cache: 3 threads, 2 keys, 1 place; workspace: 2 threads, 2 images, 2 parts of 1 and 3 bytes, 3 bytes in all | `OneLoader`, `GetsEnd`; `BytesAddUp`, which includes that an image is counted with all its bytes once no load is under way |
| `observations` | 3 images with 2 points each, 3 point ids; graph: 7 geometries; cache: databases of at most 4 rows; reader: 5 collections, 8 options, 3 databases, 2 runs | `TracksAgree`, `AllCountersAgree` for manager, triangulator, graph and cache; `NothingDangles`: points are seen by registered frames only, correspondences are listed at both ends, rigs fit cameras; `ModifiedComplete`, `NothingThrows` of the triangulator; `OptionsHonoured`: no two-view tracks, the cache is what the options ask of the database, cameras are those the options of the reader ask for |
| `features` | matching: 2 matchers, 1 verifier, 1 guided matcher, 2 batches with a self-match, a repeated and a reversed pair and one of a frame; verification: 2 verifiers and 2 rig threads, a pair of a frame and one that is complete; extraction: 4 images, one unreadable, one without features, 2 extractors, queues of 1; job: 2 cancelling clients, 1 that waits and releases; pairs: up to 7 images; vocabulary: 5 queries, one throws, 2 threads; automatic: 2 models, 3 options; 2 runs where runs are repeated | `NoAbort`; `EveryPairMatched`, from the generators to the rows; `AllWritten`, `ResultsKept`: what was computed is there, is completed by a later run and is not made again; `RunsEnd`; `EndsAsTold`: one terminal event of a job, at most one stage after Stop() of an automatic reconstruction; `CancelIsNotFailure` |
| `mapping` | 3 or 4 images: single frames with relaxation, two disconnected pairs, two rigs with an imported model and a given pair, one given image that is matched with two of three others, the structure-less fallback; search: 3 images, 2 workers; tracks: 3 images, 6 sets of up to 5 matches, 3 points; parts: 5 scenes of up to 6 images, 4 thresholds | `StatisticsAgree`: registrations are what counting afresh gives, and an image that failed as often as the options allow, also one of a rig, is not tried again in this model; `ConnectedOnes`: roots are those of the connected frames or observations at every step, the models are the parts that are large enough, no point is in two models or reaches out of its own, images that tracks have still to serve are counted exactly and none is given up early; `ModelsKept`, with the user's model; `NewSeeds`: a model begins outside of the others, but for an image the user gave, which is always in it; `SearchIsSound`: the search fails only when no good pair was left and no task outlives it; `MappingEnds`, of frames with one image and of rigs |

Five runs end in a violation, each of one property that a comment of the code states:

| run | the code | what the comment says |
|---|---|---|
| `workspace_parallel` (`ResultAlive`) | the I/O pool of PatchMatchController calls one CachedWorkspace from several threads and copies through the returned reference; another call may have evicted and destroyed the object (`mvs/patch_match.cc:505`) | "Only access workspace from one thread at a time" (`mvs/patch_match.cc:462`) |
| `observations_live` (`VisibleCorrsLive`) | AddImage() starts the counter of visible correspondences at 0 although registered images match the new one; de-registering one of those later fails the underflow check (`sfm/observation_manager.cc:138`, `:618`) | "The sum of correspondences that have a corresponding registered image" (`sfm/observation_manager.h:209`) |
| `matching_unverified` (`HalfPairsRecomputed`) | without geometric verification nobody serves the verifier queue, yet a pair that has matches only is pushed there and its output awaited for ever (`controllers/feature_matching_utils.cc:488`) | "If only one of the matches or inlier matches exist, we recompute them" (`:473`) |
| `pipeline_structure_less` (`ExitsOnlyWhenStuck`) | a failed refinement makes the registration return false after the frame was registered; the loop takes it for a pass that registered nothing (`sfm/incremental_mapper.cc:900`) | "If no image could be registered, ..." (`controllers/incremental_pipeline.cc:622`) |
| `pair_search_order` (`SameAsSequential`) | a task gives up as soon as any other has succeeded, also one with a less preferred image: the pair returned depends on timing (`sfm/incremental_mapper_impl.cc:255`) | "This is deterministic and produces the same result as the single-threaded version" (`:289`) |

### Why the bounds are enough

* *Queue.* Capacity 2 distinguishes empty, partly full and full; 4 pushes fill it, empty
  it and fill it again; with two threads on either side a notification can go to the
  wrong one of two, and a newcomer can overtake. The proofs of section 6 do without them.
* *Pool, thread.* Two workers and three tasks: one can be queued while both run, one
  fails while others run. The good tasks are interchangeable, so one of them is always
  added first. Two controllers are the owner and one outsider, which is how the GUI and
  the job use the class. Thread has no bound: runs follow one another for ever.
* *Caches.* One place for two keys makes every Get() evict; three threads let a loader, a
  waiter and a caller of the replaced key meet. The bytes are such that one big part
  exceeds what is left beside another.
* *Observations.* Two points for an image give tracks of two and three, merges, a track
  that sees an image twice and a frame that sees itself; three ids let a merge take two
  points into a new one.
* *Triangulator.* A chain and a star of image points make tracks grow, meet and branch;
  `kMinRecursiveTrackLength` is 2, so that three images reach the recursive triangulation;
  image points of one image are visited in ascending order, as the code does.
* *Graph, cache.* Geometries that repeat a match, name a bogus index on either side, come in
  both directions, are empty, or match an image with itself; images are added before
  Finalize(), and one call may throw. Options: any, one or two names; no minimum or two
  matches; with and without pairs that were marked to be ignored.
* *Reader.* Sizes 1 and 2 are what a camera must tell apart. The collections have another
  size in a folder of its own and amid others, EXIF data known from another folder, refused
  parameters, a folder met again, an old image between two that are known by EXIF data; the
  databases are empty or have images without features, with and without a rig.
* *Pairs.* Blocks of 2 to 4 for 0 to 7 images: empty, one short block, exact multiples, a last
  block of one. Positions with three images at one place.
* *Vocabulary.* Five queries by two threads: the first batch of four leaves one.
* *Stereo.* Two problems that are sources of each other and an image without a problem; both
  sweeps; two starts show what a second makes of any files.
* *Fusion.* Two pixels for a point and depth 3 for the traversal: both limits are met.
  Blocks of rows (`kRowStride`) are given, one or two for an image.
* *Clusters.* Eight images, cut at most twice; the alignment needs three common images, as the
  code does. Matches of three images cross the first cut or of two, or nothing is cut; single
  matches cross the second cuts, so that their clusters share enough only by the overlap of
  the first.
* *Parts, tracks.* The scenes have weights on either side of each threshold, images of one
  frame in a track, and points that lose all, some or none of their images; the matches give
  tracks that see an image twice, near or far, and use up the budget or do not.
* *Automatic.* Two models are enough for directories to be numbered otherwise than models.
* *Features.* Queues of one place are full at once. Two runs show what a second one makes
  of any rows, since the rows of the first are any.
* *Mapping.* Thresholds (20 frames, 30 trials, two relaxations) are constants of 2, 1 and 1;
  each side of every comparison is reached. A given image with two neighbours and one trial
  lets two models begin with it, each time with another partner.

`CHECK_DEADLOCK FALSE` is said where the system stops: jobs that are released, and
processes that have ended and are not run again. Where only a few subjects of a run stop,
they stutter instead (`Finished`, `Pruned`, `Selected`).

## 5. Fairness

* *Threads* that can run are run: weak fairness of each thread's next step. Where the step
  needs a mutex that others take again and again (`Thread`), strong fairness: the lock is
  free infinitely often and is not withheld from one contender for ever. Calling a method
  is the choice of the client and never fair, nor is a spurious wake-up.
* *External work ends*: a load, a task of the pool, a match, an estimation.
* `ColmapKitJob` is the exception: a stage need not end unless it has been stopped, since
  "a cancel ends the job" must not be true for the reason that every stage ends anyway.
* Each fairness of a run is that of the subject the behaviour is about
  (`about = ... /\ ...`); the other subjects do not move and owe nothing.
* *Vocabulary tree, stereo, fusion*: the caller inside a call and each worker of the pool are
  fair; the next call is the caller's choice.
* *Automatic reconstruction, image reader, pair generators, clusters, tracks* have no fairness:
  they are sequential, or their stages are external, and only safety is asked of them.
* *Pipeline*: the thread that runs it goes on. Nobody has to stop it; it ends on its own, which
  is checked of the settings `single` and `rigs`.
* `StopFinishes` assumes that the thread is not kept paused for ever.

## 6. What is proved

Eight modules hold proofs. Each says what holds for every value of the constants that
satisfies the named assumptions; those are what the code guarantees (a pool has a worker, a
queue has room for a job, threads and images are finitely many) or rule out what section 7
tells of. None of them limits the number of runs, calls or steps. The invariants were first
checked by TLC on the instances of section 4.

| proof module | about | assumptions besides finite sets and types |
|---|---|---|
| `JobQueue_proofs` | JobQueue, Thread | |
| `ThreadPool_proofs` | ThreadPool, StereoFusion, PatchMatch, HierarchicalPipeline | `FusionAssumption`, `ProblemsAssumption`, `ClusteringAssumption`: images of lists and edges exist |
| `ThreadSafeLRUCache_proofs` | both caches | `GenerationsAssumption`: finitely many threads, and more objects of an image may be told apart than threads hold |
| `CorrespondenceGraph_proofs` | CorrespondenceGraph, DatabaseCache | `GeometriesAssumption`, `RowsAssumption`: a match is of points of the two images or of an index that none has; the two images are the key of a row |
| `IncrementalTriangulator_proofs` | ObservationManager, IncrementalTriangulator | `TransitivityAssumption`: what Options::Check() requires |
| `IncrementalPipeline_proofs` | IncrementalPipeline, InitialPairSearch, UnionFind, ReconstructionClustering, GlobalTracks | `AcrossFrames`, `FramesHaveImages`, `SearchAssumption`, where named below; `ScenesAssumption`, `TracksAssumption`: points are seen by images of the model, matches are of registered images |
| `FeatureMatching_proofs` | FeatureMatching, PairGenerators, VocabTreePairs | `OptionsAssumption`: what PairingOptions::Check() requires, the images are whole frames; `QueriesAssumption`: finitely many threads, at least one |
| `Controllers_proofs` | ColmapKitJob, AutomaticReconstruction, FeatureExtraction, ImageReader | `StagesAssumption`, `ThreadsAssumption`, `CollectionsAssumption`: one rig for a camera in the database found |

### The queue and the thread

`JobQueue_proofs` proves, for every set of threads, capacity, distribution of methods over
threads and number of pushes: `TypeCorrect`, `WakeupSafety` (`Spec => []NoLostWakeup`) and
`Refinement` (`Spec => ImplementsFifo`: FIFO order, each job once, none beyond the capacity,
none accepted or delivered after Stop()).

While a Pop() sleeps, a job can be in the queue only if somebody is awake in Pop() to take
it: `PopWakeup` says so by counting, at most as many jobs as threads awake in Pop(). Every
Push() adds one to the left side and, by its notification, wakes one sleeper if there is one;
every Pop() takes one off both. Pop() notifies no consumer, so the count, and not "one is
awake", is what survives a newcomer who takes the job. It is here that the code depends on
Push() notifying for every job: were it to notify only when the queue had been empty, two
jobs and two sleepers would leave one asleep. `PushWakeup` is the same for free places.
`EmptyWakeup` and `StopWakeup` handle the other condition and Stop(), which sets the flag
before it notifies. None of this is inductive alone: `IInv` adds the types, `SleepersWait` (a
sleeper is in the method that waits there), `StopSet` (only Stop() is on the way to notify)
and `Consecutive` (the queue holds the last accepted numbers in order), from which the
refinement follows.

Of Thread it proves, for any controllers and calls and without `OneOwner`: `FlagsAlwaysTrue`
(`[]FlagsTellTheTruth`), `OneItemAtMost` (`OneItemAfterStop`) and the types, which
`ThreadingTypeCorrect` (`[]TypesOK`) states of both classes. The flags can be read while nobody
holds the mutex, but Start() spawns the worker and resets the flags in one critical section, and
in between they are those of the run before: the invariant `ThreadInv` says who keeps the mutex
and where the worker can be meanwhile. IsStopped() releases the mutex before its caller acts on
the answer, so an item may begin after Stop() has returned; `AnswersUsed` says that only an
answer from before the stop lets one begin, and the next answer is another one.

### The pool, fusion, stereo and clusters

`ThreadPool_proofs` proves of the pool, for every non-empty finite set of workers and any
clients and tasks: `TypeCorrect`, `WakeupSafety` and `WaitSafety` (`Spec => WaitReports`).
Wait() looks at a queue and a counter; what it promises is about futures and exceptions.
`TasksAccountedFor` is the link: a queued task is in the queue, a running one is with a worker,
and a failure is reported, in a checker or with a worker that has still to report it. It holds
because a worker lowers the counter and leaves its checker in one critical section
(`util/threading.cc:276`).

Of the fusion: `FusionComplete` (`[]PixelsFused`) and `FusedStaysFused` (`FusedImagesRest`).
`FusionInv` says that every pixel of the image under way that is not masked, and should be,
waits somewhere: in a block that is queued or to be queued, in the rest of a worker's block,
or as the one a worker looks at. Masks only grow; a worker's points are disjoint and masked,
and what a worker holds is not of a fused image.

Of the stereo: `ViewsAlwaysComplete` (`[]ViewsComplete`) and `DoneStays`
(`DoneIsLeftAlone`), with any number of kills and restarts. `SweepInv`: no problem is in two
places; the last file of a view is written only when the others are whole; the view that a
worker has is never complete; after the first sweep every problem has its maps or the run was
stopped, and a failure means that a problem was not solvable.

Of the clusters: `HierarchyKeeps` (`[]NoImageLost`), for any graph cut, any models of the leaves
and any alignments, and `ClustersAlwaysMerge` (`[]ClustersMerged`), without a hypothesis of its
own: what the scene has to offer for one model to be left (`Crossed`, and an overlap of three)
is part of the property. `ClusterInv` says that the images shown by the managers that are left are
those the leaves registered (`HeldIn`), while two models are merged as before and after it
(`MergingRight`), that managers stand at clusters of which none is below another
(`Antichain`), and how the tree divides the images (`Divided`). For
the one model: each half of the first cut receives all its neighbours beyond it, or else as many
as the overlap asks for, namely all that are matched better than some other (`OverlapEnough`). A
cluster receives the overlap of all clusters above it, so two siblings further down share what
the half they are in has received (`OverlapIsShared`), and their models align
(`OneModelEach`).

`AllTypesCorrect` (`[]TypesOK`) puts the types of all four together.

### The caches

`ThreadSafeLRUCache_proofs` proves the types and `[]OneLoader` for any threads, keys and
size: an entry that is being loaded is marked as such, whether the cache has it or only its
loader and those who wait. Of the workspace: `CachesTypeCorrect` and `BytesCounted`
(`[]BytesAddUp`). `WInv` says that each image and each object is listed once and an object
belongs to its image, that `numBytes` is the sum over the list, that the heap is exactly what
cache and threads own, and that an object that nobody loads into is counted with all its bytes.
Sums are treated by induction over the prefixes of the list; that an object nobody owns is
left for a new load is a pigeonhole argument over the threads.

### Graph and cache of the database

`CorrespondenceGraph_proofs` proves, for every graph and whatever geometries are added in
which order: `AlwaysSymmetric` (correspondences are listed at both ends), `CountsAlwaysAgree`,
`AlwaysDirected`. Between the lines AddTwoViewGeometry() counts before it checks, so `Counted`
is that the counts are no less than what is listed, and `AddingOK` how far the geometry under
way has been counted.

Of the cache, for any rows, frames, options and earlier caches: `CacheGraphSound` (the same
of its graph), `CacheNeverThrows` (`images_.at()` finds both images of every pair and no pair
comes twice) and `CacheAlwaysDatabase` (`CacheIsDatabase`). Load() chooses pairs in one loop and
adds them in another; `CInv` bridges the two by `Held`, the matches that are listed, of the
geometry being added or of those to come: it is from the first step on what the options ask of
the rows.

### Observation manager and triangulator

`IncrementalTriangulator_proofs` proves of the manager, for any images, image points, matches
and frames: type correctness, `TracksAgree`, `OnlyRegistered` and `CountersAgree`, and
`VisibleCorrsCounted` when all images are known from the start (`InitialImages = Images`; the
run `observations_live` shows that it is violated otherwise). The counters are not an extra:
deletions are guarded by checks on them, and a track can only be shown to be taken apart
consistently if those checks do not fire halfway; so they are part of one invariant.
Counting afresh counts pairs of matched image points that share a track; the lemmas say how
that set grows or shrinks when one image point joins or leaves a track, the turned-round pairs
being as many by a bijection.

Of the triangulator: `TriangulatorUsesManager` (`TriSpec => Spec`: every step maps to one of
the manager or a stutter), so that all of the above holds under it; `NothingEverThrows`, because
the copies of correspondences that Continue() uses stay usable between their collection and
their use; and `ModifiedAlwaysComplete`. The stale id of `sfm/incremental_triangulator.cc:661`
leaves one id too many there and none too few.

`TwoViewAlwaysIgnored` (`TwoViewIgnored`, part of `OptionsHonoured`): with
`ignore_two_view_tracks` two image points that match each other and nothing else enter no
track. The option is only asked when an image point is triangulated itself; the other operations
reach image points by transitive matches, from tracks and from lists made earlier, and Create()
accepts whatever is left of its candidates. `TwoViewInv` says that tracks, work waiting and
points to merge hold no such image point, and that what was found from an image point is its
kin: itself or reached from it by matches, so a point of a two-view track is met only by its
partner (`FoundAreKin`, an induction over the levels of the search).

### Pipeline and search for the initial pair

`IncrementalPipeline_proofs` proves, for any images, frames, imported model and sequence of
relaxations: `TypeCorrect`, `ModelsAlwaysKept` (`[]ModelsKept`), `SeedsAlwaysNew` (a model begins
with images of no other model, except one the user gave, which is in it),
`FailedAlwaysIgnored` (`[]FailedImagesIgnored`) and
`RegistrationsExact` (`[]RegistrationsCounted`). `FailedAlwaysIgnored` rests on
`FailuresCounted`: each failure has counted a trial of the image, on either path of
RegisterNextImage(), and what waits in the lists of this pass has a trial left. The last needs `AcrossFrames`, that neither the
initial pair nor a structure-less registration takes two images of one frame, because the
code counts the events of the frame twice otherwise (section 7); without it the
statistics still never miss a registered image (`Core`, `Held`), which is what makes seeds new.
`IInv` further says where the loop may be (`Placed`), that a model in work has room among those
that were asked for (`Room`), how many trials an image can have had (`TrialsCounted`) and that
nothing leads to the end of an imported model but success (`ImportedHeld`); `ModelsBounded`
and `SmallModelsDiscarded` follow from it, and so does the survival of the imported model
when each frame has an image.

Of the search: `NoTaskOutlives`, `FailureIsTrue`, together `SearchAlwaysSound`, for any workers,
images and candidate lists (`SearchAssumption`). That a search which fails has seen every pair needs: the stop flag is only set by a task that succeeded, a
task that is ready without a result has walked its list or was stopped, a good pair among
the tried ones belongs to a task that found it, and the caller has awaited, in order, what it
returns from.

### Union-find, parts and tracks

The lemmas on `UnionFind` hold for any elements. `Forest`: the map of parents has a rank that
every step towards a root lowers, so recursion along it is defined (`ForestRecursion`) and what
passes from parent to child holds everywhere (`UpTheForest`). Find() keeps all roots
(`FindKeepsRoots`), whatever it compresses; Union() gives one class the root of another
(`UnionRoots`). `Connects` is the invariant of a sequence of Union(): the ends of every pair have
one root, and a set that no pair leaves has all or none of the elements of a root. It is kept by
any pair in any order (`UnionConnects`) and by Compress(), and it implies the reference that
TLC compares with, `Joins`: the classes found by growing a set until nothing is near it, which
end because the set of elements is finite (`NearerForest`: the sets, ranked by their size, are a
forest themselves).

`PartsAreConnected` and `TracksServe` build on it, for any scene, matches, thresholds and any
order of joins and of equal sizes, and `ConnectedAlways` (`[]ConnectedOnes`) states both.
`PartsInv` adds that the clusters are an enumeration of the large classes; that a cluster keeps
of a point only the images in it is a recursion along the point's track (`KeptInside`).
`TracksInv` adds that candidates are an enumeration of the valid tracks, that every
track whose turn is over was added or finds its images served (`TurnsDone`; counts only grow),
and that counts and `images_left` are exact, because a track is disjoint from those added before.

### Matching

`FeatureMatching_proofs` proves, for any threads, any lists of pairs, any rows found at the
start, any mode of each run and wherever a run is killed: `NeverAborts` (`[]NoAbort`: none of
the checks of Match() and none of the uniqueness constraints of the database fires),
`NoneLeftOut` (`[]AllMatched`) and `NoOrphans` (`NoOrphanGeometry`). A pair under way is in one
place (`OnePlace`), there are as many as Match() still waits for (`Counted`), their rows are
such that what is written next is not there yet (`RowsReady`), and a wanted pair is done, on
its way or ahead in a batch (`NoneForgotten`).

Of the generators, for any options that they accept and Reset() at any time:
`AllPairsReturned` (`[]PairsComplete`), `PairsTypeCorrect`. `PairsInv` says how often each
pair was returned as a function of the position: a block was if its row or, in the same
row, its column was. What the batches are then follows by arithmetic: of two images, the
remainders by the block size decide in which order the pair is chosen; an image of a
frame has one of the same frame in every camera; the first entries of a row in the order of
distance are the nearest. `ClosureInv`, of the transitive generator, says that the ends of every
path of 2^iteration matched pairs have inliers or are pending.

Of the vocabulary tree, for any number of threads and queries, whichever throw:
`VocabularyTypeCorrect`, `AnsweredAlwaysOnce` (`[]AnsweredOnce`). Queries that wait, are held,
wait as results or are answered are different from one another, the waiting ones are the last
in order (`QueryPlaces`), and there are as many as Next() still expects; `QueryBound` says how
many Reset() may have left behind. `MatchingComplete` joins the three: `[]EveryPairMatched`.

### Controllers

`Controllers_proofs` proves, without the runs' bounds:

* of the job, for any cancellers: `JobEndsOnce` (`OneTerminalEvent`), `CancelledIsToldSo`;
* of the automatic reconstruction, for any models and options: `OneStageAfterStop`,
  `NothingCompleteLost` (`CompleteStays`), `EverythingIsMade` (`AllMade`). `MadeInv` ties
  what is on disk to models (`SameModels`) and to what a later run takes for complete
  (`ModelsWhole`, `DenseWhole`), for histories without the interruptions that section 7 names;
* of the extraction, for any images, queues and threads: `ExtractionComplete` (`AllWritten`),
  `FeaturesNeverDropped` (`FeaturesKept`). An image that was read and is not written is on its
  way, in a queue or in a hand (`NoneLost`), and a stage is joined only when its queue is
  empty (`StagesInOrder`);
* of the image reader, for any collections, databases, options and runs:
  `ReaderRigsFit`, `ReaderCamerasFit`, `ReaderOneCamera`. The reader keeps one camera, one size
  and one rig from image to image, also from images it refuses. `RigsPaired`: camera and rig
  are always of one another. `SizesKept`: the kept size is wrong only where nothing is compared
  with it, or in a folder that was left (`FoldersSeen`). `OneKept`: whose camera the kept one is.
  Proving it showed that `OneCamera` as first stated was false beyond the bounds of the run
  (section 7); it now says when two cameras may alternate;
* together: `StoppedRunsEndAsTold` (`EndsAsTold`), `NothingMadeIsLost` (`ResultsKept`),
  `RunsMakeEverything` (`AllWritten`).

### What is only model-checked

* Liveness under fairness (`StopFinishes`, `PoolCallsEnd`, `GetsEnd`, `RunsEnd`,
  `MappingEnds`) and ENABLED are beyond the prover.
* RECURSIVE operators, and the library's theorems that take an operator as a parameter. What is
  defined by recursion over numbers or prefixes is within reach: the proofs use recursive
  functions and an induction principle for sets of naturals. SortSeq, SelectSeq, the folds and
  functions of several variables are not expanded by the prover, and `BySize`, `Kept`, `Total` and
  the counts of matches are therefore written as sets, recursive functions or functions of pairs.
* Properties that speak of one component under several parameters, by subject. They are stated
  over instances in the MC modules, and proved component by component for any parameters; each
  conjunct has its theorem:
  `NothingDangles` (`OnlyRegisteredSee`, `AlwaysSymmetric`, `AlwaysDirected`, `CacheGraphSound`,
  `CacheNeverThrows`, `ReaderRigsFit`), `AllCountersAgree` (`CountersAlwaysAgree`,
  `VisibleCorrsAlwaysCounted`, `TriangulatorKeepsCounts`, `CountsAlwaysAgree`,
  `CacheGraphSound`), `OptionsHonoured` (`TwoViewAlwaysIgnored`, `CacheAlwaysDatabase`,
  `ReaderCamerasFit`, `ReaderOneCamera`), `StatisticsAgree` (`FailedAlwaysIgnored` and,
  under `AcrossFrames`, `RegistrationsExact`), `ModelsKept` (`ModelsAlwaysKept`),
  `NewSeeds` (`SeedsAlwaysNew`), and
  `TypesOK` of manager, features and mapping: every component of these three runs has a theorem
  for its type invariant, the search (`SearchTypeCorrect`), the extraction
  (`ExtractionTypeCorrect`) and the automatic reconstruction (`ReconstructionTypeCorrect`) among
  them.
* The properties of the runs that end in a violation are not proved, naturally.

## 7. What was noticed on the way

These contradict no run of the project, or are part of the model without a property:

* `JobQueue::Clear` notifies nobody (`util/threading.h:464`). A producer that sleeps on a
  full queue stays asleep. All callers stop the queue first, which wakes it; `DisciplinedClear`
  is that usage.
* `JobQueue::Wait` returns when the queue is empty, and does not stop it: a push may follow
  at once.
* `Thread::BlockIfPaused` and `CheckValidSetup` wait without a loop
  (`util/threading.cc:159`, `:168`): a spurious wake-up lets a paused worker go on, or
  reports the setup of a thread that has not signalled it.
* A second `ThreadPool::Stop` returns at once (`util/threading.cc:214`): failures of tasks
  that ended after the first are reported by none.
* After a failed load `ThreadSafeLRUCache` evicts by key (`util/cache.h:310`): the entry
  under the key may be another, good one. It is then loaded again.
* The parallel search for the initial pair marks every pair it claims as tried: a good one
  that was estimated and not returned is not looked at again in this round
  (`sfm/incremental_mapper_impl.cc:264`).
* An initial pair of two images of one frame is counted twice for each image of the frame
  (`sfm/incremental_mapper.cc:185`) and taken off once. Whether the estimation accepts such a
  pair is a matter of numbers; the runs take seeds from different frames, and
  `StatisticsAgree` holds under that assumption only. The structure-less registration does the
  same: it registers the frame before a refinement that may return false, a second image of the
  frame stays a candidate, and the frame is registered and counted again
  (`sfm/incremental_mapper.cc:800`). `AcrossFrames` is the assumption, for the proofs.
* Merge() of the triangulator erases a modified id that it reads through a reference after the
  merge has changed it (`sfm/incremental_triangulator.cc:661`): the id of the point that is gone
  stays. `ModifiedComplete` allows for it; users of the set skip ids that do not exist.
* `AddTwoViewGeometry` counts the matches before it checks them
  (`scene/correspondence_graph.cc:115-126`); after a throw the counts are too high. The header
  says that transitive correspondences contain the given observation, which the code removes.
* `DatabaseCache::CreateFromCache` filters by name image by image, where the documentation
  speaks of frames; it does not ask `UseInlierMatchesCheck` again, and it compares de-duplicated
  counts with the minimum where Load() compares those of the rows.
* The image reader. With `single_camera` a second run makes another camera, since images that
  are complete leave `prev_camera_` unset. An older image without features brings its own camera
  and the images after it take that one, except those known by their EXIF data, which get the
  camera from before: then two cameras alternate. The root folder is the empty path, which is
  also what the folder of the image before is at first. With `single_camera_per_folder`, a folder met again
  after one of its sub-folders (`a/1`, `a/b/1`, `a/z`) takes the camera of the sub-folder and no
  size is compared. A camera known by its EXIF data from another folder replaces that of the
  folder. With an existing camera alone no size is compared. A camera whose parameters are
  refused leaves its size under the id of the one before, which is why the next image may be
  refused. Cameras and rigs of a killed run stay, without images.
* The spatial pair generator returns one neighbour more than asked for when other images
  share the position, since the image itself is then not the first of its neighbours.
* Reset() of the vocabulary tree generator in the middle leaves results of old queries in the
  queue, which the next calls return for others. A matcher that is stopped between two calls of
  Next() destroys the index before the pool (`controllers/pairing.h:301-306`): queries that
  still run use a destroyed index, and a push to the destroyed queue aborts
  (`controllers/pairing.cc:419`). The model ends there in `aborted`.
* Scene clustering. `child_clusters` of a leaf is indexed when a cut gives one empty part
  (`scene/scene_clustering.cc:149`, `:188`); the flat partition sorts with a comparator that
  holds for equal elements, and takes the minimum of an empty range; the header speaks of
  leaf sizes that are not reached (`scene_clustering.h:59-61`).
* `Get(0)` of an empty manager of models ends the hierarchical pipeline when no cluster has a
  model.
* Merging two models is said to "only merge points in the two reconstructions if they have a
  one-to-one mapping" (`estimators/alignment.cc:509-510`); the code asks that a source point
  meets one target point, and several source points may meet the same.
* Patch match. A file that a killed run was writing last is accepted when the next run finds it
  (`mvs/patch_match.cc:410`), torn or not; `RerunMends` excepts it. When a future throws, tasks of
  the I/O pool outlive the frame whose locals they use (`:512`). A problem listed twice is
  computed twice.
* StereoFusion of a workspace without images throws at index 0.
* Automatic reconstruction. Stop() reads the active thread without synchronisation
  (`controllers/automatic_reconstruction.cc:222`): the thread may be destroyed before it is told
  to stop, a stop between SetActive and Start() is forgotten, and extraction may be stopped
  while the flag is not set yet, so that matching starts on part of the features. What a
  stopped mapper, undistortion or fusion leaves, later runs take for complete; a run killed
  while it writes the sparse models leaves a directory that every later run fails to read.
  Models on disk are numbered by size, in the manager as they were found: after an interrupted
  run `dense/i` may belong to another model. `AllMade` speaks of histories without these
  (`clean`). With `sparse` off and `dense` on nothing is done, since models are read where they
  are made.
* Clustering and tracks. `FindIfExists` returns the parent, not the root as its comment says
  (`math/union_find.h`); the only caller asks whether it is there. A comment says weight above
  the threshold, the code includes it. Frames in no cluster vanish, but the whole model is kept
  if no cluster is large enough. An image needs one track more than
  `track_required_tracks_per_view` to count as served (`sfm/global_mapper.cc:257`).
* The global pipeline adds a model whether or not the mapper's Solve() succeeded
  (`controllers/global_pipeline.cc`).
* A read that fails in CachedWorkspace leaves an empty part behind, which the next call takes
  for a loaded one (`mvs/workspace.cc:211`).

## 8. What is abstracted

Numbers: coordinates, errors, scores, poses, descriptors. Contents of files and rows.
Wording, logging, timing, colors, snapshots, callbacks of the GUI. The SQL statements of
the database, which take effect one by one or, in a transaction, all at once. The
visibility pyramid of the observation manager, which is driven by the same increments as
the counter of visible points. Bundle adjustment, except that it may be followed by
filters.

`Start()` of Thread joins the previous run with the mutex held, which would deadlock with a
worker that needs it; every caller starts only a thread that is new or has finished, and so
does the model. One client owns a job and joins it; the C interface gives the event callback
no handle to release.

## 9. Plan

Done: all of the plan this project began with but for two pure algorithms (the samplers of
RANSAC, Database::Merge).

What could come next:

1. **Proofs.** `ClustersMerged` without `SiblingsShare`, from how the graph of images is cut.
2. **Database::Merge** and the samplers, as functions against references.
3. **The stages of the global pipeline**, as far as they decide what is registered.
4. **The visibility pyramid** beside the counter of visible points.

## 10. Not modelled

Numerical code (estimators, geometry, retrieval, meshing, sensors, GPU kernels), pure input
and output, options, GUI and command line, bindings, bundled libraries: they keep no state of
their own between calls, or their state is real-valued. They are by far the larger part of the
repository. Database::Merge is a single pass that renumbers ids in their order, and the importers
of features and pairs read one file in one thread: a model would repeat the loop.
`PROJECT.json`, `components`, lists them with the reasons.

# Titan: TLA+ models, model checking and proofs

Titan (AegonKV) is a RocksDB plugin that keeps large values in blob files and
only their indices in the LSM tree. This directory holds TLA+ models of the parts
of it where threads, crashes and two separate logs meet, the TLC configurations
that check them on small instances, and TLAPS proofs of the main safety
properties for every value of the constants. Paths below are relative to the
repository; `src/src/` is the plugin, `src/lib/rocksdb-6.29.tikv/` the base DB.

## 1. The system

| Part | Code | State | Operations that change it |
|---|---|---|---|
| Base DB | `src/lib/rocksdb-6.29.tikv` | memtables, SSTs, WAL, sequence numbers, snapshots, versions, thread pool | write, flush, compaction, drop of a column family, file deletion in ranges |
| Table builder and factory | `table_builder.*`, `table_factory.*` | the blob file being written | `Add`, `Finish`, `Abandon`; moves values to a blob file in flush, to a new one in level merge, back inline in fallback mode |
| Blob file set, MANIFEST | `blob_file_set.*`, `version_edit.*`, `edit_collector.h` | MANIFEST, `next_file_number_`, column families | `LogAndApply`, `Recover`, `DropColumnFamilies`, `DeleteBlobFilesInRanges` |
| Blob storage, purge | `blob_storage.*`, `db_impl_files.cc` | `files_`, `obsolete_files_` | `AddBlobFile`, `MarkFileObsolete`, `GetObsoleteFiles`, the purge pass |
| GC picker, job | `blob_gc*.cc` | inputs, outputs, write batches | scan and copy, install outputs, rewrite indices with a callback, delete inputs |
| GC scheduling | `db_impl_gc.cc`, `db_impl.*` | `gc_queue_`, four counters, `bg_cv_` | `AddToGCQueue`, `MaybeScheduleGC`, `BackgroundCallGC`, `DropColumnFamilies`, `Close` |
| Live data sizes | `db_impl.cc`, `blob_format.*`, `blob_file_size_collector.*` | `live_data_size_`, `state_` of each file | the flush and compaction listener calls, `DeleteFilesInRanges`, GC (`InstallOutputBlobFiles`, `RewriteValidKeyToLSM`), `InitializeGC` |
| Validity bitmaps | `blob_validation_*` | invalid entries of each file | compaction listener, GC with bitmaps |
| Hardware GC | `hadware_gc_driver.*`, `xcl2.*` | a device queue | offloaded GC jobs |
| Checkpoint | `titan_checkpoint_impl.*` | file deletion counter, links | `CreateCheckpoint`, `Disable`/`EnableFileDeletions` |
| Formats, readers, cache, filter, stats, options | the rest | none that others depend on | encoding, I/O, reporting |

What interacts with what, and where it is hard:

* GC copies values while users write. A user write may come between the check of
  a record and the write of its new index; the write callback must see it.
* Titan and the base DB each have a log of their own. A GC job logs its outputs
  in the MANIFEST, then writes indices to the LSM tree, then syncs the WAL, then
  logs the deletion of its inputs; a crash may come after each of these.
* A file that GC deleted is kept for the snapshots that may see it, and the purge
  thread decides by sequence numbers read under different locks.
* The base DB makes its listener calls some time after the SSTs are installed, in
  any order, and sizes computed from them decide what level merge deletes.
* GC threads, droppers of column families and `Close` wait on one condition
  variable for three different counters.

## 2. Modules

| Module | Models |
|---|---|
| `TitanState` | what all parts of one column family share: LSM tree, blob files, MANIFEST, snapshots, reads in flight; how it is read |
| `TitanOpen`, `TitanUsers`, `TitanTables`, `TitanJobs`, `TitanPurge` | its parts, each over that state: a new database and recovery; users; flush and compaction; GC jobs; the purge thread |
| `TitanGC` | the parts composed, with the properties of the whole |
| `KVStore` | what a column family promises: a map with snapshots, and after a crash the map of an earlier moment |
| `TitanStore` | the refinement mapping from `TitanGC` to `KVStore`, through what `Get` returns |
| `TitanGCInv` | the inductive invariants `IInv` and `ValueInv` |
| `TitanGCUserSteps`, `TitanGCTableSteps`, `TitanGCScanSteps`, `TitanGCJobSteps` | the steps of users, purge and crash; of table builders; of GC jobs up to their outputs, and after |
| `TitanGCProofs` | the theorems about `TitanGC` |
| `GCScheduler`, `GCSchedulerProofs` | queue, counters, pool threads, droppers, `Close`; the theorems about them |
| `LiveDataSize` | `live_data_size_` and the state of each file under listener calls, range deletion and GC |
| `LiveDataSizeInv` | its inductive invariant `LiveInv` |
| `LiveDataSizeSteps`, `LiveDataSizeProofs` | counting, and the steps up to where SSTs are installed; the other steps, and the theorems |
| `MCTitanGC`, `MCGCScheduler`, `MCLiveDataSize` | model values and symmetry for TLC |

### TitanGC

An LSM entry is a key, a sequence number, the user write its value comes from
(`org`, a ghost, 0 for a deletion) and its blob index (`file`, 0 for an inline
value, and `off`). A blob file is the set of its records. A step is what a
thread does in one critical section or one call of the base DB:

| Actions | Code |
|---|---|
| `Write`, `SetOptions`, `GetSnapshot`, `ReleaseSnapshot`, `GetIndex`/`GetBlob` (the two halves of a read), `DeleteBlobFilesInRanges` | `db_impl.cc`, `blob_file_set.cc` |
| `StartFlush`, `StartCompaction`, `FinishTable`, `InstallTable`, `TableCompleted`, `FailTable` | `TitanTableBuilder`, `BatchFinishFiles`, `OnFlushCompleted` |
| `PickBlobGC`, `DiscardRecord`, `KeepRecord`, `IteratorError`, `InstallOutputs`, `RewriteKey`, `FlushWAL`, `DeleteInputs`, `FailGC` | `BlobGCJob` |
| `PurgeBegin`, `GetObsoleteFiles`, `DeleteFile` | `PurgeObsoleteFilesImpl` |
| `CrashAndRecover` | `Open`, `BlobFileSet::Recover` |

Abstractions. All values are at least `min_blob_size`. The picker takes any set of
`kNormal` files. The scan visits records and the rewrite visits batches in any
order, and outputs may rotate at any record. A crash keeps the entries up to a
sequence number that is at least what was synced, so that every prefix of the
WAL that a crash can leave is there; the base DB is opened, and its WAL flushed,
before Titan is initialized, so recovered values stay inline. File numbers that
MANIFEST files take from the same counter are left out. Not modelled here: level
merge deleting files (that is `LiveDataSize`), a MANIFEST record that is written
and not synced, the offload mode, `disable_background_gc`.

### GCScheduler

A step is what a thread does while it holds `mutex_`. `waiting` is who sleeps in
`bg_cv_.Wait()`; `SignalAll` empties it and the woken threads check their condition
again. The thread pool is the base DB's: `JoinAllThreads` makes the threads end
without the jobs that are still queued. A GC job itself is one step of unknown
length between `StartGC` and `FinishGC`.

### LiveDataSize

An SST is a level and the set of its references (value, blob file); every value
has size 1. Flush and compaction install their SSTs and leave an event; the
listener calls take events in any order. A GC job installs its output as all live
(`GCInstall`), then rewrites one index at a time (`RewriteKey`): `batch` is what it has
still to rewrite, and an index that a user overwrote meanwhile (`Busy`) goes to
`dropped`. After the last one, in a critical section of its own, the job subtracts what
it dropped (`SubtractDropped`, `blob_gc_job.cc:830-872`). A rewrite that fails otherwise
ends the job without this. A file is tagged, as a ghost, by what can be said of its size: `exact`; `over` once GC picked or wrote it, because calls
about it are skipped meanwhile; `raced` once `DeleteFilesInRanges` subtracted what
is not what was deleted, or met it in `kPendingLSM`; `orphan` when the table that
wrote it failed; `gced` once GC deleted it. A restart makes sizes exact again. The
width of `uint64_t` is scaled to 2^16, far above any size in the model: a wrapped
value would be seen. The options (level merge or not, default column family or
not) are chosen in the initial state.

## 3. Model checking

All runs are exhaustive. States are distinct states.

| Run | Instance | Checks | States |
|---|---|---|---|
| `GCSnapshots` | 1 key, 3 writes, 2 files, 1 snapshot, 1 read, two run modes | `SnapshotReadable`, `ReadsServed`, `ImplementsStore` (refinement) | 932,240 |
| `GCCrash` | 1 key, 3 writes, 2 files, one crash or failure | `CrashConsistent`, `IInv`, `OnlyStaleFilesDropped`, `ImplementsStore` (refinement) | 184,432 |
| `GCRotation` | 2 keys, 4 writes, 3 files, 2 jobs | `TypeOK`, `ReadsLastWrite`, `IndexAfterManifest` | 1,335,751 |
| `GCCompaction` | 1 key, 2 writes, 2 files, 1 snapshot, 1 compaction, level merge, fallback mode | `IInv`, `ValueInv` | 1,087,972 |
| `GCFaults` | 1 key, 2 writes, 2 files, 1 snapshot, one fault, read errors | `ObsoleteFilesPurged` (liveness) | 271,446 |
| `Scheduler` | 2 threads, 2 column families, 2 droppers, 3 requests, drops that fail | `TypeOK`, `QueueMatches`, `DropExcludesGC`, `NoLostWakeup`, `QueueServed`, `DropReturns` (liveness) | 32,346 |
| `LiveSize` | 2 values, 2 files, 3 flushes or compactions, one GC job, range deletion or restart, 3 settings of the options | `LiveSizeTracks`, `LiveFilesKept`, `CastsSafe`, `SizeAssertsHold`, `LiveInv`, `OutputsSettle` (liveness) | 310,391 |

Why the bounds are enough to be interesting. GC needs a flushed file and an
output: two files. With three writes a key is overwritten before, during and
after the rewrite of its index, and the rewrite itself takes a sequence number.
Two keys and three files give a job with several inputs, a rotated output, and
two jobs at once. One crash or failure may come at any step; the invariants are
inductive, which the proofs show, so a second one adds nothing to safety. Two
threads and two droppers are the least at which a signal can go to the wrong
one. For the sizes, two values in a file make a partial subtraction differ from
a full one, and a third job lets two compactions follow a flush whose call has
not come.

Runs that end in a violation state what a comment of the code says, and TLC
shows that the code does otherwise:

| Run | Comment | What happens |
|---|---|---|
| `GCPurgeRace` (`EverySnapshotReadable`) | `blob_storage.cc:169` "... the blob file is not visible to all existing snapshots." | The oldest snapshot is read before `mutex_` is taken. A snapshot taken after that, then a GC job that finishes, then `GetObsoleteFiles`: the file is purged under the snapshot. |
| `GCDroppedInput` (`OnlyStaleFilesDropped`) | `blob_gc_job.cc:212` "... the old blob can be discard." | An input of the merge iterator that fails after its first record is left out silently; the job ends well and deletes the file with current values in it. |
| `SchedulerClose` (`ScheduledZeroAfterJoin`) | `db_impl.cc:404` "`bg_gc_scheduled_` should be 0 after `JoinAllThreads`" | A submitted job that no thread took is dropped by the pool and stays counted; `Close` waits for ever. |
| `SchedulerBadDrop` (`WaitingThreadsGoOn`) | `db_impl.h:309` "whenever drop_cf_requests_ goes down to 0." | A drop that the base DB refuses never counts its request down; GC threads wait for ever. |
| `LiveSizeRangeRace` (`NoLiveFileDeleted`) | `db_impl.cc:1526` "Delete blob files which have no live data." | `DeleteFilesInRanges` subtracts from a `kPendingLSM` file, or subtracts properties of a replaced version; the size reaches 0 and level merge deletes a file in use. |

The passing properties exclude exactly these cases, each by a ghost or a
condition that names it: `SnapshotReadable` the snapshots taken inside the window
of a purge pass (`racy`), the theorems read errors during GC (`~ReadFault`),
`QueueServed` a refused drop, `LiveFilesKept` the files tagged `raced`.

`SizeAssertsHold` is about the two assertions on sizes in the listener calls and in
`DeleteFilesInRanges`. The assertion on the state of a file in
`BlobFileMeta::FileStateTransit` (`blob_format.cc:246`) is not among them: it fails when
`OnCompactionCompleted` marks for merging a file that it has just deleted
(`db_impl.cc:1490`), and the model takes that step as a release build does.

Deadlock is checked in the `TitanGC` runs, where a purge pass is always possible.
It is not in the others: the scheduler may be idle or closed, and the jobs of
`LiveDataSize` are bounded.

Fairness. The purge thread is a `RepeatableThread` that runs as long as the
database is open (`WF` on the purge steps). Pool threads, a `DropColumnFamilies`
that has started and a `Close` that has started take their next step when they
can. The base DB makes every listener call that is due. Nothing else is fair:
users need not write, and GC need not be requested.

## 4. Proofs

The theorems hold for all values of the constants that the named assumptions allow:
bounds are natural numbers (`BoundsAssumption`, `LimitAssumption`), run modes are the
three of the code (`ModeAssumption`), options have their types (`OptionAssumption`),
and the sets of threads and droppers are finite and apart (`ActorAssumption`). The
sets of keys, GC jobs and column families are arbitrary.

| Module | Theorem | States | From |
|---|---|---|---|
| `TitanGCProofs` | `TypeCorrect` | `TypeOK` | itself |
| | `Inductive` | `IInv` | itself |
| | `SnapshotsStayReadable`, `ReadsAreServed`, `CrashesLoseNoValue` | `SnapshotReadable`, `ReadsServed`, `CrashConsistent` | `IInv` |
| | `IndexesFollowManifest`, `LiveFilesAreKept` | `IndexAfterManifest`, `OnlyStaleFilesDropped` (action properties) | `IInv` |
| | `ValuesStay` | `ValueInv` | `IInv` |
| | `LastWriteIsRead` | `ReadsLastWrite` | `ValueInv`, `IInv` |
| | `Refinement` | `ImplementsStore` | `ValueInv`, `IInv` |
| `GCSchedulerProofs` | `SchedulerInductive` | `SchedInv` | itself |
| | `SchedulerTypes`, `QueueAlwaysMatches`, `DropsExcludeGC`, `WakeupsNotLost` | `TypeOK`, `QueueMatches`, `DropExcludesGC`, `NoLostWakeup` | `SchedInv` |
| `LiveDataSizeProofs` | `LiveSizesInductive` | `LiveInv` | itself |
| | `NoCastWraps`, `LiveSizesTrack`, `LiveFilesStay`, `SizeAssertions` | `CastsSafe`, `LiveSizeTracks`, `LiveFilesKept`, `SizeAssertsHold` | `LiveInv` |

All theorems about `TitanGC` but `TypeCorrect` assume `~ReadFault`: what a read error
of a GC input does is the run `GCDroppedInput`.

**Why no reader loses a record.** That a purge harms no snapshot depends on why the
file became obsolete. `IInv` records that argument.

* `RefInv` is the heart. An index in the LSM tree has its record in a file of the
  MANIFEST; or the file is obsolete and a *durable* newer entry of the key hides
  the index from every snapshot newer than the obsolete sequence; or the file
  is gone and the index is hidden from every snapshot but racy ones.
* `JobInv` says why a job may delete its inputs: every index into them is still
  to be scanned, is in a batch to be rewritten, or is hidden, by a durable entry
  once `FlushWAL` is done. A key of which the job has kept a newer record
  (`fresh`) is hidden already.
* `TableInv` does the same for a flush or compaction under way: what it drops is
  hidden by what it keeps, at every snapshot, also one taken meanwhile.
* `FileInv` and `OwnInv` keep `files_`, the MANIFEST and the directory together,
  and give each file one owner; `SeqInv` orders sequence numbers; `ReadInv` ties
  the purge pass to the snapshots it has read.

**Why the record is the right one.** `ValueInv` compares the LSM tree with the log of
user writes (a ghost): at every sequence number of `Horizon`, those of snapshots and
those a crash may go back to, the newest entry of a key stands for the last user
write. A builder drops a version only when a newer one is among what it read with no
snapshot between the two (`TableVal`), and GC writes an index with a new sequence
number only over the entry it is a copy of. With `IInv`, which says that the record
is there, every step maps to a step of `KVStore` or to a stutter: a write, a sync, a
snapshot taken or released, a crash; flush, compaction, GC and purge are stutters.

**Scheduler.** The strengthening in `SchedInv` is small: every dropper between its two
critical sections is counted in `drop_cf_requests_`, so the counter cannot be 0
while one of them waits or works.

**Sizes.** `LiveSizeTracks` says nothing of what calls still to come will do, so it is
not inductive. `LiveInv` adds where references are. A reference is in one place
(`ApartInv`): in an SST, not flushed yet, or on its way out, to be subtracted by one
listener call or by the last part of `DeleteFilesInRanges`. Not flushed yet
(`Unflushed`) is what the memtable has and what a GC job has still to rewrite or to
subtract (`Due`); so a rewrite, done or dropped, changes nothing that sizes are compared
with, and `SubtractDropped` takes from a size what it takes from `Due`. A call speaks
of all of a new file, once, and until then the file is `kPendingLSM` (`EventInv`). So a
call takes from a size what it takes from `Owed`, and of a `kPendingLSM` file no more is
recorded than the file has (`SizeOK`): the casts to `uint64_t` see no negative number.
The sums of properties are cardinalities, by the theorems on finite sets of the library.

Each action has its lemmas, one step per conjunct it can disturb. TLC checks `IInv`
in two runs, `ValueInv` and `LiveInv` in one each, and of `SchedInv` the conjuncts that
have a name.

Only model-checked: all liveness (`ObsoleteFilesPurged`, `QueueServed`,
`DropReturns`, `OutputsSettle`), because fairness and `ENABLED` are out of the prover's
reach; and the five runs of Section 3 that end in a violation, which show single
behaviours.

## 5. Not modelled

The hazards of `PROJECT.json` that name no property come from these.

* Version edits of several column families, `EditCollector`, and MANIFEST records that
  are written and not synced: an edit is one step here.
* The scores of the picker: any choice it could make is one the model makes.
* Validity bitmaps: they need the offsets of records in table properties.
* The offloaded GC job, and the size it gives its output: the device is not in the
  repository, and what it writes back is checked by a changed base DB.
* Checkpoint and the file deletion switch: mostly copies of files.
* Record and file encodings, compression, caches, statistics, option parsing, the
  compaction filter of the user: I/O, codecs or reporting, which change no state that
  the rest depends on.

The repository holds all of RocksDB under `src/lib`. It is modelled only as far as Titan
uses it (entries, snapshots, WAL, installation of SSTs, listener calls, thread pool), so
the definitions stand for a large part of `src/src` and a small part of all lines.

# Verification of AegonKV

AegonKV is a key-value store built on TitanDB, which keeps large values of a
RocksDB (the *base DB*) in separate *blob files*. The LSM tree then holds a
*blob index* (file number and position) in place of the value. Blob files are
garbage collected (GC) by background jobs, in software or on a SmartSSD.

This directory holds TLA+ models of the store, the TLC runs that check them on
small instances, and proofs checked by TLAPS for every size. Paths below are
relative to `src/AegonKV/src/`.

## 1. The system

Each part lists its state, its operations, what is hard, and what makes it
correct.

**TitanDBImpl, user side** (`db_impl.cc`, `db_iter.h`). State: `has_bg_error_`,
the base DB, snapshots. Operations: Put, Delete, Write, Get, MultiGet,
iterators, snapshots, DeleteFilesInRanges. A read is two steps: the LSM tree at
a sequence number, then the blob file. GC and purge run between them. Correct
when users cannot tell the store from a map with snapshots.

**Table building** (`table_builder.cc`, `table_factory.cc`, `db_impl.cc`
37-120). A flush or compaction moves values to a blob file. The file is synced
and logged in the blob manifest before the base DB installs the table. The
completion callback (OnFlushCompleted, OnCompactionCompleted) later moves the
file from kPendingLSM to kNormal. The two manifests are written separately, so
the order decides what a crash leaves.

**GC job** (`blob_gc_job.cc`, `blob_gc.cc`, `blob_gc_picker.cc`). A job picks
kNormal files, copies the records that are still current, installs its output,
writes the new indexes to the LSM tree, syncs the WAL, and marks its inputs
obsolete. It races user writes, snapshots, table jobs, range deletions and other
jobs; it can fail or crash between any two steps.

**GC offload** (`hadware_gc_driver.cc`, `hardware/kernel`, and the base DB in
`lib/rocksdb-6.29.tikv`). The device copies the records that a *validity
bitmap* of the file calls valid. In software the write-back has a callback that
rejects a key that has changed; on the device path it has none, and the modified
base DB sorts out a write-back and a user write when it reads or compacts them.

**BlobStorage and purge** (`blob_storage.cc`, `db_impl_files.cc`). State:
`files_`, their key ranges and scores, and the obsolete files, each with the
sequence number at which it became obsolete. The purge removes an obsolete file
when the oldest snapshot is newer than that.

**Reader cache** (`blob_file_cache.cc`) and **compaction filter**
(`compaction_filter.h`). Everything that reads a blob goes through the cache,
which opens files by name.

**BlobFileSet, VersionEdit, EditCollector** (`blob_file_set.cc`,
`edit_collector.h`, `version_edit.cc`). The blob manifest: LogAndApply writes,
syncs and applies an edit; Recover replays the edits and deletes other files.

**GC scheduling** (`db_impl_gc.cc`, `db_impl.cc` 385-563). State: `gc_queue_`,
`unscheduled_gc_`, `bg_gc_scheduled_`, `bg_gc_running_`, `drop_cf_requests_`,
`bg_cv_`, and the thread pool. Drops and Close wait for GC jobs, and GC jobs
wait for drops.

**Live data size** (`db_impl.cc` 857-1563, `blob_file_size_collector.cc`).
Completion events say how much of each blob file went dead; GC picks files by
that, and *level merge* deletes files by it. Events arrive out of order.

**Checkpoint** (`titan_checkpoint_impl.cc`). Captures both databases with file
deletions disabled.

`PROJECT.json` lists the parts with what is modelled of each, and under
`hazards` what is hard to test, line by line.

## 2. The modules

| Module | Models | Checked | Proved |
|--------|--------|---------|--------|
| `TitanDB`, `TitanDBInv` | one column family: reads, writes, tables, software GC, purge, crash | safety, liveness | all safety invariants |
| `SnapshotKV`, `TitanDBRefinement` | the promise to users, and the mapping to it | refinement | refinement |
| `GCScheduler` | queue, pool, drops, Close | safety, liveness | all safety invariants |
| `WriteBack` | one key through memtables and tables, with write-backs of either path | safety | all safety invariants |
| `GCJob` | locks, compute units and inputs of a job | safety, liveness | all safety invariants |
| `GCPass` | one pass over the records, host and device | against a definition | |
| `BitMap` | the bitmap byte by byte | against a set | |
| `LiveData` | `live_data_size_`, file states, level merge, DeleteFilesInRanges | safety | all safety invariants |
| `GCPicker` | scores and the picker | against a definition | |
| `KeyRanges` | `blob_ranges_`, deletion by ranges, the sweep for merges | against a definition | |
| `BlobFileSet` | manifest, recovery, file numbers, drops | safety, liveness | all safety invariants |
| `Checkpoint` | checkpoints against GC and purge | safety, liveness | QuietOpenable |
| `BlobReads` | Gets, iterators, filters and builders against purge and drop | safety | SnapshotServed |

The modules overlap in a few actions, at different grain. `TitanDB` has the
whole of the data path with LogAndApply as one step; `BlobFileSet` opens that
step and leaves out the data. `TitanDB` reads a blob in one step; `BlobReads`
opens it. `TitanDB` picks any file; `GCPicker` says which. `TitanDB` has the
software write-back, `WriteBack` both.

An action is what happens between two points where another thread can
intervene, mostly one hold of `mutex_`. It is the whole of what the code does
there. `PROJECT.json` (`map`) gives the lines of each definition. Each `MC`
module is the module in its name for TLC; `MCAlgorithms` is the sum of `BitMap`,
`GCPicker`, `KeyRanges` and `GCPass`: a behaviour chooses one of them.

A definition whose comment begins "Mutant of" is no part of a model. It is the
definition that follows with a plausible mistake in it, and the property it is
meant for must fail with it.

### TitanDB

`lsm` maps sequence numbers to entries (kTypeValue, kTypeBlobIndex,
kTypeDeletion). Entries up to `flushed` are in SST files; a crash keeps any
prefix with at least the first `synced` entries. A value is the number of the
write that made it, and stands for the position of its record in a blob file.
Blob files have a state (`state`, as in `BlobFileMeta::FileState`, plus kNone
and kPurged), records (`recs`) and an obsolete sequence (`obsSeq`).

| Action | Code |
|--------|------|
| Put, Delete | `db_impl.cc` 586-634 |
| GetSnapshot, GetImpl, BlobStorageGet, ReleaseSnapshot | `db_impl.cc` 636-700, 790-797; `blob_storage.cc` 9-17 |
| BuildTable, BuildFails | `table_builder.cc`; `db_impl.cc` 37-120 |
| InstallTable, InstallFails | the base DB, as the listener sees it |
| OnTableCompleted | `db_impl.cc` 1194-1276, and the same rule for a compaction's own file |
| PickBlobGC | `blob_gc_picker.cc`, `blob_gc.cc` |
| DoRunGC | one turn of the loop, `blob_gc_job.cc` 193-356, 555-587 |
| InstallOutputBlobFiles, RewriteValidKeyToLSM, FlushWAL, DeleteInputBlobFiles, GCFails | `blob_gc_job.cc` 592-905 |
| PurgeObsoleteFiles, GetObsoleteFiles | `db_impl_files.cc`; `blob_storage.cc` 162-190 |
| Crash | `blob_file_set.cc` 41-137 and the recovery of the base DB |

`late` and `failed` are history variables. Abstractions:

- Sizes are not modelled: any values may be separated, any kNormal files picked.
- A compaction takes all entries of SST files; there is at most one flush and
  one compaction at a time. Its drop rules are those of the base DB's
  compaction iterator: hidden by a newer entry in every snapshot, or a tombstone
  at the bottom level.
- LogAndApply is atomic and file numbers are not reused (`BlobFileSet` has both).
- The unlink of a purged file is part of its removal from `files_`.

### SnapshotKV and TitanDBRefinement

`SnapshotKV` is a map with snapshots and crashes: writes, held snapshots that
do not change, and a crash that goes back to contents since the last durable
one. It counts writes and crashes, so that a step of the store that changes the
contents without a user's call cannot pass for one. `TitanDBRefinement` maps the
store to it: the contents are what reads would return now, the durable contents
what reads would return after a crash that keeps n entries. A blob index that
leads nowhere is a value `Lost` that no user writes, so a lost blob is a step
the map cannot take.

### GCScheduler

A pool thread takes a job (BGThread), waits for drops or picks a column family
(BackgroundCallGC), runs (BackgroundGC) and ends (EndCall, with MaybeScheduleGC
and the signal). DropColumnFamilies, the drop in the base DB and the write of
the manifest are three steps; CloseImpl and JoinAllThreads are as in
`db_impl.cc` 385-418 and the pool's `threadpool_imp.cc`. SignalAll moves every
sleeper back to its test. Whether a column family has something to collect is
any value.

### WriteBack

`log` is the set of the versions of one key, each with its sequence number.
Newer parts of the tree have higher ones, so `flushed` (the last sequence number
in the sorted runs) and `switches` (the last one of each immutable memtable) say
where an entry is; a run has at most one entry of the key. An entry is an inline
value, an index, or a write-back, which also names the position it replaces.

GetImpl looks in the memtable first. If the newest entry there is a write-back,
SaveValue reads one entry more and answers with it if it is a value. Flush takes
the oldest immutable memtables, Compact neighbouring runs. Both replace the
entries they take by the one that Preprocess keeps, and send an event, from which
OnTableCompleted updates `bitmap`. DoRunGC copies, on either path, the records
that the bitmaps call valid, in an order that ReadOrders allows;
RewriteValidKeyToLSM writes one of them back, without the callback (hardware) or
with it (software). Restart flushes the log with the base table builder, which
leaves values inline, and clears the bitmaps. `raced`, `stacked` and `fellBack`
are history variables: a record was written back over another version, a
write-back over a write-back, a job ran in software. Deletes are left out:
Preprocess asserts that it never sees one.

### GCJob, GCPass, BitMap

`GCJob` follows a job from PickBlobGC to FinishJob: the compute unit it takes
from `free_index_queue_`, the hold of `mutex_` while bitmaps are copied, the
inputs BuildIterator opens, and what is deleted in the end. DoRunGCOnHardware
and BuildIterator return early exactly where the code does.

`GCPass` is one pass at the level of records and byte offsets: the iterators,
the heap, and DoRunGC on the host; the read loop of the driver and the kernel's
walk on the device, with its padding and its 32-bit fields. Init enumerates the
inputs, sorted or, as outputs of the device, not, and the options. `mode` says
who decides which records are valid. With "bitmap" and "device" (`use_bitmap`)
the copied bitmap does. With "lookup", the default, DiscardEntry looks the key
up while users write (Put), and once it has found the version of a key that
counts the loop skips the others (`last`). `runMode` is kNormal or kFallback,
which puts the values back into the tree and writes no file. DoRunGCBreaks
stands for all ways out of the loop that fail the job. BuildIterator does not
tell the iterators how many records a file has (`blob_gc_job.cc` 516), so the
padding of a device file is read as a record and fails its checksum; the merge
iterator drops the file there and forgets the error. A compression dictionary,
which holds records back in the builder, is left out.

`BitMap` has SetBit, GetBit, BitOps with its fast path, CopyTo and the offset
one past the end that the code accepts.

### LiveData, GCPicker, KeyRanges

`LiveData` has tables as numbers of records per blob file. A flush or compaction
installs its table and sends an event; OnFlushCompleted and OnCompactionCompleted
take events in any order. DeleteFilesInRanges is the three steps of the code:
collect the properties, let the base DB delete tables, subtract. A GC job drops
events of the files it holds. InitializeGC recounts at a restart. `options` says
which of GC, level merge and DeleteFilesInRanges a behaviour uses; Init chooses.

`GCPicker` computes scores when an edit is applied or a compaction reported, and
uses them later. Scores are percentages. `KeyRanges` keeps the multimap as a
sequence sorted by smallest key, and walks it as the code does.

### BlobFileSet

`manifest` is the sequence of records of the current file, of which `synced` are
durable. An edit is appended, synced and applied under `mutex_`; `ok` says
whether the write and sync succeed. A failed one leaves the record in the file
and the memory as it was. Crash keeps any prefix from `synced` on; Recover
replays it through the EditCollector, takes the next number for a new manifest
and PurgeInactiveFiles deletes what it does not name. What tables refer to
(`ref`) changes as the base DB installs versions (Reference, Unreference).

### Checkpoint

DisableFileDeletions, the capture of the base DB's tables and log, the list of
blob files with the manifest's edits, a link per file, CURRENT, and
EnableFileDeletions, by several threads at once. The purge holds
`delete_titandb_file_mutex_` from its list of candidates to the last unlink.
`disturbed` counts the steps that failed, the handles destroyed and the
deletions forced on.

### BlobReads

A read finds the file in `files_`, looks up the cache, opens by name and
inserts: four steps without a common lock. Gets and iterators hold a snapshot;
filters and builders hold none and may meet an index of any file. An iterator
has a raw pointer to the storage, a builder a weak one, a filter shares it.
"freed" stands for the use of a storage that is gone. `hidden` says from which
sequence on no snapshot sees a file and stands for the contents of the tree.

## 3. The runs

Run `tlc -workers 2 -config <cfg> <module>` in this directory. The times are of
two workers.

| Run | Module, cfg | States | Time | Shows |
|-----|-------------|--------|------|-------|
| store | MCTitanDB, `_store` | 318,346 | 2.5 min | the store is a map with snapshots (ImplementsKV) through flush, compaction, GC, purge and a crash; snapshots keep their blobs; the manifests agree at every point of recovery; obsolete files are purged |
| jobs | MCTitanDB, `_jobs` | 545,774 | 1.5 min | two GC workers and I/O errors at every step: leases, and the inductive invariant |
| scheduler | MCGCScheduler | 290,613 | 1 min | queue and counters, drops against jobs, no lost wakeup |
| writeback | MCWriteBack | 1,020,234 | 1.5 min | write-backs of either path: what they hide, what is repaired, that no reachable record is dropped |
| manifest_replay | MCBlobFileSet, `_replay` | 238,266 | 2 min | every manifest a crash may leave is replayed to the files in memory; obsolete files are unlinked |
| manifest_faults | MCBlobFileSet, `_faults` | 1,481,680 | 2.5 min | failed writes and syncs, level merge: referenced files stay alive and durable, numbers are fresh |
| gcjob | MCGCJob | 139,529 | 40 s | compute units, inputs really read, end of every job |
| live | MCLiveData | 775,662 | 1.5 min | the account of live data under events in any order |
| checkpoint | MCCheckpoint | 528,608 | 2 min | a checkpoint can be opened; deletions come on again |
| reads | MCBlobReads | 2,346,530 | 1.5 min | reads with a snapshot are served whatever is purged or dropped |
| algorithms | MCAlgorithms | 1,702,453 | 2 min | bitmap, picker, key ranges and GC pass against definitions without their loops |
| purge_race | MCTitanDB, `_purge_race` | 430 | 1 s | a counterexample: see section 6 |

Several properties say when they speak, because the code does not keep them
otherwise (section 6):

- SnapshotReadable and SnapshotServed except for a snapshot taken while a purge
  runs (`late`);
- RelocationInvisible until a record is written back over another version or the
  store restarts; Reconciled until a write-back is put on another, a software job
  can be misled or the store restarts; IndexResolves until a software job can be
  misled;
- CUReturned, LeaseEnds and OpenedRead while no file is deleted by range,
  OpenedRead also while every input can be opened;
- Accounted and MergeDeletesDead without GC jobs and DeleteFilesInRanges,
  NeverTooLow without the latter;
- QuietOpenable while nothing has failed or been forced;
- GCProgress until Close, and until a drop that failed in the base DB has left
  its request behind;
- MarksOverlapping for files of several keys;
- RelocatesLive, as to the indexes of the device, while all offsets fit into 32
  bits, and for inputs whose records can all be read (the run has no others);
- Replayable and ReplayAgrees without failed writes and level merge (the run has
  neither; `manifest_faults` has both).

The other runs do reach the states that the conditions leave out.

Each property of a passing run has a mutant in `PROJECT.json`, with which TLC
finds it violated. The two-part properties of `MCAlgorithms` have one for each
part in their modules (ByteSizeRounded, EnoughSmall, RemoveFileFirst,
PutOutputKeyAfter, KernelRecordStays).

## 4. Bounds and fairness

Bounds are constants; the guards that use them name them.

- **TitanDB**: `store` has one key, a reader, a worker, two files, two Puts, four
  sequence numbers and a crash: a value is written, separated, collected once and
  purged while a snapshot, an overwrite or a crash falls anywhere between. Keys
  do not interact in this code except through a shared file, and the proofs cover
  more of everything. `jobs` adds a second worker, a third file, errors and both
  run modes, and leaves out the reader.
- **GCScheduler**: two column families, both queued at first, two threads, two
  droppers, two further requests. Two droppers are needed for one to leave a request
  behind while the other waits; two threads for a signal to reach the wrong one.
- **WriteBack**: two Puts and four sequence numbers leave room for two
  write-backs, so for one on top of another; four files for two collections on
  top of a flush and a compaction. One snapshot, taken after the first write.
- **BlobFileSet**: two column families (the edit without a column family id goes
  to the first), three file numbers, one crash, one failed write.
- **GCJob**: two workers for one compute unit, so that one falls back to software;
  three files, so that an input before and one after the bad one exist.
- **LiveData**: two files of up to two records, four tables (three where
  options are combined), a failed compaction and a restart.
- **Checkpoint**: two threads, two files, two calls, one disturbance.
- **BlobReads**: two files, four actors of which two are active at a time: the
  actors interact only through the cache and the storage.
- **MCAlgorithms**: bytes of 2 bits, pages and units of 4 bytes and a buffer of 16
  keep the boundaries of the real sizes (a byte, the fast path, the padding, the
  read buffer) within reach of two or three records. A word of the device holds
  11 values, so that the records of an output start at the last offset that fits
  and at the first that does not. Beyond it PutOutputKey cuts the offset, and the
  index names another place. The code does not test for this. PickBlobGC stops
  once the inputs add up to `max_gc_batch_size` (1 GB by default), but the last
  one may have any size, since the outputs of GC are not split.

Symmetry is used in `jobs` and `purge_race`, over workers and readers, and in no
run with a liveness property.

Deadlock is not checked: with bounds on writes, files and calls every model
stops in the end. The liveness properties say what must not stop.

Fairness is weak fairness of steps that a thread takes by itself once it holds
what it waits for:

- TitanDB: the two steps of a purge, which a thread of its own starts every
  `purge_obsolete_files_period_sec` (`db_impl.cc` 172). With a period of 0, as in
  some tests, nothing purges.
- GCScheduler: each pool thread, each caller inside DropColumnFamilies, Close
  once called. Not: calls by users, requests from compactions.
- BlobFileSet: PurgeObsoleteFiles, by the same thread, and recovery once it has begun. Not: drops,
  destruction of handles.
- GCJob: the next step of each worker.
- Checkpoint: the purge of that thread, and each thread inside CreateCheckpoint.

A mutex that is free again and again is granted in the end because holders keep
it for a bounded time; a job that comes back with `mutex_` locked (section 6) is
the exception, and LeaseEnds leaves it out.

## 5. The proofs

TLAPS checks all of the following for every value of the constants, from the
assumptions named in the modules (finite sets, naturals as bounds).

**TitanDB** (`TitanDBLogProofs`, `TitanDBProofs`). IndInv, in `TitanDBInv`, is
inductive. CrashConsistent is not: it says nothing of the batch that a job is
about to write, nor of tables that are built and not installed. IndInv adds what
each job knows at each program counter: an entry of a built table stands for an
entry of its input, its record is in a file in state kPendingLSM, and an entry
that the table leaves out is hidden from every snapshot or is a tombstone with
nothing below it (JobInv); every current record of an input of a GC job is still
to be visited or has a write-back (Tracked); once the WAL is synced, no point
that the log may recover to leads to an input (InputsUnused); a Get holds no
index whose file became obsolete before its snapshot (ReaderInv). Theorems:
Invariance, TypeCorrect, CrashSafety, SnapshotSafety, ObsoleteSafety, LeaseSafety.
The steps that touch the log, the readers and the tables are in
`TitanDBLogProofs`, those of GC, purge and crash in `TitanDBProofs`.

**The refinement** (StoreImplementsKV, at the end of `TitanDBProofs`). The mapping
reads through the blob files. The proof goes in two halves. The first is about
the log alone: Val(n, k) is the value in the entry of k that is visible at n,
whatever has become of its file, and NextMaps says for every step of the store
what it does to these values. A Put or Delete changes one key of the newest
contents; a table that is installed keeps the values at every point that is
still to be read, by JobInv; a write-back of GC appends an entry with the value
that the key has; a crash picks a durable point; every other step changes no
value. The second half says that the mapping agrees with Val in every state of
IndInv (MapOK): CrashConsistent and SnapshotReadable are just what makes each
blob index lead to its record. Together every step is one of `SnapshotKV` or
changes nothing in it. The refinement has no fairness on either side.

**GCScheduler** (`CounterProofs`). SchedulerInv is TypeOK, QueueAccounted,
DropExclusive, DropsAccounted (the counter of drop requests lies between the droppers at work
and the drops called) and the types of jobs. For GCHasHandle a second invariant
says that a column family that GC may pick is in the base DB, or its drop is
between the base DB and the blob manifest; it needs the blob manifest to be writable, `"manifest" \notin Faults`. Theorems:
TypeCorrect, QueueIsAccounted, DropIsExclusive, JobHasHandle.

**BlobFileSet** (`BlobFileSetProofs`). ManifestInv: numbers grow along the
manifest, none is given to two files, what memory holds is in the records, and
every file that tables refer to is added by a synced record and deleted by none. It gives ReferencedIsAlive and NumberIsFresh whatever fails.
DurableInv adds that the files referred to are durable (without the device),
ReplayInv that what may be deleted next has not been deleted yet and that every
prefix is a legal sequence of edits (without failed writes and level merge):
ReferencedIsDurable and ManifestReplays. AgreeInv, on top of these, says that all
of the manifest is synced and that adding up its records gives the files in
memory, which an edit keeps because the number it adds was neither added nor
deleted before: ReplayFindsFiles.

**Checkpoint** (also in `CounterProofs`). The invariant says that while a checkpoint is
between DisableFileDeletions and EnableFileDeletions the purge unlinks nothing,
and that at each program counter what was captured of the base DB is contained in
the files known, listed or linked. It holds as long as `disturbed = 0`, which no
step undoes, so CheckpointOpenable needs no assumption on the constants.

**GCJob** (`GCJobProofs`). CUExclusive and CUReturned need to know where a unit can
be: in the queue, or with a worker that is between get_free_cu_index and
set_free_cu_index, or with one that met a file deleted by range (UnitInv). The
last one still holds `mutex_`, so it never gets to its next job with a unit in
hand (LockInv). For OpenedRead the inputs of different jobs are disjoint, and
what is obsolete among them was deleted by range (InputInv); if there is no such
file and nothing failed to open, a job has opened all its inputs when it merges
and has read them when it returns (ReadInv). The queue starts with every unit
once, because a sequence as long as the set it covers repeats nothing. Theorems:
UnitsExclusive, UnitsReturned, InputsRead.

**BlobReads** (`BlobReadsProofs`). An obsolete file is hidden from every snapshot
later than its sequence, or it became obsolete with its column family
(ObsoleteInv); a running purge has read a sequence no later than any snapshot
that is not `late` (PurgeInv); a reader that is not late finds in `files_` all the
files it can see, and the one it is about to open is among them (ReaderInv).
Theorems: GetsServed, whatever handle is destroyed, and ReadsServed for iterators
as well, unless a handle is destroyed while its column family lives
(`DestroyOpen`; section 6 has what happens then).

**LiveData** (`LiveDataProofs`). Sums over tables and over events on their way are
cardinalities of sets of cells (Total), so that the theorems on finite sets give
what a table or an event more or less does to them. Accounted is not inductive:
an event may find its file in state kPendingLSM, where live_data_size_ is a debt,
or after, where it is a size, and both must come out right. IndInv says why they
do: of the events on their way only one brings records to a file that waits, all
others take away (PendingInv), and for a file whose size is known all take away
(SizedInv), so a size is never cut off at zero by UpdateLiveDataSize; no table,
event or write-back names a number not in use (FreshInv) or the output of a job
that has not written back yet (JobInv). Theorems: LiveDataTyped, AccountExact,
AccountNeverTooLow, LevelMergeSafe.

**WriteBack** (`WriteBackProofs`). Sequence numbers put the entries of the key in a
line, and Preprocess replaces a segment of it by one entry. What it keeps is
defined step by step from the newest entry on; PreprocessIs shows, by a least
counterexample, that this is Outcome, which has no loop: a value if there is one,
else the newest index, a write-back checked against the next one. The steps of flush,
compaction and restart then rest on lemmas about replacing a segment
(ReplaceTypes, ReplaceCovered, ReplaceChain, ReplaceRecon), those of Put and
write-back on lemmas about adding a newest entry. None of the four properties is
inductive; IndInv has, besides types,

- DroppedInv: a position reported as dropped, in an event or a bitmap, is not in
  the tree, and no step brings it back, because positions are written once;
- JobInv: a copy that is not yet written back is in nobody's hands, and has the
  value of the record it was made from;
- ResolveInv: an entry in a file that GC has deleted is covered, that is, a newer
  entry hides it which Preprocess will never exchange for it; one in an input of a
  running job is covered or still to be written back;
- ChainInv, while nothing was written back late and without a restart: each
  write-back replaces the entry just below it, values lie above indexes, and the
  newest entry has the value of the last Put;
- ReconInv, without stacked write-backs, misled jobs and restarts: the newest entry
  that is no write-back has the value of the last Put, and above it is a chain of
  its relocations or a single late write-back, which Preprocess gives up when the
  two meet;
- RunsInv: without a restart no value is inline in a run.

Theorems: WriteBackInvariant, OffloadInvisible, LateWriteBackRepaired, TopResolves,
BitsAreDead.

Only model-checked:

- all liveness properties: fairness and ENABLED are beyond this prover;
- `BitMap`, `GCPicker`, `KeyRanges` and `GCPass`: they are loops over sequences,
  checked against definitions without loops. What a loop computes for sequences of
  any length needs induction over data, which the prover does not have, so their
  inputs are enumerated instead.

## 6. Where the code and what it says of itself disagree

Each entry is a property that a comment, an assertion or a test states, and that
the model, being what the code does, violates. `purge_race` is a run. The others
are reproduced by putting the property in place of those of the cfg named, with
the constants given. All properties are defined in the modules.

**Purge.** PurgedInvisible (run `purge_race`). PurgeObsoleteFilesImpl reads the
oldest snapshot (`db_impl_files.cc` 16) before it takes `mutex_` (18). A snapshot
taken, and a GC job finished, in between are not seen, and the purge removes a
file that the new snapshot can see. `blob_storage.cc` 169: "If so, the blob file
is not visible to all existing snapshots."

**Scheduling** (`MCGCScheduler.cfg`).

- JoinedIdle. JoinAllThreads lets threads leave with jobs in the queue
  (`threadpool_imp.cc` 197-202). Such a job stays counted, and CloseImpl waits for
  ever (`db_impl.cc` 405). `db_impl.cc` 404: "`bg_gc_scheduled_` should be 0 after
  `JoinAllThreads`, double check here."
- GCHasHandle with `Faults = {"manifest"}`. After a drop that fails in the blob
  manifest GC picks a column family that the base DB no longer has, and
  GetColumnFamilyHandleUnlocked returns nullptr (`db_impl_gc.cc` 222).
  `titan_db_test.cc` 1266: "Make sure GC job will not run on a dropped CF."

**Write-back** (`MCWriteBack.cfg`; R is `lib/rocksdb-6.29.tikv`).

- ReadsLatest with `MaxRestart = 0`. On the device path the batch is written
  without a callback (`blob_gc_job.cc` 784). If the key was put again and that Put
  is in an older memtable or a table, the write-back hides it until a compaction
  meets both. R/include/rocksdb/db.h 400: "If "key" already exists, it will be
  overwritten."
- SettledLatest with `MaxRestart = 0`, `MaxSeq = 5`, `Path = {"hardware"}`. A
  write-back over a write-back becomes a plain index
  (R/db/compaction/compaction_iterator.cc 965, 1333) and is not compared with the
  version below; the last Put is lost. `blob_gc_job_test.cc` 338 expects it.
- ReadsLatest with `Path = {"software"}` (it holds with `MaxRestart = 0`). A
  recovery leaves values inline (`table_factory.cc` 24), and Preprocess prefers an
  older inline value to a newer index (compaction_iterator.cc 959). Line 948:
  "Type value means the newest version written into mem, just skip current kv is
  OK."
- SnapshotStable. Preprocess keeps one entry per key whatever the snapshots
  (compaction_iterator.cc 936). db.h 839: "Iterators created with this handle will
  all observe a stable snapshot of the current DB state."
- Resolves with `MaxRestart = 0`. A job that falls back to software finds a stale
  write-back of a hardware job, takes the key for overwritten and drops the record
  of the newest value. `blob_gc_job.cc` 806: "The key is overwritten in the
  meanwhile. Drop the blob record."

**Manifest** (`MCBlobFileSet_faults.cfg`, `MCBlobFileSet_replay.cfg`).

- Recoverable with `LevelMerge = FALSE`. The record of an edit whose sync failed
  stays in the manifest (`blob_file_set.cc` 225); the deletion is logged again and
  recovery answers "has been deleted twice". `blob_file_set.h` 40: "If the manifest
  exists, it will recover from the latest one."
- Recoverable with `MaxFault = 0`. The edit of a level merge has no column family
  id (`db_impl.cc` 1005), so it is logged for column family 0, unchecked once the
  handle of that is destroyed; recovery answers "doesn't exist before".
- MergedDeleted with `MaxFault = 0`. For another column family the same edit fails
  in Seal, the status is ignored (`db_impl.cc` 1555) and the file is never deleted.
  `db_impl.cc` 1526: "Delete blob files which have no live data."
- ReferencedDurable in `_replay`. Nobody syncs the output of the device
  (`blob_gc_job.cc` 724, `hadware_gc_driver.cc` 266). `blob_gc_job.cc` 589: "We have
  to make sure crash consistency ..."
- PurgesInactive in `_replay`, as a PROPERTY. A blob file that was being written
  at the crash may have the number that the new manifest gets, and is kept
  (`blob_file_set.cc` 102). Line 97: "Purge inactive files at start".

**GC job** (`MCGCJob.cfg`). The job is meant to live with range deletions:
`blob_gc_job.cc` 898 "There may be a concurrent DeleteBlobFilesInRanges or GC, so
the input file is already deleted."

- MutexReturned. With an obsolete input DoRunGCOnHardware (392) and BuildIterator
  (538) return with `mutex_` locked, the former with its compute unit taken.
- Running. An input deleted by range and purged before the driver opens it ends
  the process (`hadware_gc_driver.cc` 121).
- DeletedRead. BuildIterator stops at an input that cannot be opened and then
  overwrites the status (541); the job succeeds and deletes inputs it did not
  read. Line 202: "Build iterator for gc failed".

**Live data** (`MCLiveData.cfg`), against `db_impl.cc` 1526 "Delete blob files
which have no live data." and `blob_format.h` 224 "already gced, but wait to be
physical deleted".

- DeletedDead. DeleteFilesInRanges subtracts the records of a table that it then
  does not delete, because a compaction has picked it (`db_impl.cc` 953).
- MergedGone. When OnFlushCompleted comes after the compaction that dropped every
  value of its file, it deletes nothing and no later event names the file (1263).
- ObsoleteFinal. A file just made kObsolete is marked kToMerge (1496).

**Checkpoint** (`MCCheckpoint.cfg`), against `titan_checkpoint_impl.cc` 89 "Builds
an openable checkpoint of TitanDB": Openable. The status of a failed link is
overwritten by the next file's (268). Also, GetAllFiles leaves out a column family
whose handle was destroyed, and the base DB captures it (`blob_file_set.cc` 356).

**Reads** (`MCBlobReads.cfg`).

- FilterHarmless. A file unlinked between FindFile and the open gives an IOError,
  not a corruption, and FilterV3 sets the background error (`compaction_filter.h`
  97). Line 73: "Could be cause by blob file beinged GC-ed, or real corruption."
- IteratorHasStorage with `DestroyOpen = TRUE`. An iterator keeps a raw pointer to
  the storage (`db_impl.cc` 766), which DestroyColumnFamilyHandle frees. db.h 825:
  "The returned iterator should be deleted before this db is deleted."
- BuilderHasStorage with `DestroyOpen = TRUE`. `table_builder.cc` 392:
  "assert(storage != nullptr);"

**Algorithms** (the modules by themselves, with the constants of `MCAlgorithms`).

- PickedDiscardable of `GCPicker`. A new file has score 1 until scores are computed
  again; a GC that is queued takes it with nothing to discard (`db_impl.cc` 1263).
  `options.h` 113: "The ratio of how much discardable size of a blob file can be
  GC."
- MarkedShareKey of `KeyRanges`, constants of `M`. The largest key of a file of one
  key sorts before its smallest (`db_impl.cc` 1045), so the file stays open to the
  end of the sweep. `blob_gc_job_test.cc` 752: "files overlapped with [e, h] will
  be marked".
- SortedOutput of `GCPass` with `Unsorted = FALSE`. The kernel does not merge its
  inputs (`hardware/kernel/src/gc_kernel.cc` 41). `blob_file_builder.cc` 74: "The
  keys added into blob files are in order."
- RelocatesLive of `GCPass` with `MaxBad = 1`. The merge iterator drops an input
  whose record fails its checksum and stays OK (`blob_file_iterator.cc` 238); the
  records behind it are deleted. `blob_gc_job.cc` 351 means to see such an error.
- OutputIterates of `GCPass`. An iterator as BuildIterator makes it, without the
  number of entries (`blob_gc_job.cc` 516, `blob_file_iterator.h` 26), ends on the
  output of the device with a failed checksum, because the padding is decoded as
  a record. `blob_gc_job_test.cc` 293, after the last record of a GC output:
  "ASSERT_FALSE(iter->Valid() || !iter->status().ok());". The test passes the
  number of entries (204), and does not run on the device (510). RelocatesLive shows
  that no record is lost by it: the error comes behind the last record, and the
  merge iterator forgets it, as in the entry before.

## 7. What is not modelled

- **MultiGet and NewIterators**, which repeat Get and NewIterator on one snapshot;
  Open with changed options, CompactFiles, SetOptions, GetProperty.
- **Encodings**: of edits, blob indexes, records and table properties; compression,
  its dictionary, checksums. A model has what they carry; a record that fails its
  checksum is a bad record in `GCPass`.
- **The readahead** of the prefetcher and the file system calls below a reader.
- **The device**: OpenCL calls, buffers in its memory, the fixed limits of the
  kernel on keys and values.
- **Options, statistics, logging, utilities**, the benchmark and stress tools, and
  vendor code for the device (`xcl2`): no state that another part's correctness depends on.
- **The vendored RocksDB**, but for what TitanDB needs of it and what AegonKV has
  changed in it. It is about 370,000 of the repository's 384,000 lines of
  implementation, so the lines that `map` names, about two fifths of
  `src/AegonKV/src`, are one or two in a hundred of the whole.
- **Data races** are not modelled as such. The steps of the models are those
  between which the code gives up a lock.

Observations that are no property: DoRunGC never increases `file_size`, so that
its output is never split; `KeyRanges` leaves out ranges with begin after end; a
reader that is inserted in the cache after the eviction of its file stays there
until the cache evicts it by age.

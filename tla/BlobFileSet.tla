---------------------------- MODULE BlobFileSet ----------------------------
(***************************************************************************)
(* The set of blob files and its manifest: VersionEdits are logged, synced *)
(* and applied by LogAndApply, and replayed by Recover through one         *)
(* EditCollector.  A sync may fail, and a crash may happen at any point and*)
(* loses what was not synced.                                              *)
(*                                                                         *)
(* Every caller holds mutex_ across LogAndApply, so an action is one call. *)
(* What the tables of the LSM tree refer to (ref) changes with the versions*)
(* of the base DB, which it keeps in a manifest of its own.                *)
(***************************************************************************)
EXTENDS Naturals, Sequences, FiniteSets

CONSTANTS
  CF,          \* column families
  DefaultCF,   \* the column family with id 0
  MaxFile,     \* bound on the file numbers, which each restart moves by one
  MaxCrash,    \* bound on the crashes
  MaxFault,    \* bound on the failed writes and syncs
  Device,      \* whether GC outputs may come from the device
  LevelMerge   \* whether level_merge is on

ASSUME BlobFileSetAssumption ==
  /\ DefaultCF \in CF
  /\ MaxFile \in Nat /\ MaxCrash \in Nat /\ MaxFault \in Nat
  /\ Device \in BOOLEAN /\ LevelMerge \in BOOLEAN

VARIABLES
  manifest,    \* the records of the current manifest file
  synced,      \* how many of them are synced
  current,     \* manifest_file_number_
  next,        \* next_file_number_
  files,       \* cf -> files_ that are not obsolete
  obsolete,    \* cf -> files_ that are obsolete
  storage,     \* cf -> "open", "destroyed" (destroyed_), "erased" (no storage)
  obsolete_columns, \* obsolete_columns_
  handles,     \* column families whose handle is not destroyed
  dropped,     \* column families the base DB has dropped
  dropping,    \* those whose DropColumnFamilies has not returned
  building,    \* cf -> blob files being written
  built,       \* cf -> blob files logged, their table not installed
  inputs,      \* cf -> inputs of the GC job that are not obsolete
  merged,      \* files that a level merge found without live data
  ref,         \* cf -> blob files the tables refer to
  disk,        \* blob files on disk
  durable,     \* those that survive a crash
  pc,          \* "up", "purge" (Recover, before its purge), "down", "failed"
  faults, crashes

memVars == <<files, obsolete, storage, obsolete_columns, handles>>
cfVars  == <<dropped, dropping>>
jobVars == <<building, built, inputs, merged>>
logVars == <<manifest, synced, faults>>
vars == <<logVars, current, next, memVars, cfVars, jobVars, ref, disk, durable,
          pc, crashes>>

\* A record holds the files it adds and deletes per column family.
Edit(cf, add, del) ==
  [add  |-> [c \in CF |-> IF c = cf THEN add ELSE {}],
   del  |-> [c \in CF |-> IF c = cf THEN del ELSE {}],
   next |-> next]

\* WriteSnapshot: one record per column family behind a global one; CURRENT
\* names the manifest only when all of them are synced.
Snapshot(alive, n) ==
  [add |-> alive, del |-> [c \in CF |-> {}], next |-> n]

Nothing == [c \in CF |-> {}]

Init ==
  /\ current = 1 /\ next = 2
  /\ manifest = <<Snapshot(Nothing, 2)>> /\ synced = 1
  /\ files = Nothing /\ obsolete = Nothing
  /\ storage = [c \in CF |-> "open"]
  /\ obsolete_columns = {} /\ handles = CF
  /\ dropped = {} /\ dropping = {}
  /\ building = Nothing /\ built = Nothing /\ inputs = Nothing /\ merged = {}
  /\ ref = Nothing /\ disk = {} /\ durable = {}
  /\ pc = "up" /\ faults = 0 /\ crashes = 0

-----------------------------------------------------------------------------
(* The replay of a manifest.                                               *)

Added(m, cf)   == UNION {m[i].add[cf] : i \in 1 .. Len(m)}
Deleted(m, cf) == UNION {m[i].del[cf] : i \in 1 .. Len(m)}
Alive(m, cf)   == Added(m, cf) \ Deleted(m, cf)

\* EditCollector::AddEdit: nothing is added or deleted twice, and the next
\* file number does not fall.
AddEdits(m) ==
  \A i, j \in 1 .. Len(m) : i < j =>
    /\ \A cf \in CF : /\ m[i].add[cf] \cap m[j].add[cf] = {}
                      /\ m[i].del[cf] \cap m[j].del[cf] = {}
    /\ m[i].next <= m[j].next

\* EditCollector::Seal on the empty storages of a Recover: what is deleted
\* was added.  Column families that are not open are skipped.
CanReplay(m, opened) ==
  /\ AddEdits(m)
  /\ \A cf \in opened : Deleted(m, cf) \subseteq Added(m, cf)

\* Mutant of NextFileNumber: the number of the first record.
NextFileNumberFirst(m) == m[1].next

\* GetNextFileNumber.
NextFileNumber(m) == m[Len(m)].next

-----------------------------------------------------------------------------
(* LogAndApply.                                                            *)

\* EditCollector::Seal on the storage of the column family.
Seal(cf, add, del) ==
  storage[cf] # "erased" =>
    /\ add \cap (files[cf] \cup obsolete[cf]) = {}
    /\ del \subseteq files[cf]

\* AddBlobFile and MarkFileObsolete.  A GC job skips inputs that are obsolete.
Apply(cf, add, del) ==
  IF storage[cf] = "erased" THEN UNCHANGED <<files, obsolete>>
  ELSE /\ files' = [files EXCEPT ![cf] = (@ \cup add) \ del]
       /\ obsolete' = [obsolete EXCEPT ![cf] = @ \cup del]

\* Mutant of LogAndApply: the edit is applied before it is synced.
LogAndApplyEarly(cf, add, del, ok) ==
  \/ /\ Seal(cf, add, del)
     /\ ok
     /\ manifest' = Append(manifest, Edit(cf, add, del))
     /\ Apply(cf, add, del)
     /\ UNCHANGED <<synced, faults>>
  \/ /\ ~ ok /\ ~ Seal(cf, add, del)
     /\ UNCHANGED <<logVars, files, obsolete>>

\* A failed write or sync leaves the record in the file or not, and the
\* memory as it was.
LogAndApply(cf, add, del, ok) ==
  \/ /\ ok /\ Seal(cf, add, del)
     /\ manifest' = Append(manifest, Edit(cf, add, del))
     /\ synced' = Len(manifest) + 1
     /\ Apply(cf, add, del)
     /\ UNCHANGED faults
  \/ /\ ~ ok /\ ~ Seal(cf, add, del)
     /\ UNCHANGED <<logVars, files, obsolete>>
  \/ /\ ~ ok /\ Seal(cf, add, del)
     /\ faults < MaxFault /\ faults' = faults + 1
     /\ manifest' \in {manifest, Append(manifest, Edit(cf, add, del))}
     /\ UNCHANGED <<synced, files, obsolete>>

-----------------------------------------------------------------------------
(* Files written by flush, compaction and GC.                              *)

\* FileManager::NewFile, or the output number of a GC job on the device.
NewFile(cf) ==
  /\ pc = "up" /\ cf \notin dropped
  /\ next <= MaxFile + crashes
  /\ next' = next + 1
  /\ building' = [building EXCEPT ![cf] = @ \cup {next}]
  /\ disk' = disk \cup {next}
  /\ UNCHANGED <<logVars, current, memVars, cfVars, built, inputs, merged, ref,
                 durable, pc, crashes>>

Finish(cf, f, ok) ==
  /\ pc = "up" /\ f \in building[cf]
  /\ building' = [building EXCEPT ![cf] = @ \ {f}]
  /\ built' = IF ok THEN [built EXCEPT ![cf] = @ \cup {f}] ELSE built
  /\ UNCHANGED <<current, next, storage, obsolete_columns, handles, cfVars,
                 inputs, merged, ref, disk, crashes>>

\* Mutant of BatchFinishFiles: the file is not synced.
BatchFinishUnsynced(cf, f, ok) ==
  /\ Finish(cf, f, ok)
  /\ LogAndApply(cf, {f}, {}, ok)
  /\ UNCHANGED <<durable, pc>>

\* FileManager::BatchFinishFiles syncs the file and its directory first.
BatchFinishFiles(cf, f, ok) ==
  /\ Finish(cf, f, ok)
  /\ LogAndApply(cf, {f}, {}, ok)
  /\ durable' = durable \cup {f}
  /\ UNCHANGED pc

\* ... which may fail.
SyncFails(cf, f) ==
  /\ Finish(cf, f, FALSE)
  /\ faults < MaxFault /\ faults' = faults + 1
  /\ UNCHANGED <<manifest, synced, files, obsolete, durable, pc>>

\* InstallHardwareOutputBlobFiles logs the file without a sync of it.  It
\* asserts that LogAndApply succeeds, which a release build does not check.
InstallHardwareOutputBlobFiles(cf, f, ok) ==
  /\ Device
  /\ Finish(cf, f, ok)
  /\ LogAndApply(cf, {f}, {}, ok)
  /\ pc' \in IF ok THEN {"up"} ELSE {"up", "down"}
  /\ UNCHANGED durable

\* The base DB installs a table, or a write-back, with the indexes of f.
Reference(cf, f) ==
  /\ pc = "up" /\ cf \notin dropped /\ f \in built[cf]
  /\ built' = [built EXCEPT ![cf] = @ \ {f}]
  /\ ref' = [ref EXCEPT ![cf] = @ \cup {f}]
  /\ UNCHANGED <<logVars, current, next, memVars, cfVars, building, inputs,
                 merged, disk, durable, pc, crashes>>

\* Compactions and write-backs have dropped all indexes of f.
Unreference(cf, f) ==
  /\ pc = "up" /\ f \in ref[cf]
  /\ ref' = [ref EXCEPT ![cf] = @ \ {f}]
  /\ UNCHANGED <<logVars, current, next, memVars, cfVars, jobVars, disk, durable,
                 pc, crashes>>

-----------------------------------------------------------------------------
(* Files deleted by GC, by users and by level merge.                       *)

\* PickBlobGC takes files in state kNormal.
PickBlobGC(cf, picked) ==
  /\ pc = "up" /\ dropping = {} /\ cf \notin dropped
  /\ inputs[cf] = {}
  /\ picked # {} /\ picked \subseteq files[cf] \ built[cf]
  /\ inputs' = [inputs EXCEPT ![cf] = picked]
  /\ UNCHANGED <<logVars, current, next, memVars, cfVars, building, built, merged,
                 ref, disk, durable, pc, crashes>>

\* Mutant of DeleteInputBlobFiles: before the keys are rewritten.
DeleteInputUnchecked(cf, ok) ==
  /\ pc = "up" /\ inputs[cf] # {}
  /\ LogAndApply(cf, {}, inputs[cf], ok)
  /\ inputs' = [inputs EXCEPT ![cf] = {}]
  /\ UNCHANGED <<current, next, storage, obsolete_columns, handles, cfVars,
                 building, built, merged, ref, disk, durable, pc, crashes>>

\* DeleteInputBlobFiles, when the keys of the inputs are rewritten.  When the
\* job fails its inputs may be picked again.
DeleteInputBlobFiles(cf, ok) ==
  /\ pc = "up" /\ inputs[cf] # {}
  /\ inputs[cf] \cap ref[cf] = {}
  /\ LogAndApply(cf, {}, inputs[cf], ok)
  /\ inputs' = [inputs EXCEPT ![cf] = {}]
  /\ UNCHANGED <<current, next, storage, obsolete_columns, handles, cfVars,
                 building, built, merged, ref, disk, durable, pc, crashes>>

\* Mutant of DeleteBlobFilesInRanges: a GC job does not notice.
DeleteRangesUnnoticed(cf, del, ok) ==
  /\ pc = "up" /\ cf \in handles /\ storage[cf] # "erased"
  /\ del # {} /\ del \subseteq files[cf]
  /\ LogAndApply(cf, {}, del, ok)
  /\ built' = [built EXCEPT ![cf] = @ \ del]
  /\ ref' = [ref EXCEPT ![cf] = @ \ del]
  /\ UNCHANGED <<current, next, storage, obsolete_columns, handles, cfVars, inputs,
                 building, merged, disk, durable, pc, crashes>>

\* DeleteBlobFilesInRanges: the caller gives up the keys in the range.  It
\* takes any file that is not obsolete, also one that a GC job works on.
DeleteBlobFilesInRanges(cf, del, ok) ==
  /\ pc = "up" /\ cf \in handles /\ storage[cf] # "erased"
  /\ del # {} /\ del \subseteq files[cf]
  /\ LogAndApply(cf, {}, del, ok)
  /\ inputs' = IF ok THEN [inputs EXCEPT ![cf] = @ \ del] ELSE inputs
  /\ built' = [built EXCEPT ![cf] = @ \ del]
  /\ ref' = [ref EXCEPT ![cf] = @ \ del]
  /\ UNCHANGED <<current, next, storage, obsolete_columns, handles, cfVars,
                 building, merged, disk, durable, pc, crashes>>

\* With level_merge, OnCompactionCompleted and DeleteFilesInRanges delete the
\* files without live data in an edit that carries no column family id, and
\* ignore the status.  The live data of a file comes to 0 once.
LevelMergeDelete(cf, del, ok) ==
  /\ LevelMerge /\ pc = "up" /\ storage[cf] # "erased"
  /\ del # {} /\ del \subseteq files[cf] \ (ref[cf] \cup built[cf] \cup merged)
  /\ LogAndApply(DefaultCF, {}, del, ok)
  /\ merged' = merged \cup del
  /\ inputs' = IF ok THEN [inputs EXCEPT ![DefaultCF] = @ \ del] ELSE inputs
  /\ UNCHANGED <<current, next, storage, obsolete_columns, handles, cfVars,
                 building, built, ref, disk, durable, pc, crashes>>

-----------------------------------------------------------------------------
(* The life of a column family.                                            *)

\* DropColumnFamilies waits for GC jobs and drops in the base DB.
DropInBaseDB(cf) ==
  /\ pc = "up" /\ cf \in handles /\ cf # DefaultCF /\ cf \notin dropped
  /\ \A c \in CF : inputs[c] = {}
  /\ dropped' = dropped \cup {cf}
  /\ dropping' = dropping \cup {cf}
  /\ ref' = [ref EXCEPT ![cf] = {}]
  /\ UNCHANGED <<logVars, current, next, memVars, jobVars, disk, durable, pc,
                 crashes>>

\* BlobFileSet::DropColumnFamilies.
DropColumnFamilies(cf, ok) ==
  /\ pc = "up" /\ cf \in dropping
  /\ dropping' = dropping \ {cf}
  /\ LogAndApply(cf, {}, files[cf], ok)
  /\ obsolete_columns' = IF ok THEN obsolete_columns \cup {cf}
                               ELSE obsolete_columns
  /\ UNCHANGED <<current, next, storage, handles, dropped, jobVars, ref, disk,
                 durable, pc, crashes>>

\* What MaybeRemove decides for a storage with the given obsolete files.
Removed(s, left) == s = "destroyed" /\ left = {}

\* Mutant of MaybeDestroyColumnFamily: the storage goes at once.
DestroyAtOnce(cf) ==
  /\ pc = "up" /\ cf \in handles /\ cf \notin dropping
  /\ handles' = handles \ {cf}
  /\ obsolete_columns' = obsolete_columns \ {cf}
  /\ storage' = [storage EXCEPT ![cf] = "erased"]
  /\ files' = [files EXCEPT ![cf] = {}]
  /\ obsolete' = [obsolete EXCEPT ![cf] = {}]
  /\ UNCHANGED <<logVars, current, next, cfVars, jobVars, ref, disk, durable, pc,
                 crashes>>

\* DestroyColumnFamilyHandle, for a column family that is dropped or not.
MaybeDestroyColumnFamily(cf) ==
  /\ pc = "up" /\ cf \in handles /\ cf \notin dropping
  /\ handles' = handles \ {cf}
  /\ obsolete_columns' = obsolete_columns \ {cf}
  /\ storage' = [storage EXCEPT ![cf] = IF Removed("destroyed", obsolete[cf])
                                        THEN "erased" ELSE "destroyed"]
  /\ files' = [files EXCEPT ![cf] = IF Removed("destroyed", obsolete[cf])
                                    THEN {} ELSE @]
  /\ UNCHANGED <<logVars, current, next, obsolete, cfVars, jobVars, ref, disk,
                 durable, pc, crashes>>

\* PurgeObsoleteFilesImpl without snapshots: GetObsoleteFiles and the unlinks.
PurgeObsoleteFiles ==
  LET purged == {c \in CF : c \notin obsolete_columns /\ storage[c] # "erased"}
      unlink == UNION {obsolete[c] : c \in purged} IN
  /\ pc = "up"
  /\ obsolete' = [c \in CF |-> IF c \in purged THEN {} ELSE obsolete[c]]
  /\ storage' = [c \in CF |-> IF c \in purged /\ Removed(storage[c], {})
                              THEN "erased" ELSE storage[c]]
  /\ files' = [c \in CF |-> IF c \in purged /\ Removed(storage[c], {})
                            THEN {} ELSE files[c]]
  /\ disk' = disk \ unlink
  /\ durable' = durable \ unlink
  /\ UNCHANGED <<logVars, current, next, obsolete_columns, handles, cfVars,
                 jobVars, ref, pc, crashes>>

-----------------------------------------------------------------------------
(* Crash and recovery.                                                     *)

\* Records behind the last sync may be lost, and so may files that were not
\* synced; what was in memory is gone.
Crash ==
  /\ pc \in {"up", "purge"} /\ crashes < MaxCrash
  /\ crashes' = crashes + 1
  /\ pc' = "down"
  /\ \E k \in synced .. Len(manifest) : manifest' = SubSeq(manifest, 1, k)
  /\ \E lost \in SUBSET (disk \ durable) : disk' = disk \ lost
  /\ files' = Nothing /\ obsolete' = Nothing /\ obsolete_columns' = {}
  /\ dropping' = {}
  /\ building' = Nothing /\ built' = Nothing /\ inputs' = Nothing
  /\ UNCHANGED <<synced, faults, current, next, storage, handles, dropped, merged,
                 ref, durable>>

\* Recover up to OpenManifest: replay, then a new manifest with a snapshot.
Recover ==
  LET opened == CF \ dropped
      alive  == [c \in CF |-> IF c \in opened THEN Alive(manifest, c) ELSE {}]
      number == NextFileNumber(manifest) IN
  /\ pc = "down"
  /\ CanReplay(manifest, opened)
  /\ pc' = "purge"
  /\ current' = number
  /\ next' = number + 1
  /\ manifest' = <<Snapshot(alive, number + 1)>>
  /\ synced' = 1
  /\ files' = alive /\ obsolete' = Nothing
  /\ storage' = [c \in CF |-> IF c \in opened THEN "open" ELSE "erased"]
  /\ handles' = opened
  /\ obsolete_columns' = {} /\ dropping' = {}
  /\ building' = Nothing /\ built' = Nothing /\ inputs' = Nothing
  /\ UNCHANGED <<faults, dropped, merged, ref, disk, durable, crashes>>

\* Open returns Corruption.
RecoverFails ==
  /\ pc = "down" /\ ~ CanReplay(manifest, CF \ dropped)
  /\ pc' = "failed"
  /\ UNCHANGED <<logVars, current, next, memVars, cfVars, jobVars, ref, disk,
                 durable, crashes>>

\* "Purge inactive files at start": by number, and the number of the new
\* manifest is among those to keep.
PurgeInactiveFiles ==
  LET alive == UNION {files[c] : c \in CF} \cup {current} IN
  /\ pc = "purge"
  /\ pc' = "up"
  /\ disk' = disk \cap alive
  /\ durable' = durable \cap alive
  /\ UNCHANGED <<logVars, current, next, memVars, cfVars, jobVars, ref, crashes>>

-----------------------------------------------------------------------------
Number == 1 .. MaxFile + MaxCrash + 2

Next ==
  \/ \E cf \in CF : NewFile(cf)
  \/ \E cf \in CF, f \in Number, ok \in BOOLEAN : BatchFinishFiles(cf, f, ok)
  \/ \E cf \in CF, f \in Number : SyncFails(cf, f)
  \/ \E cf \in CF, f \in Number, ok \in BOOLEAN :
       InstallHardwareOutputBlobFiles(cf, f, ok)
  \/ \E cf \in CF, f \in Number : Reference(cf, f)
  \/ \E cf \in CF, f \in Number : Unreference(cf, f)
  \/ \E cf \in CF : \E picked \in SUBSET files[cf] : PickBlobGC(cf, picked)
  \/ \E cf \in CF, ok \in BOOLEAN : DeleteInputBlobFiles(cf, ok)
  \/ \E cf \in CF, ok \in BOOLEAN : \E del \in SUBSET files[cf] :
       DeleteBlobFilesInRanges(cf, del, ok)
  \/ \E cf \in CF, ok \in BOOLEAN : \E del \in SUBSET files[cf] :
       LevelMergeDelete(cf, del, ok)
  \/ \E cf \in CF : DropInBaseDB(cf)
  \/ \E cf \in CF, ok \in BOOLEAN : DropColumnFamilies(cf, ok)
  \/ \E cf \in CF : MaybeDestroyColumnFamily(cf)
  \/ PurgeObsoleteFiles
  \/ Crash
  \/ Recover
  \/ RecoverFails
  \/ PurgeInactiveFiles

Spec == Init /\ [][Next]_vars

\* Background threads purge, and a process that is down is started again.
Fairness ==
  /\ WF_vars(PurgeObsoleteFiles)
  /\ WF_vars(Recover)
  /\ WF_vars(PurgeInactiveFiles)

FairSpec == Spec /\ Fairness

-----------------------------------------------------------------------------
(* Properties.                                                             *)

FileSets == [CF -> SUBSET Number]

\* The variables stay within their types: what is durable is on disk, and a
\* column family is being dropped only after the base DB has dropped it.
TypeOK ==
  /\ manifest \in Seq([add : FileSets, del : FileSets, next : Nat])
  /\ synced \in 1 .. Len(manifest)
  /\ current \in Nat /\ next \in Nat
  /\ files \in FileSets /\ obsolete \in FileSets
  /\ storage \in [CF -> {"open", "destroyed", "erased"}]
  /\ obsolete_columns \subseteq CF /\ handles \subseteq CF
  /\ dropped \subseteq CF /\ dropping \subseteq dropped
  /\ building \in FileSets /\ built \in FileSets /\ inputs \in FileSets
  /\ merged \subseteq Number /\ ref \in FileSets
  /\ disk \subseteq Number /\ durable \subseteq disk
  /\ pc \in {"up", "purge", "down", "failed"}
  /\ faults \in Nat /\ crashes \in Nat

\* What a crash may leave of the manifest.
CrashManifests == {SubSeq(manifest, 1, k) : k \in synced .. Len(manifest)}

\* As long as every write and sync of the manifest succeeds, the manifest can
\* be replayed after a crash at any point: no interleaving of flushes, GC
\* jobs, range deletions and drops adds or deletes a file twice, or deletes
\* one that was not added.
Replayable ==
  ~ LevelMerge /\ faults = 0 =>
    \A m \in CrashManifests : CanReplay(m, CF \ dropped)

\* ... and a replay finds the files that are in memory, obsolete ones left
\* out.
ReplayAgrees ==
  ~ LevelMerge /\ faults = 0 /\ pc = "up" =>
    \A m \in CrashManifests : \A cf \in CF :
      storage[cf] # "erased" => Alive(m, cf) = files[cf]

\* Whatever fails, a blob file that tables refer to is alive in every manifest
\* that a crash may leave.
ReferencedAlive ==
  \A m \in CrashManifests : \A cf \in CF : ref[cf] \subseteq Alive(m, cf)

\* ... and the file itself survives the crash.
ReferencedDurable == \A cf \in CF : ref[cf] \subseteq durable

\* The number that the next file gets was not given to any file that the
\* manifest, the memory or a job knows, also after a crash has lost the last
\* records of the manifest.
FreshNumber ==
  pc = "up" =>
    \A cf \in CF :
      \A f \in Added(manifest, cf) \cup obsolete[cf] \cup building[cf]
              \cup built[cf] \cup ref[cf] : f < next /\ f # current

\* An obsolete file is unlinked in the end, unless its column family is dropped
\* and the user still holds the handle.
ObsoletePurged ==
  \A f \in Number :
    (\E cf \in CF : f \in obsolete[cf]) ~>
      (f \notin disk \/ \E cf \in obsolete_columns : f \in obsolete[cf])

\* A manifest that exists can be recovered from.
Recoverable == pc # "failed"

\* The purge at start leaves no file that the manifest does not hold alive.
PurgesInactive ==
  [][PurgeInactiveFiles => disk' \subseteq UNION {files[c] : c \in CF}]_vars

\* A level merge deletes the files it finds without live data.
MergedDeleted == \A cf \in CF : merged \cap files[cf] = {}
=============================================================================

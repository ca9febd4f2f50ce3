----------------------------- MODULE BlobReads -----------------------------
(***************************************************************************)
(* How the blobs of one column family are read: by Gets, by iterators, by  *)
(* the compaction filter (compaction_filter.h) and by the table builder in *)
(* fallback mode or level merge (table_builder.cc).  All of them go        *)
(* through BlobStorage::FindFile and BlobFileCache::FindFile, which look   *)
(* the file up, open it by name and insert the reader in the cache, one    *)
(* after the other and without a lock that covers two of them.  Meanwhile  *)
(* files become obsolete and are purged, and the column family is dropped  *)
(* and its handle destroyed.                                               *)
(*                                                                         *)
(* Gets and iterators hold a snapshot.  Compactions hold none, and meet in *)
(* their input tables indexes that newer tables hide, so that their file   *)
(* may have been collected long ago.                                       *)
(***************************************************************************)
EXTENDS Integers, FiniteSets

CONSTANTS
  File,        \* the blob files of the column family
  Get,         \* threads that call Get
  Iterator,    \* iterators
  Filter,      \* compactions with a TitanCompactionFilter
  Builder,     \* compactions whose table builder reads blobs
  MaxActive,   \* bound on the reads and compactions at a time
  DestroyOpen, \* whether handles are destroyed without a drop
  MaxSeq       \* bound on the sequence numbers

ASSUME BlobReadsAssumption ==
  /\ DestroyOpen \in BOOLEAN /\ MaxActive \in Nat /\ MaxSeq \in Nat
  /\ 0 \notin File
  /\ Get \cap Iterator = {}
  /\ (Get \cup Iterator) \cap (Filter \cup Builder) = {}

VARIABLES
  seq,         \* the latest sequence number
  hidden,      \* file -> first sequence at which no index of it is visible
  files,       \* BlobStorage::files_
  obsSeq,      \* file -> its sequence in obsolete_files_
  obsolete,    \* BlobStorage::obsolete_files_
  disk,        \* the files that have a directory entry
  oldest,      \* the oldest_sequence a purge is using
  candidates,  \* the candidate_files it has left to delete
  handle,      \* whether the column family handle is open
  dropped,     \* whether the column family is dropped
  storage,     \* whether column_families_ holds the storage
  cached,      \* the files whose reader is in the cache
  pc,          \* actor -> the point its read has reached
  snap,        \* actor -> its snapshot
  late,        \* actor -> its snapshot was taken behind a purge's back
  file,        \* actor -> the file it is opening
  pins,        \* actor -> the files it has a prefetcher for
  status,      \* actor -> status of its last read
  bgError      \* has_bg_error_

fileVars == <<hidden, files, obsSeq, obsolete, disk>>
cfVars   == <<handle, dropped, storage>>
actVars  == <<pc, snap, late, file, pins, status>>
vars     == <<seq, fileVars, oldest, candidates, cfVars, cached, actVars,
              bgError>>

Reader             == Get \cup Iterator
Compaction         == Filter \cup Builder
Actor              == Reader \cup Compaction
kMaxSequenceNumber == MaxSeq + 1
NoPurge            == -1
NoSnap             == -1
NoFile             == 0

\* The actors that read through a BlobFilePrefetcher, which keeps the cached
\* reader pinned, and hold no reference to the storage: an iterator has a raw
\* pointer and a table builder a weak one.
Prefetches == Iterator \cup Builder

\* The filter, which is created with the compaction, shares the storage.
Shared == \E a \in Filter : pc[a] # "idle"

\* ~BlobStorage evicts the readers of the files it still holds.
Destroyed(s, c) == IF s \/ Shared THEN c ELSE c \ files

TypeOK ==
  /\ seq \in 0 .. MaxSeq
  /\ hidden \in [File -> 1 .. kMaxSequenceNumber]
  /\ obsolete \subseteq files /\ files \subseteq disk /\ disk \subseteq File
  /\ obsSeq \in [File -> 0 .. MaxSeq]
  /\ oldest \in {NoPurge} \cup (0 .. kMaxSequenceNumber)
  /\ candidates \subseteq disk \ files
  /\ handle \in BOOLEAN /\ dropped \in BOOLEAN /\ storage \in BOOLEAN
  /\ handle => storage
  /\ cached \subseteq File
  /\ pc \in [Actor -> {"idle", "ready", "found", "missed", "opened"}]
  /\ snap \in [Actor -> {NoSnap} \cup (0 .. MaxSeq)]
  /\ late \in [Actor -> BOOLEAN]
  /\ file \in [Actor -> File \cup {NoFile}]
  /\ \A a \in Actor : (file[a] = NoFile) = (pc[a] \in {"idle", "ready"})
  /\ pins \in [Actor -> SUBSET File]
  /\ \A a \in Actor \ Prefetches : pins[a] = {}
  /\ status \in [Actor -> {"kOk", "kCorruption", "kIOError", "freed"}]
  /\ bgError \in BOOLEAN

Init ==
  /\ seq = 0
  /\ hidden = [f \in File |-> kMaxSequenceNumber]
  /\ files = File /\ obsolete = {} /\ disk = File
  /\ obsSeq = [f \in File |-> 0]
  /\ oldest = NoPurge /\ candidates = {}
  /\ handle = TRUE /\ dropped = FALSE /\ storage = TRUE
  /\ cached = {}
  /\ pc = [a \in Actor |-> "idle"]
  /\ snap = [a \in Actor |-> NoSnap]
  /\ late = [a \in Actor |-> FALSE]
  /\ file = [a \in Actor |-> NoFile]
  /\ pins = [a \in Actor |-> {}]
  /\ status = [a \in Actor |-> "kOk"]
  /\ bgError = FALSE

-----------------------------------------------------------------------------
(* Files become obsolete and are purged.                                   *)

\* The keys of file f are overwritten, or rewritten by GC: no later snapshot
\* sees one of its indexes.
Overwrite(f) ==
  /\ seq < MaxSeq /\ ~dropped /\ ~bgError
  /\ seq < hidden[f]
  /\ seq' = seq + 1
  /\ hidden' = [hidden EXCEPT ![f] = seq + 1]
  /\ UNCHANGED <<files, obsSeq, obsolete, disk, oldest, candidates, cfVars,
                 cached, actVars, bgError>>

\* GC has no live record left in f.
DeleteInputBlobFiles(f) ==
  /\ storage /\ ~dropped
  /\ f \in files \ obsolete /\ hidden[f] <= seq
  /\ obsolete' = obsolete \cup {f}
  /\ obsSeq' = [obsSeq EXCEPT ![f] = seq]
  /\ UNCHANGED <<seq, hidden, files, disk, oldest, candidates, cfVars, cached,
                 actVars, bgError>>

\* PurgeObsoleteFilesImpl holds delete_titandb_file_mutex_ until its last file
\* is deleted.
PurgeObsoleteFiles ==
  LET S == {snap[r] : r \in Reader} \ {NoSnap} IN
  /\ oldest = NoPurge /\ candidates = {}
  /\ oldest' = IF S = {} THEN kMaxSequenceNumber
               ELSE CHOOSE s \in S : \A t \in S : s <= t
  /\ UNCHANGED <<seq, fileVars, candidates, cfVars, cached, actVars, bgError>>

\* The column families of obsolete_columns_ are passed over.
InObsoleteColumns == dropped /\ handle

\* Whether a storage that is marked destroyed can be deleted, with obsolete
\* files o.
MaybeRemove(o) == o = {}

\* Mutant of Purgeable: the comparison is not strict.
PurgeableAtOldest(f) == f \in obsolete /\ oldest >= obsSeq[f]

Purgeable(f) == f \in obsolete /\ oldest > obsSeq[f]

\* BlobStorage::RemoveFile erases a file and evicts its reader.
GetObsoleteFiles ==
  LET gone == {f \in File : storage /\ ~InObsoleteColumns /\ Purgeable(f)} IN
  /\ oldest # NoPurge
  /\ oldest' = NoPurge
  /\ files' = files \ gone
  /\ obsolete' = obsolete \ gone
  /\ candidates' = gone
  /\ storage' = (storage /\ (handle \/ ~MaybeRemove(obsolete')))
  /\ cached' = Destroyed(storage', cached \ gone)
  /\ UNCHANGED <<seq, hidden, obsSeq, disk, handle, dropped, actVars, bgError>>

DeleteFile(f) ==
  /\ f \in candidates
  /\ candidates' = candidates \ {f}
  /\ disk' = disk \ {f}
  /\ UNCHANGED <<seq, hidden, files, obsSeq, obsolete, oldest, cfVars, cached,
                 actVars, bgError>>

-----------------------------------------------------------------------------
(* The life of the column family.                                          *)

DropColumnFamilies ==
  /\ handle /\ ~dropped
  /\ dropped' = TRUE
  /\ obsolete' = files
  /\ obsSeq' = [f \in File |-> IF f \in files \ obsolete THEN seq
                               ELSE obsSeq[f]]
  /\ UNCHANGED <<seq, hidden, files, disk, oldest, candidates, handle, storage,
                 cached, actVars, bgError>>

\* A handle is not destroyed while a Get uses it; an iterator does not use it.
DestroyColumnFamilyHandle ==
  /\ handle /\ (dropped \/ DestroyOpen)
  /\ \A a \in Get : pc[a] = "idle"
  /\ handle' = FALSE
  /\ storage' = ~MaybeRemove(obsolete)
  /\ cached' = Destroyed(storage', cached)
  /\ UNCHANGED <<seq, fileVars, oldest, candidates, dropped, actVars, bgError>>

-----------------------------------------------------------------------------
(* Reads.                                                                  *)

Starts(a) ==
  /\ pc[a] = "idle"
  /\ Cardinality({b \in Actor : pc[b] # "idle"}) < MaxActive
  /\ pc' = [pc EXCEPT ![a] = "ready"]

\* A Get or an iterator begins with a snapshot.  late[r] is a history
\* variable: a purge has read the oldest snapshot and has not yet taken the
\* mutex, and will not protect this one.
NewRead(r) ==
  /\ handle
  /\ Starts(r)
  /\ snap' = [snap EXCEPT ![r] = seq]
  /\ late' = [late EXCEPT ![r] = oldest # NoPurge /\ oldest > seq]
  /\ UNCHANGED <<seq, fileVars, oldest, candidates, cfVars, cached, file, pins,
                 status, bgError>>

\* The base DB compacts a column family until it is dropped.  Without a
\* storage no filter is created.
NewCompaction(a) ==
  /\ ~dropped
  /\ a \in Filter => storage
  /\ Starts(a)
  /\ UNCHANGED <<seq, fileVars, oldest, candidates, cfVars, cached, snap, late,
                 file, pins, status, bgError>>

\* The blob indexes an actor may meet.
Meets(a, f) == a \in Reader => snap[a] < hidden[f]

\* The outcome of a read: an error other than a corruption makes the filter
\* set the background error.
Ends(a, s) ==
  /\ status' = [status EXCEPT ![a] = s]
  /\ bgError' = (bgError \/ (a \in Filter /\ s = "kIOError"))

\* GetBlobValue of an iterator and GetBlobRecord of a table builder look for a
\* prefetcher first.
HasPrefetcher(a, f) == f \in pins[a]

\* BlobStorage::Get and NewPrefetcher, up to BlobStorage::FindFile.  "freed"
\* stands for the use of a storage that does not exist any more.
FindFile(a, f) ==
  LET ends == IF HasPrefetcher(a, f) THEN "kOk"
              ELSE IF a \in Prefetches /\ ~storage /\ ~Shared THEN "freed"
              ELSE IF f \notin files THEN "kCorruption" ELSE "none"
  IN
  /\ pc[a] = "ready" /\ Meets(a, f)
  /\ IF ends = "none"
     THEN /\ pc' = [pc EXCEPT ![a] = "found"]
          /\ file' = [file EXCEPT ![a] = f]
          /\ UNCHANGED <<status, bgError>>
     ELSE Ends(a, ends) /\ UNCHANGED <<pc, file>>
  /\ UNCHANGED <<seq, fileVars, oldest, candidates, cfVars, cached, snap, late,
                 pins>>

\* The actor has a reader of file[a]: it reads, and keeps the reader or
\* releases it.
Served(a) ==
  /\ pins' = IF a \in Prefetches THEN [pins EXCEPT ![a] = @ \cup {file[a]}]
             ELSE pins
  /\ pc' = [pc EXCEPT ![a] = "ready"]
  /\ file' = [file EXCEPT ![a] = NoFile]
  /\ Ends(a, "kOk")

Lookup(a) ==
  /\ pc[a] = "found"
  /\ IF file[a] \in cached THEN Served(a)
     ELSE /\ pc' = [pc EXCEPT ![a] = "missed"]
          /\ UNCHANGED <<file, pins, status, bgError>>
  /\ UNCHANGED <<seq, fileVars, oldest, candidates, cfVars, cached, snap, late>>

NewRandomAccessFile(a) ==
  /\ pc[a] = "missed"
  /\ IF file[a] \in disk
     THEN /\ pc' = [pc EXCEPT ![a] = "opened"]
          /\ UNCHANGED <<file, status, bgError>>
     ELSE /\ pc' = [pc EXCEPT ![a] = "ready"]
          /\ file' = [file EXCEPT ![a] = NoFile]
          /\ Ends(a, "kIOError")
  /\ UNCHANGED <<seq, fileVars, oldest, candidates, cfVars, cached, snap, late,
                 pins>>

Insert(a) ==
  /\ pc[a] = "opened"
  /\ cached' = cached \cup {file[a]}
  /\ Served(a)
  /\ UNCHANGED <<seq, fileVars, oldest, candidates, cfVars, snap, late>>

\* A Get returns, an iterator is deleted, a compaction ends.  The last filter
\* may take the storage with it.
EndRead(a) ==
  /\ pc[a] = "ready"
  /\ pc' = [pc EXCEPT ![a] = "idle"]
  /\ snap' = [snap EXCEPT ![a] = NoSnap]
  /\ late' = [late EXCEPT ![a] = FALSE]
  /\ pins' = [pins EXCEPT ![a] = {}]
  /\ status' = [status EXCEPT ![a] = "kOk"]
  /\ cached' = IF ~storage /\ a \in Filter
                  /\ \A b \in Filter \ {a} : pc[b] = "idle"
               THEN cached \ files ELSE cached
  /\ UNCHANGED <<seq, fileVars, oldest, candidates, cfVars, file, bgError>>

\* The cache evicts a reader to make room for another.
EvictLRU(f) ==
  /\ f \in cached
  /\ cached' = cached \ {f}
  /\ UNCHANGED <<seq, fileVars, oldest, candidates, cfVars, actVars, bgError>>

Next ==
  \/ \E f \in File : Overwrite(f) \/ DeleteInputBlobFiles(f) \/ DeleteFile(f)
                     \/ EvictLRU(f)
  \/ PurgeObsoleteFiles \/ GetObsoleteFiles
  \/ DropColumnFamilies \/ DestroyColumnFamilyHandle
  \/ \E r \in Reader : NewRead(r)
  \/ \E a \in Compaction : NewCompaction(a)
  \/ \E a \in Actor :
       \/ \E f \in File : FindFile(a, f)
       \/ Lookup(a) \/ NewRandomAccessFile(a) \/ Insert(a) \/ EndRead(a)

Spec == Init /\ [][Next]_vars

-----------------------------------------------------------------------------
(* Properties.                                                             *)

\* A snapshot protects a read through all of its steps (the comment in
\* titan_db_test.cc:765): between finding the file and having a reader of it,
\* through drops and after the handle of a dropped column family is destroyed,
\* a Get or an iterator neither misses its file nor loses its storage.  The
\* snapshots taken inside the window of a running purge are excepted.
SnapshotServed == \A r \in Reader : ~late[r] => status[r] = "kOk"

\* A compaction filter that meets a collected file keeps the entry
\* (compaction_filter.h:73) and does not stop the database.
FilterHarmless == ~bgError

\* An iterator reads through a storage that exists: it need only be deleted
\* before the database is (rocksdb/db.h:825).
IteratorHasStorage == \A r \in Iterator : status[r] # "freed"

\* assert(storage != nullptr) of TitanTableBuilder::GetBlobRecord.
BuilderHasStorage == \A a \in Builder : status[a] # "freed"
=============================================================================

------------------------------ MODULE TitanDB ------------------------------
(***************************************************************************)
(* The core of the store: one column family of TitanDB with key-value      *)
(* separation, snapshots, the software garbage collector, the purge of     *)
(* obsolete blob files, and crash and restart.                             *)
(*                                                                         *)
(* The LSM tree is the map  lsm  from sequence numbers to entries.  The    *)
(* entries up to  flushed  are in SST files, the later ones in memtables;  *)
(* a crash keeps any prefix that contains the first  synced  of them.  A   *)
(* value is the number of the Put that wrote it, and serves as the offset  *)
(* of its record in a blob file: what a blob index tells apart is the      *)
(* file and the record in it.                                              *)
(***************************************************************************)
EXTENDS Integers, FiniteSets

CONSTANTS
  Key,        \* user keys: positive numbers, in the order of the comparator
  Reader,     \* threads that hold a snapshot and call Get
  Worker,     \* threads of the GC pool
  Job,        \* background jobs of the base DB: "flush", "compaction"
  RunMode,    \* values of blob_run_mode that SetOptions may select
  Faults,     \* whether I/O errors happen
  MaxSeq,     \* bound on sequence numbers
  MaxPut,     \* bound on user writes
  MaxFile,    \* bound on blob file numbers
  MaxCrash    \* bound on crashes

ASSUME ConstantsAssumption ==
  /\ Key \subseteq Nat \ {0}
  /\ Job \subseteq {"flush", "compaction"}
  /\ RunMode \subseteq {"kNormal", "kReadOnly", "kFallback"}
  /\ Faults \in BOOLEAN
  /\ MaxSeq \in Nat
  /\ MaxPut \in Nat
  /\ MaxFile \in Nat
  /\ MaxCrash \in Nat

VARIABLES
  seq,        \* latest sequence number of the base DB
  lsm,        \* sequence number -> entry
  flushed,    \* sequence numbers up to this one are in SST files
  synced,     \* sequence numbers up to this one survive a crash
  puts,       \* number of user writes so far
  crashes,    \* number of crashes so far
  bgError,    \* has_bg_error_
  nextFile,   \* next_file_number_
  state,      \* blob file -> FileState
  recs,       \* blob file -> the records in it
  obsSeq,     \* blob file -> its obsolete_sequence
  snap,       \* reader -> the sequence of its snapshot
  late,       \* reader -> its snapshot was taken behind a purge's back
  idx,        \* reader -> the blob index a Get is about to follow
  failed,     \* reader -> a Get on its snapshot returned Corruption
  oldest,     \* the oldest_sequence a purge is using
  jpc,        \* table job -> its program counter
  jupto,      \* table job -> the last sequence number it reads
  jfile,      \* table job -> the blob file it writes
  jout,       \* table job -> the entries it writes
  callbacks,  \* blob files of installed tables whose completion callback
              \* has not run yet
  gpc,        \* GC worker -> its program counter
  gmode,      \* GC worker -> the blob_run_mode of its job
  inputs,     \* GC worker -> blob_gc_->inputs()
  todo,       \* GC worker -> records the merge iterator has still to visit
  batches,    \* GC worker -> rewrite_batches_
  out         \* GC worker -> the blob file it writes

lsmVars    == <<seq, lsm, flushed, synced>>
userVars   == <<puts, crashes>>
fileVars   == <<nextFile, state, recs, obsSeq>>
readerVars == <<snap, late, idx, failed>>
jobVars    == <<jpc, jupto, jfile, jout, callbacks>>
gcVars     == <<gpc, gmode, inputs, todo, batches, out>>
vars == <<lsmVars, userVars, bgError, fileVars, readerVars, oldest, jobVars,
          gcVars>>

-----------------------------------------------------------------------------
(* Entries, records and file states.                                       *)

Seqs == 1 .. MaxSeq
File == 1 .. MaxFile
NoFile == 0
NoSnap == -1
NoKey  == 0
NoPurge == -1
kMaxSequenceNumber == MaxSeq + 1

EntryType == {"none", "kTypeDeletion", "kTypeValue", "kTypeBlobIndex"}
Entry == [type : EntryType, key : Key \cup {NoKey}, val : 0 .. MaxPut,
          file : 0 .. MaxFile]
NoEntry == [type |-> "none", key |-> NoKey, val |-> 0, file |-> NoFile]

ValueEntry(k, v)   == [type |-> "kTypeValue", key |-> k, val |-> v,
                       file |-> NoFile]
BlobEntry(k, v, f) == [type |-> "kTypeBlobIndex", key |-> k, val |-> v,
                       file |-> f]
Tombstone(k)       == [type |-> "kTypeDeletion", key |-> k, val |-> 0,
                       file |-> NoFile]

BlobRecord == [key : Key, val : 1 .. MaxPut]
\* A record under the cursor of the merge iterator, and a write-back: file is
\* where the record is, to where it is rewritten (NoFile: inline).
InputRecord == [key : Key, val : 1 .. MaxPut, file : File]
Batch == [key : Key, val : 1 .. MaxPut, file : File, to : 0 .. MaxFile]

FileState == {"kNone", "kInit", "kPendingLSM", "kNormal", "kBeingGC",
              "kPendingGC", "kObsolete", "kPurged"}

\* The files of BlobStorage::files_, and those the manifest holds alive.
Alive(f)   == state[f] \in {"kPendingLSM", "kNormal", "kBeingGC", "kPendingGC"}
Present(f) == Alive(f) \/ state[f] = "kObsolete"

RecordOf(e) == [key |-> e.key, val |-> e.val]

\* Entry i is what a read at sequence number n finds for its key.
Visible(i, n) ==
  /\ i \in 1 .. n
  /\ lsm[i].type # "none"
  /\ \A j \in (i + 1) .. n : lsm[j].key # lsm[i].key

\* A read of the latest version of the record's key finds the blob index
\* of this record.
Current(r) ==
  \E i \in 1 .. seq : Visible(i, seq) /\ lsm[i] = BlobEntry(r.key, r.val, r.file)

-----------------------------------------------------------------------------
Init ==
  /\ seq = 0 /\ flushed = 0 /\ synced = 0
  /\ lsm = [i \in Seqs |-> NoEntry]
  /\ puts = 0 /\ crashes = 0 /\ bgError = FALSE
  /\ nextFile = 1
  /\ state = [f \in File |-> "kNone"]
  /\ recs = [f \in File |-> {}]
  /\ obsSeq = [f \in File |-> 0]
  /\ snap = [r \in Reader |-> NoSnap]
  /\ late = [r \in Reader |-> FALSE]
  /\ idx = [r \in Reader |-> NoEntry]
  /\ failed = [r \in Reader |-> FALSE]
  /\ oldest = NoPurge
  /\ jpc = [j \in Job |-> "idle"]
  /\ jupto = [j \in Job |-> 0]
  /\ jfile = [j \in Job |-> NoFile]
  /\ jout = [j \in Job |-> [i \in Seqs |-> NoEntry]]
  /\ callbacks = {}
  /\ gpc = [w \in Worker |-> "idle"]
  /\ gmode = [w \in Worker |-> "kNormal"]
  /\ inputs = [w \in Worker |-> {}]
  /\ todo = [w \in Worker |-> {}]
  /\ batches = [w \in Worker |-> {}]
  /\ out = [w \in Worker |-> NoFile]

-----------------------------------------------------------------------------
(* User writes.                                                            *)

AppendEntry(e) ==
  /\ seq < MaxSeq
  /\ seq' = seq + 1
  /\ lsm' = [lsm EXCEPT ![seq + 1] = e]

Put(k) ==
  /\ ~bgError
  /\ puts < MaxPut
  /\ puts' = puts + 1
  /\ AppendEntry(ValueEntry(k, puts + 1))
  /\ UNCHANGED <<flushed, synced, crashes, bgError, fileVars, readerVars,
                 oldest, jobVars, gcVars>>

Delete(k) ==
  /\ ~bgError
  /\ puts < MaxPut
  /\ puts' = puts + 1
  /\ AppendEntry(Tombstone(k))
  /\ UNCHANGED <<flushed, synced, crashes, bgError, fileVars, readerVars,
                 oldest, jobVars, gcVars>>

-----------------------------------------------------------------------------
(* Reads.  A Get looks the key up in the base DB at its snapshot, and then *)
(* follows the blob index in BlobStorage; anything can happen in between.  *)

\* late[r] is a history variable: a purge has read the oldest snapshot and
\* has not yet taken the mutex, and will not protect this snapshot.
GetSnapshot(r) ==
  /\ snap[r] = NoSnap
  /\ snap' = [snap EXCEPT ![r] = seq]
  /\ late' = [late EXCEPT ![r] = oldest # NoPurge /\ oldest > seq]
  /\ UNCHANGED <<lsmVars, userVars, bgError, fileVars, idx, failed, oldest,
                 jobVars, gcVars>>

\* A Get that finds a value, a tombstone or nothing is done; one that finds
\* blob index lsm[i] goes on to BlobStorage.
GetImpl(r, i) ==
  /\ snap[r] # NoSnap
  /\ idx[r] = NoEntry
  /\ Visible(i, snap[r])
  /\ lsm[i].type = "kTypeBlobIndex"
  /\ idx' = [idx EXCEPT ![r] = lsm[i]]
  /\ UNCHANGED <<lsmVars, userVars, bgError, fileVars, snap, late, failed,
                 oldest, jobVars, gcVars>>

\* BlobStorage::Get finds the file and in it the record of blob index e.
Found(e) == Present(e.file) /\ RecordOf(e) \in recs[e.file]

BlobStorageGet(r) ==
  /\ idx[r] # NoEntry
  /\ failed' = [failed EXCEPT ![r] = @ \/ ~Found(idx[r])]
  /\ idx' = [idx EXCEPT ![r] = NoEntry]
  /\ UNCHANGED <<lsmVars, userVars, bgError, fileVars, snap, late, oldest,
                 jobVars, gcVars>>

ReleaseSnapshot(r) ==
  /\ snap[r] # NoSnap
  /\ idx[r] = NoEntry
  /\ snap' = [snap EXCEPT ![r] = NoSnap]
  /\ late' = [late EXCEPT ![r] = FALSE]
  /\ failed' = [failed EXCEPT ![r] = FALSE]
  /\ UNCHANGED <<lsmVars, userVars, bgError, fileVars, idx, oldest, jobVars,
                 gcVars>>

-----------------------------------------------------------------------------
(* Flush and compaction.  A table job reads a range of entries, drops what *)
(* no snapshot can see, and writes the rest through TitanTableBuilder,     *)
(* which moves values to a blob file.  The blob file is in the manifest    *)
(* before the table is in the LSM tree.                                    *)

JobInput(j, upto) == IF j = "flush" THEN (flushed + 1) .. upto ELSE 1 .. upto

\* The rules of the base DB's compaction iterator: an entry goes when a newer
\* input entry of its key hides it from every snapshot, and a compaction to
\* the bottom level also removes a tombstone that hides all older entries of
\* its key from every snapshot.
Dropped(j, I, i) ==
  \/ \E k \in I : /\ k > i
                  /\ lsm[k].key = lsm[i].key
                  /\ \A r \in Reader : snap[r] \notin i .. (k - 1)
  \/ /\ j = "compaction"
     /\ lsm[i].type = "kTypeDeletion"
     /\ \A k \in I : k < i /\ lsm[k].key = lsm[i].key =>
          \A r \in Reader : snap[r] \notin k .. (i - 1)

\* TitanTableBuilder::Add.  sep is the set of entries whose values go to the
\* blob file f; in mode kFallback a blob index becomes the value again, unless
\* its file is gone.
TableEntry(i, mode, sep, f) ==
  LET e == lsm[i] IN
  IF i \in sep THEN BlobEntry(e.key, e.val, f)
  ELSE IF mode = "kFallback" /\ e.type = "kTypeBlobIndex" /\ Found(e)
       THEN ValueEntry(e.key, e.val)
       ELSE e

Table(j, I, mode, sep, f) ==
  [i \in Seqs |-> IF i \in I /\ ~Dropped(j, I, i)
                  THEN TableEntry(i, mode, sep, f) ELSE NoEntry]

\* The values a table job may separate: in mode kNormal those that are at
\* least min_blob_size.  Sizes are not modelled: any subset of them may be.
Separable(j, I, mode) ==
  {i \in I : /\ mode = "kNormal"
             /\ lsm[i].type = "kTypeValue"
             /\ ~Dropped(j, I, i)}

\* The job reads its inputs and builds the table.  TitanTableBuilder::Finish
\* ends with BatchFinishFiles: the blob file is synced and logged in the
\* manifest, in state kPendingLSM.  A flush takes the whole memtable.
BuildTable(j, mode, sep) ==
  LET upto == IF j = "flush" THEN seq ELSE flushed
      I == JobInput(j, upto)
      f == IF sep = {} THEN NoFile ELSE nextFile
  IN
  /\ jpc[j] = "idle"
  /\ I # {}
  /\ sep \subseteq Separable(j, I, mode)
  /\ IF sep = {}
     THEN UNCHANGED fileVars
     ELSE /\ nextFile \in File
          /\ nextFile' = nextFile + 1
          /\ state' = [state EXCEPT ![f] = "kPendingLSM"]
          /\ recs' = [recs EXCEPT ![f] = {RecordOf(lsm[i]) : i \in sep}]
          /\ UNCHANGED obsSeq
  /\ jpc' = [jpc EXCEPT ![j] = "built"]
  /\ jupto' = [jupto EXCEPT ![j] = upto]
  /\ jfile' = [jfile EXCEPT ![j] = f]
  /\ jout' = [jout EXCEPT ![j] = Table(j, I, mode, sep, f)]
  /\ UNCHANGED <<lsmVars, userVars, bgError, readerVars, oldest, callbacks,
                 gcVars>>

EndTable(j) ==
  /\ jpc' = [jpc EXCEPT ![j] = "idle"]
  /\ jupto' = [jupto EXCEPT ![j] = 0]
  /\ jfile' = [jfile EXCEPT ![j] = NoFile]
  /\ jout' = [jout EXCEPT ![j] = [i \in Seqs |-> NoEntry]]

\* The builder fails before its file is in the manifest: nothing is kept,
\* and an error of LogAndApply stops user writes.
BuildFails(j) ==
  /\ Faults
  /\ jpc[j] = "idle"
  /\ bgError' = TRUE
  /\ UNCHANGED <<lsmVars, userVars, fileVars, readerVars, oldest, jobVars,
                 gcVars>>

\* The install of the table fails; its blob file stays in the manifest.
InstallFails(j) ==
  /\ Faults
  /\ jpc[j] = "built"
  /\ EndTable(j)
  /\ UNCHANGED <<lsmVars, userVars, bgError, fileVars, readerVars, oldest,
                 callbacks, gcVars>>

\* The base DB replaces the inputs by the table and persists it.
InstallTable(j) ==
  LET I == JobInput(j, jupto[j]) IN
  /\ jpc[j] = "built"
  /\ lsm' = [i \in Seqs |-> IF i \in I THEN jout[j][i] ELSE lsm[i]]
  /\ flushed' = IF j = "flush" THEN jupto[j] ELSE flushed
  /\ synced' = IF synced < flushed' THEN flushed' ELSE synced
  /\ callbacks' = callbacks \cup ({jfile[j]} \ {NoFile})
  /\ EndTable(j)
  /\ UNCHANGED <<seq, userVars, bgError, fileVars, readerVars, oldest, gcVars>>

\* OnFlushCompleted and OnCompactionCompleted, for the job's own blob file.
OnTableCompleted(f) ==
  /\ f \in callbacks
  /\ callbacks' = callbacks \ {f}
  /\ state' = [state EXCEPT ![f] = IF @ = "kPendingLSM" THEN "kNormal" ELSE @]
  /\ UNCHANGED <<lsmVars, userVars, bgError, nextFile, recs, obsSeq,
                 readerVars, oldest, jpc, jupto, jfile, jout, gcVars>>

-----------------------------------------------------------------------------
(* Garbage collection.                                                     *)

\* Mutant of CheckBlobFile: a file is taken before its table is installed.
CheckBlobFileEarly(f) == state[f] \in {"kNormal", "kPendingLSM"}

\* PickBlobGC takes files in state kNormal only, and marks them kBeingGC.
\* Scores and sizes are not modelled: any such files may be picked.
CheckBlobFile(f) == state[f] = "kNormal"

PickBlobGC(w, I, mode) ==
  /\ gpc[w] = "idle"
  /\ I # {}
  /\ \A f \in I : CheckBlobFile(f)
  /\ state' = [f \in File |-> IF f \in I THEN "kBeingGC" ELSE state[f]]
  /\ gpc' = [gpc EXCEPT ![w] = "run"]
  /\ gmode' = [gmode EXCEPT ![w] = mode]
  /\ inputs' = [inputs EXCEPT ![w] = I]
  /\ todo' = [todo EXCEPT ![w] =
       {r \in InputRecord : r.file \in I /\ RecordOf(r) \in recs[r.file]}]
  /\ UNCHANGED <<lsmVars, userVars, bgError, nextFile, recs, obsSeq,
                 readerVars, oldest, jobVars, batches, out>>

\* One turn of the loop of DoRunGC, on the record r under the iterator.
\* DiscardEntry asks the LSM tree whether r is current; once a record of a
\* key is, the other records of that key are skipped.
DiscardEntry(r) == ~Current(r)

FirstKey(r, R) == \A q \in R : r.key <= q.key

DoRunGC(w, r) ==
  /\ gpc[w] = "run"
  /\ r \in todo[w]
  /\ FirstKey(r, todo[w])
  /\ \/ /\ DiscardEntry(r)
        /\ todo' = [todo EXCEPT ![w] = @ \ {r}]
        /\ UNCHANGED <<batches, out, fileVars>>
     \/ /\ ~DiscardEntry(r)
        /\ gmode[w] = "kFallback"
        /\ todo' = [todo EXCEPT ![w] = {q \in @ : q.key # r.key}]
        /\ batches' = [batches EXCEPT ![w] = @ \cup
             {[key |-> r.key, val |-> r.val, file |-> r.file, to |-> NoFile]}]
        /\ UNCHANGED <<out, fileVars>>
     \/ /\ ~DiscardEntry(r)
        /\ gmode[w] # "kFallback"
        /\ todo' = [todo EXCEPT ![w] = {q \in @ : q.key # r.key}]
        /\ LET f == IF out[w] = NoFile THEN nextFile ELSE out[w] IN
           /\ f \in File
           /\ nextFile' = IF out[w] = NoFile THEN nextFile + 1 ELSE nextFile
           /\ state' = [state EXCEPT ![f] = "kInit"]
           /\ recs' = [recs EXCEPT ![f] = @ \cup {RecordOf(r)}]
           /\ out' = [out EXCEPT ![w] = f]
           /\ batches' = [batches EXCEPT ![w] = @ \cup
                {[key |-> r.key, val |-> r.val, file |-> r.file, to |-> f]}]
           /\ UNCHANGED obsSeq
  /\ UNCHANGED <<lsmVars, userVars, bgError, readerVars, oldest, jobVars, gpc,
                 gmode, inputs>>

\* InstallOutputBlobFiles: the output is synced and logged in the manifest
\* before any key is rewritten.
InstallOutputBlobFiles(w) ==
  /\ gpc[w] = "run"
  /\ todo[w] = {}
  /\ gpc' = [gpc EXCEPT ![w] = "rewrite"]
  /\ IF out[w] = NoFile
     THEN UNCHANGED state
     ELSE state' = [state EXCEPT ![out[w]] = "kPendingGC"]
  /\ UNCHANGED <<lsmVars, userVars, bgError, nextFile, recs, obsSeq,
                 readerVars, oldest, jobVars, gmode, inputs, todo, batches,
                 out>>

\* Mutant of RewriteValidKeyToLSM: a plain Write, without the callback.
RewriteBlindly(w, b) ==
  /\ gpc[w] = "rewrite"
  /\ b \in batches[w]
  /\ FirstKey(b, batches[w])
  /\ batches' = [batches EXCEPT ![w] = @ \ {b}]
  /\ AppendEntry(IF b.to = NoFile THEN ValueEntry(b.key, b.val)
                 ELSE BlobEntry(b.key, b.val, b.to))
  /\ UNCHANGED <<flushed, synced, userVars, bgError, fileVars, readerVars,
                 oldest, jobVars, gpc, gmode, inputs, todo, out>>

\* One write batch of RewriteValidKeyToLSM.  The callback runs inside the
\* write: it finds the key's blob index unchanged, or the write is Busy and
\* the record is dropped.
RewriteValidKeyToLSM(w, b) ==
  /\ gpc[w] = "rewrite"
  /\ b \in batches[w]
  /\ FirstKey(b, batches[w])
  /\ batches' = [batches EXCEPT ![w] = @ \ {b}]
  /\ \/ /\ Current(b)
        /\ AppendEntry(IF b.to = NoFile THEN ValueEntry(b.key, b.val)
                       ELSE BlobEntry(b.key, b.val, b.to))
     \/ /\ ~Current(b)
        /\ UNCHANGED <<seq, lsm>>
  /\ UNCHANGED <<flushed, synced, userVars, bgError, fileVars, readerVars,
                 oldest, jobVars, gpc, gmode, inputs, todo, out>>

\* Mutant of FlushWAL: the WAL is written but not synced.
FlushWALNoSync(w) ==
  /\ gpc[w] = "rewrite"
  /\ batches[w] = {}
  /\ gpc' = [gpc EXCEPT ![w] = "delete"]
  /\ UNCHANGED <<lsmVars, userVars, bgError, fileVars, readerVars, oldest,
                 jobVars, gmode, inputs, todo, batches, out>>

\* The end of RewriteValidKeyToLSM: FlushWAL(sync).
FlushWAL(w) ==
  /\ gpc[w] = "rewrite"
  /\ batches[w] = {}
  /\ gpc' = [gpc EXCEPT ![w] = "delete"]
  /\ synced' = seq
  /\ UNCHANGED <<seq, lsm, flushed, userVars, bgError, fileVars, readerVars,
                 oldest, jobVars, gmode, inputs, todo, batches, out>>

\* The job record goes away, whatever the outcome.
EndJob(w) ==
  /\ gpc' = [gpc EXCEPT ![w] = "idle"]
  /\ gmode' = [gmode EXCEPT ![w] = "kNormal"]
  /\ inputs' = [inputs EXCEPT ![w] = {}]
  /\ todo' = [todo EXCEPT ![w] = {}]
  /\ batches' = [batches EXCEPT ![w] = {}]
  /\ out' = [out EXCEPT ![w] = NoFile]

\* Mutant of Released: only the inputs are.
ReleasedInputs(w, f) == f \in inputs[w]

\* BlobGC::ReleaseGcFiles: an obsolete file stays obsolete, the others go to
\* kNormal.  An output is released once it has been installed.
Released(w, f) == f \in inputs[w] \/ (f = out[w] /\ state[f] = "kPendingGC")

\* Mutant of DeleteInputBlobFiles: the obsolete sequence is one too small.
DeleteInputBefore(w) ==
  /\ gpc[w] = "delete"
  /\ state' = [f \in File |-> IF f \in inputs[w] THEN "kObsolete"
                              ELSE IF Released(w, f) THEN "kNormal"
                              ELSE state[f]]
  /\ obsSeq' = [f \in File |-> IF f \in inputs[w] THEN seq - 1 ELSE obsSeq[f]]
  /\ EndJob(w)
  /\ UNCHANGED <<lsmVars, userVars, bgError, nextFile, recs, readerVars,
                 oldest, jobVars>>

\* DeleteInputBlobFiles and ReleaseGcFiles, under one hold of the mutex.
DeleteInputBlobFiles(w) ==
  /\ gpc[w] = "delete"
  /\ state' = [f \in File |-> IF f \in inputs[w] THEN "kObsolete"
                              ELSE IF Released(w, f) THEN "kNormal"
                              ELSE state[f]]
  /\ obsSeq' = [f \in File |-> IF f \in inputs[w] THEN seq ELSE obsSeq[f]]
  /\ EndJob(w)
  /\ UNCHANGED <<lsmVars, userVars, bgError, nextFile, recs, readerVars,
                 oldest, jobVars>>

\* Any step of a GC job may fail; the job ends by releasing its files and
\* setting the background error.
GCFails(w) ==
  /\ Faults
  /\ gpc[w] # "idle"
  /\ state' = [f \in File |-> IF Released(w, f) THEN "kNormal" ELSE state[f]]
  /\ bgError' = TRUE
  /\ EndJob(w)
  /\ UNCHANGED <<lsmVars, userVars, nextFile, recs, obsSeq, readerVars, oldest,
                 jobVars>>

-----------------------------------------------------------------------------
(* Purge of obsolete files: the oldest snapshot is read first, the mutex   *)
(* is taken afterwards.                                                    *)

\* Mutant of GetOldestSnapshotSequence: without a snapshot, the latest sequence.
OldestOrLatest ==
  LET S == {snap[r] : r \in Reader} \ {NoSnap}
  IN  IF S = {} THEN seq ELSE CHOOSE s \in S : \A t \in S : s <= t

GetOldestSnapshotSequence ==
  LET S == {snap[r] : r \in Reader} \ {NoSnap}
  IN  IF S = {} THEN kMaxSequenceNumber
      ELSE CHOOSE s \in S : \A t \in S : s <= t

PurgeObsoleteFiles ==
  /\ oldest = NoPurge
  /\ oldest' = GetOldestSnapshotSequence
  /\ UNCHANGED <<lsmVars, userVars, bgError, fileVars, readerVars, jobVars,
                 gcVars>>

\* Mutant of GetObsoleteFiles: every obsolete file goes.
GetAllObsoleteFiles ==
  /\ oldest # NoPurge
  /\ state' = [f \in File |->
       IF state[f] = "kObsolete" THEN "kPurged" ELSE state[f]]
  /\ oldest' = NoPurge
  /\ UNCHANGED <<lsmVars, userVars, bgError, nextFile, recs, obsSeq,
                 readerVars, jobVars, gcVars>>

GetObsoleteFiles ==
  /\ oldest # NoPurge
  /\ state' = [f \in File |->
       IF state[f] = "kObsolete" /\ oldest > obsSeq[f] THEN "kPurged"
       ELSE state[f]]
  /\ oldest' = NoPurge
  /\ UNCHANGED <<lsmVars, userVars, bgError, nextFile, recs, obsSeq,
                 readerVars, jobVars, gcVars>>

-----------------------------------------------------------------------------
(* The process dies and the database is opened again.  The base DB keeps a *)
(* prefix of its log and writes it to tables, with the base table builder: *)
(* values stay inline until TitanDB is initialized.  BlobFileSet::Recover  *)
(* deletes every file the manifest does not hold alive.                    *)

Crash(n) ==
  /\ crashes < MaxCrash
  /\ crashes' = crashes + 1
  /\ n \in synced .. seq
  /\ seq' = n /\ flushed' = n /\ synced' = n
  /\ lsm' = [i \in Seqs |-> IF i <= n THEN lsm[i] ELSE NoEntry]
  /\ bgError' = FALSE
  /\ state' = [f \in File |-> IF Alive(f) THEN "kNormal"
                              ELSE IF state[f] = "kNone" THEN "kNone"
                              ELSE "kPurged"]
  /\ obsSeq' = [f \in File |-> 0]
  /\ snap' = [r \in Reader |-> NoSnap]
  /\ late' = [r \in Reader |-> FALSE]
  /\ idx' = [r \in Reader |-> NoEntry]
  /\ failed' = [r \in Reader |-> FALSE]
  /\ oldest' = NoPurge
  /\ jpc' = [j \in Job |-> "idle"]
  /\ jupto' = [j \in Job |-> 0]
  /\ jfile' = [j \in Job |-> NoFile]
  /\ jout' = [j \in Job |-> [i \in Seqs |-> NoEntry]]
  /\ callbacks' = {}
  /\ gpc' = [w \in Worker |-> "idle"]
  /\ gmode' = [w \in Worker |-> "kNormal"]
  /\ inputs' = [w \in Worker |-> {}]
  /\ todo' = [w \in Worker |-> {}]
  /\ batches' = [w \in Worker |-> {}]
  /\ out' = [w \in Worker |-> NoFile]
  /\ UNCHANGED <<puts, nextFile, recs>>

-----------------------------------------------------------------------------
UserNext == \E k \in Key : Put(k) \/ Delete(k)

ReaderNext ==
  \E r \in Reader : \/ GetSnapshot(r)
                    \/ \E i \in 1 .. seq : GetImpl(r, i)
                    \/ BlobStorageGet(r)
                    \/ ReleaseSnapshot(r)

TableNext ==
  \/ \E j \in Job :
       \/ \E mode \in RunMode, sep \in SUBSET (1 .. seq) :
            BuildTable(j, mode, sep)
       \/ BuildFails(j)
       \/ InstallFails(j)
       \/ InstallTable(j)
  \/ \E f \in File : OnTableCompleted(f)

GCNext ==
  \E w \in Worker :
    \/ \E I \in SUBSET File, mode \in RunMode : PickBlobGC(w, I, mode)
    \/ \E r \in todo[w] : DoRunGC(w, r)
    \/ InstallOutputBlobFiles(w)
    \/ \E b \in batches[w] : RewriteValidKeyToLSM(w, b)
    \/ FlushWAL(w)
    \/ DeleteInputBlobFiles(w)
    \/ GCFails(w)

PurgeNext == PurgeObsoleteFiles \/ GetObsoleteFiles

Next ==
  \/ UserNext
  \/ ReaderNext
  \/ TableNext
  \/ GCNext
  \/ PurgeNext
  \/ \E n \in 0 .. seq : Crash(n)

Spec == Init /\ [][Next]_vars

\* PurgeObsoleteFiles runs periodically on a thread of its own, and its two
\* steps wait for nothing but the mutex.
FairSpec ==
  /\ Spec
  /\ WF_vars(PurgeObsoleteFiles)
  /\ WF_vars(GetObsoleteFiles)

-----------------------------------------------------------------------------
(* Properties.                                                             *)

JobPC == {"idle", "built"}
GCPC  == {"idle", "run", "rewrite", "delete"}

\* The variables stay within their types.
TypeOK ==
  /\ seq \in 0 .. MaxSeq
  /\ lsm \in [Seqs -> Entry]
  /\ flushed \in 0 .. MaxSeq
  /\ synced \in 0 .. MaxSeq
  /\ puts \in 0 .. MaxPut
  /\ crashes \in 0 .. MaxCrash
  /\ bgError \in BOOLEAN
  /\ nextFile \in 1 .. (MaxFile + 1)
  /\ state \in [File -> FileState]
  /\ recs \in [File -> SUBSET BlobRecord]
  /\ obsSeq \in [File -> 0 .. MaxSeq]
  /\ snap \in [Reader -> -1 .. MaxSeq]
  /\ late \in [Reader -> BOOLEAN]
  /\ idx \in [Reader -> Entry]
  /\ failed \in [Reader -> BOOLEAN]
  /\ oldest \in -1 .. (MaxSeq + 1)
  /\ jpc \in [Job -> JobPC]
  /\ jupto \in [Job -> 0 .. MaxSeq]
  /\ jfile \in [Job -> 0 .. MaxFile]
  /\ jout \in [Job -> [Seqs -> Entry]]
  /\ callbacks \in SUBSET File
  /\ gpc \in [Worker -> GCPC]
  /\ gmode \in [Worker -> {"kNormal", "kReadOnly", "kFallback"}]
  /\ inputs \in [Worker -> SUBSET File]
  /\ todo \in [Worker -> SUBSET InputRecord]
  /\ batches \in [Worker -> SUBSET Batch]
  /\ out \in [Worker -> 0 .. MaxFile]

\* Entry e, if it is a blob index, points to a record of a file in files_.
Readable(e) ==
  e.type = "kTypeBlobIndex" => Found(e)

\* Crash consistency of the two manifests (the comment on BlobGCJob::Finish):
\* at every point the base DB may recover to, each blob index a read would
\* find points to a record of a file that the blob manifest holds alive.
CrashConsistent ==
  \A n \in synced .. seq : \A i \in 1 .. n :
    Visible(i, n) /\ lsm[i].type = "kTypeBlobIndex" =>
      Alive(lsm[i].file) /\ Readable(lsm[i])

\* A snapshot keeps every blob it can see, from GetSnapshot to
\* ReleaseSnapshot, and also the one a Get holds between its two steps:
\* GC and purge never turn a Get into "Missing blob file".  The snapshots
\* taken inside the window of a running purge are excepted.
SnapshotReadable ==
  \A r \in Reader : snap[r] # NoSnap /\ ~late[r] =>
    /\ \A i \in 1 .. snap[r] : Visible(i, snap[r]) => Readable(lsm[i])
    /\ Readable(idx[r])
    /\ ~failed[r]

\* The meaning of obsolete_sequence, on which GetObsoleteFiles relies: no
\* snapshot at or after it can see the obsolete file.
ObsoleteInvisible ==
  \A f \in File, r \in Reader :
    state[f] = "kObsolete" /\ snap[r] >= obsSeq[f] =>
      \A i \in 1 .. snap[r] : Visible(i, snap[r]) => lsm[i].file # f

\* What GetObsoleteFiles is documented to ensure (blob_storage.cc:169): a
\* file is only removed when no existing snapshot can see it.
PurgedInvisible ==
  \A f \in File, r \in Reader : state[f] = "kPurged" =>
    \A i \in 1 .. snap[r] : Visible(i, snap[r]) => lsm[i].file # f

\* The states kBeingGC and kPendingGC are leases: each such file belongs to
\* exactly one running GC job, as input or as output, so that the assertions
\* of FileStateTransit hold and no file is left behind in them.
GCLease ==
  /\ \A f \in File : state[f] = "kBeingGC" =>
       \E w \in Worker : f \in inputs[w]
  /\ \A f \in File : state[f] = "kPendingGC" =>
       \E w \in Worker : f = out[w] /\ gpc[w] # "run"
  /\ \A w \in Worker : \A f \in inputs[w] : state[f] = "kBeingGC"
  /\ \A v, w \in Worker : v # w =>
       /\ inputs[v] \cap inputs[w] = {}
       /\ out[v] = out[w] => out[v] = NoFile

\* An obsolete file is removed from files_ in the end: it does not stay there
\* while no snapshot at or before its obsolete_sequence is held.
PurgeProgress ==
  \A f \in File : []<>(\/ state[f] # "kObsolete"
                       \/ \E r \in Reader : snap[r] \in 0 .. obsSeq[f])

=============================================================================

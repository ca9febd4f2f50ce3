----------------------------- MODULE WriteBack -----------------------------
(***************************************************************************)
(* The write-back of offloaded garbage collection.  A SmartSSD job rewrites*)
(* the records its bitmap calls valid and puts their new indexes into the  *)
(* LSM tree without checking the key (BlobGCJob::RewriteValidKeyToLSM): the*)
(* index carries the old position of the record, and the check is left to  *)
(* the readers of the memtable (SaveValue) and to flush and compaction     *)
(* (CompactionIterator::Preprocess).                                       *)
(*                                                                         *)
(* The module follows the versions of one user key through the memtable,   *)
(* the immutable memtables and the sorted runs of the tree.  Newer parts of*)
(* the tree have higher sequence numbers, so the versions are a set and two*)
(* kinds of boundaries in it.  Preprocess and SaveValue never relate       *)
(* entries of different user keys.  The n-th Put writes the value n; all   *)
(* values are large (min_blob_size = 0).                                   *)
(***************************************************************************)
EXTENDS Naturals, FiniteSets

CONSTANTS
  MaxPut,      \* bound on the calls of Put
  MaxFile,     \* bound on the blob file numbers
  MaxSeq,      \* bound on the sequence numbers
  MaxImm,      \* max_write_buffer_number - 1
  MaxInputs,   \* bound on the input files of a GC job
  MaxRestart,  \* bound on the restarts
  MaxSnap,     \* bound on the sequence number of a snapshot
  Path         \* where GC jobs run: "hardware", "software" (no free CU)

ASSUME WriteBackAssumption ==
  /\ MaxPut \in Nat /\ MaxFile \in Nat
  /\ Path \subseteq {"hardware", "software"}

VARIABLES
  seq,       \* latest sequence number of the base DB
  log,       \* the versions of the key: one entry per write or per sorted run
  switches,  \* the last sequence number of each immutable memtable
  flushed,   \* the last sequence number of the sorted runs
  content,   \* content[f]: the values of the records of blob file f
  state,     \* FileState of the blob files, with kNone and kPurged
  bitmap,    \* invalid_entry_indexes_ of the blob files
  obsSeq,    \* obsolete_sequence of the obsolete files
  events,    \* compactions installed, OnCompactionCompleted yet to run
  job,       \* the GC job
  snap,      \* the snapshot held, with the value it was taken at
  puts,      \* number of Puts, which is the newest value
  raced,     \* a record was written back to a key that held another version
  stacked,   \* a record was written back on top of another write-back
  fellBack,  \* a GC job ran in software
  restarts

history == <<raced, stacked, fellBack, restarts>>
tree == <<log, switches, flushed>>
vars == <<seq, tree, content, state, bitmap, obsSeq, events, job,
          snap, puts, history>>

File == 1 .. MaxFile

\* A record is found by file number and position; old_file_number 0 in a
\* BlobIndex means that the index is not a write-back.
None == <<0, 0>>

ValueEntry(n, v) == [type |-> "kTypeValue", seq |-> n, value |-> v,
                     at |-> None, old |-> None]
BlobEntry(n, at, old) == [type |-> "kTypeBlobIndex", seq |-> n, value |-> 0,
                          at |-> at, old |-> old]
NotFound == ValueEntry(0, 0)

SaverCheckIsGCWriteBack(e) == e.type = "kTypeBlobIndex" /\ e.old # None

\* The GC job has the records to keep and the index of the next to rewrite.
NoJob == [pc |-> "idle", path |-> "", inputs |-> {}, out |-> 0,
          keep |-> <<>>, next |-> 1, dropped |-> {}]
NoSnap == [seq |-> 0, value |-> 0]

\* The next file number, and 0 where no file is written.
Fresh(f) == /\ f \in File /\ state[f] = "kNone"
            /\ \A g \in File : g < f => state[g] # "kNone"

Init ==
  /\ seq = 0 /\ puts = 0 /\ restarts = 0
  /\ log = {} /\ switches = {} /\ flushed = 0
  /\ content = [f \in File |-> <<>>]
  /\ state = [f \in File |-> "kNone"]
  /\ bitmap = [f \in File |-> {}]
  /\ obsSeq = [f \in File |-> 0]
  /\ events = {}
  /\ job = NoJob
  /\ snap = NoSnap
  /\ raced = FALSE /\ stacked = FALSE /\ fellBack = FALSE

-----------------------------------------------------------------------------
(* Reading.                                                                *)

Memtable == {e \in log : e.seq > flushed /\ \A b \in switches : e.seq > b}
Runs == {e \in log : e.seq <= flushed}

Newest(entries) == CHOOSE e \in entries : \A d \in entries : d.seq <= e.seq
Oldest(entries) == CHOOSE e \in entries : \A d \in entries : d.seq >= e.seq

VisibleAt(entries, n) == {e \in entries : e.seq <= n}

\* The first visible entry, as MemTableListVersion and Version look it up.
FirstOf(entries, n) ==
  LET visible == VisibleAt(entries, n) IN
    IF visible = {} THEN NotFound ELSE Newest(visible)

\* MemTable::Get with pending_check: below a write-back one more entry is
\* read, and a value there is what the key holds.
SaveValue(entries, n) ==
  LET first == FirstOf(entries, n)
      next  == FirstOf(entries \ {first}, n) IN
    IF SaverCheckIsGCWriteBack(first) /\ next # NotFound
       /\ next.type = "kTypeValue"
    THEN next ELSE first

\* DBImpl::GetImpl: what the memtable holds ends the search, a pending check
\* or not.
GetImpl(n) ==
  IF VisibleAt(Memtable, n) # {} THEN SaveValue(Memtable, n)
                                 ELSE FirstOf(log \ Memtable, n)

\* BlobStorage::Get: file missing, or the value of the record.
Missing == MaxPut + 1
ValueOf(e) ==
  IF e.type = "kTypeValue" THEN e.value
  ELSE IF state[e.at[1]] = "kPurged" THEN Missing
  ELSE content[e.at[1]][e.at[2]]

-----------------------------------------------------------------------------
(* The base DB: writes, memtable switch, flush, compaction.                *)

Put ==
  /\ puts < MaxPut /\ seq < MaxSeq
  /\ puts' = puts + 1
  /\ seq' = seq + 1
  /\ log' = log \cup {ValueEntry(seq + 1, puts + 1)}
  /\ UNCHANGED <<switches, flushed, content, state, bitmap, obsSeq, events, job, snap,
                 history>>

SwitchMemtable ==
  /\ Memtable # {} /\ Cardinality(switches) < MaxImm
  /\ switches' = switches \cup {seq}
  /\ UNCHANGED <<seq, log, flushed, content, state, bitmap, obsSeq, events, job, snap,
                 puts, history>>

\* Mutant of CheckBlobIndex: a matching write-back keeps the old position.
CheckBlobIndexKeepsOld(pre, cur) == BlobEntry(pre.seq, cur.at, None)

\* CompactionIterator::CheckBlobIndex: a write-back over the index it was
\* made from becomes a plain index, over any other index it gives way.
CheckBlobIndex(pre, cur) ==
  BlobEntry(pre.seq, IF pre.old = cur.at THEN pre.at ELSE cur.at, None)

\* Mutant of Merge: a write-back is not exchanged for the value below it.
MergeNoExchange(pre, cur) ==
  IF cur.type = "kTypeBlobIndex" /\ SaverCheckIsGCWriteBack(pre)
  THEN CheckBlobIndex(pre, cur) ELSE pre

\* One step of CompactionIterator::Preprocess: the entry kept for the key and
\* the next older one.
Merge(pre, cur) ==
  CASE pre.type = "kTypeValue" -> pre
    [] pre.type = "kTypeBlobIndex" /\ cur.type = "kTypeValue" -> cur
    [] OTHER -> IF SaverCheckIsGCWriteBack(pre) THEN CheckBlobIndex(pre, cur)
                                                ELSE pre

\* CompactionIterator::Preprocess, from the newest entry to the oldest.
Preprocess(entries) ==
  LET kept[es \in SUBSET entries] ==
        IF \E e, d \in es : e # d
        THEN Merge(kept[es \ {Oldest(es)}], Oldest(es)) ELSE Newest(es)
  IN kept[entries]

\* TitanTableBuilder::Add writes a value to a new blob file and everything
\* else as it is.
TableEntry(e, f) ==
  IF e.type = "kTypeValue" THEN BlobEntry(e.seq, <<f, 1>>, None) ELSE e

NewBlobFile(e, f) ==
  IF e.type = "kTypeValue"
  THEN /\ Fresh(f)
       /\ state' = [state EXCEPT ![f] = "kPendingLSM"]
       /\ content' = [content EXCEPT ![f] = <<e.value>>]
  ELSE f = 0 /\ UNCHANGED <<state, content>>

Indexes(entries) == {e.at : e \in {d \in entries : d.type = "kTypeBlobIndex"}}

\* Mutant of Event: the bits of the positions in the output are not reset.
EventKeepsBits(inputs, e, f) ==
  IF f = 0 /\ inputs = {} THEN {}
  ELSE {[file |-> f, dropped |-> Indexes(inputs)]}

\* What the completion event of a table reports: the positions its inputs
\* held and its output does not, and the blob file written with it.
Event(inputs, e, f) ==
  LET dropped == Indexes(inputs) \ {TableEntry(e, f).at} IN
    IF f = 0 /\ dropped = {} THEN {} ELSE {[file |-> f, dropped |-> dropped]}

\* A flush takes the oldest immutable memtables, up to the sequence number b.
\* Its event says nothing of the positions that only memtables held.
Flush(b, f) ==
  LET inputs == {d \in log : flushed < d.seq /\ d.seq <= b}
      e      == Preprocess(inputs) IN
  /\ b \in switches /\ inputs # {}
  /\ NewBlobFile(e, f)
  /\ log' = (log \ inputs) \cup {TableEntry(e, f)}
  /\ flushed' = b
  /\ switches' = {c \in switches : c > b}
  /\ events' = events \cup Event({}, e, f)
  /\ UNCHANGED <<seq, bitmap, obsSeq, job, snap, puts, history>>

\* A compaction merges neighbouring runs, or separates the value that a
\* recovery left inline.
Compact(first, last, f) ==
  LET inputs == {d \in Runs : first.seq <= d.seq /\ d.seq <= last.seq}
      e      == Preprocess(inputs) IN
  /\ first \in Runs /\ last \in Runs /\ first.seq <= last.seq
  /\ first # last \/ e.type = "kTypeValue"
  /\ NewBlobFile(e, f)
  /\ log' = (log \ inputs) \cup {TableEntry(e, f)}
  /\ events' = events \cup Event(inputs, e, f)
  /\ UNCHANGED <<seq, switches, flushed, bitmap, obsSeq, job, snap, puts, history>>

\* OnFlushCompleted or OnCompactionCompleted: the bitmaps of the files that
\* are not obsolete, and the state of the file written with the table.
OnTableCompleted(event) ==
  /\ event \in events
  /\ events' = events \ {event}
  /\ bitmap' = [f \in File |->
                  IF state[f] \in {"kObsolete", "kPurged"} THEN bitmap[f]
                  ELSE bitmap[f] \cup
                         {r[2] : r \in {d \in event.dropped : d[1] = f}}]
  /\ state' = [f \in File |-> IF f = event.file THEN "kNormal" ELSE state[f]]
  /\ UNCHANGED <<seq, tree, content, obsSeq, job, snap, puts, history>>

-----------------------------------------------------------------------------
(* Garbage collection.                                                     *)

\* The records that the copied bitmaps call valid.
ValidRecords(inputs) ==
  UNION {{f} \X (DOMAIN content[f] \ bitmap[f]) : f \in inputs}

\* The orders in which a job may come upon records of one key: in file order,
\* on the device also file by file; the merge iterator takes files with the
\* same key in any order.
ReadOrders(path, records) ==
  {s \in [1 .. Cardinality(records) -> records] :
     /\ \A r \in records : \E i \in DOMAIN s : s[i] = r
     /\ \A i, j \in DOMAIN s : i < j /\ s[i][1] = s[j][1] => s[i][2] < s[j][2]
     /\ path = "hardware" =>
          \A i, j, k \in DOMAIN s :
            i < j /\ j < k /\ s[i][1] = s[k][1] => s[j][1] = s[i][1]}

\* PickBlobGC and Run.  On either path the records to keep are those of the
\* bitmap copied under the mutex; they go to one new file.  The software path
\* writes no file when there is nothing to keep.
DoRunGC(path, inputs, out) ==
  /\ job = NoJob
  /\ \A f \in inputs : state[f] = "kNormal"
  /\ IF path = "hardware" \/ ValidRecords(inputs) # {} THEN Fresh(out) ELSE out = 0
  /\ \E keep \in ReadOrders(path, ValidRecords(inputs)) :
       /\ job' = [pc |-> "install", path |-> path, inputs |-> inputs, out |-> out,
                  keep |-> keep, next |-> 1, dropped |-> {}]
       /\ content' = [f \in File |->
                        IF f # out THEN content[f]
                        ELSE [k \in DOMAIN keep |-> content[keep[k][1]][keep[k][2]]]]
  /\ state' = [f \in File |-> IF f \in inputs THEN "kBeingGC"
                              ELSE IF f = out THEN "kInit" ELSE state[f]]
  /\ fellBack' = (fellBack \/ path = "software")
  /\ UNCHANGED <<seq, tree, bitmap, obsSeq, events, snap, puts, raced, stacked,
                 restarts>>

\* InstallOutputBlobFiles, InstallHardwareOutputBlobFiles.
InstallOutputBlobFiles ==
  /\ job.pc = "install"
  /\ job' = [job EXCEPT !.pc = "rewrite"]
  /\ state' = [f \in File |-> IF f = job.out THEN "kPendingGC" ELSE state[f]]
  /\ UNCHANGED <<seq, tree, content, bitmap, obsSeq, events, snap, puts, history>>

\* A write-back of the record at r goes on top of a write-back of another
\* record, or of one that may itself hide a newer version.
Stacks(r) ==
  /\ SaverCheckIsGCWriteBack(Newest(log))
  /\ raced \/ Newest(log).at # r

\* One batch of RewriteValidKeyToLSM.  The hardware path writes without the
\* callback; in the software path a key that no longer holds the record is
\* left alone (Busy) and the new record is dropped.
WriteHardware(old, new) ==
  /\ job.path = "hardware"
  /\ seq' = seq + 1
  /\ log' = log \cup {BlobEntry(seq + 1, new, old)}
  /\ raced' = (raced \/ GetImpl(seq).at # old)
  /\ stacked' = (stacked \/ Stacks(old))
  /\ job' = [job EXCEPT !.next = @ + 1]

WriteWithCallback(old, new) ==
  /\ job.path = "software"
  /\ \/ /\ GetImpl(seq).at = old
        /\ seq' = seq + 1
        /\ log' = log \cup {BlobEntry(seq + 1, new, None)}
        /\ job' = [job EXCEPT !.next = @ + 1]
        /\ stacked' = (stacked \/ Stacks(old))
     \/ /\ GetImpl(seq).at # old
        /\ job' = [job EXCEPT !.next = @ + 1, !.dropped = @ \cup {new[2]}]
        /\ UNCHANGED <<seq, log, stacked>>
  /\ UNCHANGED raced

RewriteValidKeyToLSM ==
  LET old == job.keep[job.next]
      new == <<job.out, job.next>> IN
  /\ job.pc = "rewrite" /\ job.next \in DOMAIN job.keep /\ seq < MaxSeq
  /\ WriteHardware(old, new) \/ WriteWithCallback(old, new)
  /\ UNCHANGED <<switches, flushed, content, state, bitmap, obsSeq, events, snap,
                 puts, fellBack, restarts>>

\* Mutant of DeleteInputBlobFiles: the inputs go before all keys are rewritten.
DeleteInputEarly ==
  /\ job.pc = "rewrite"
  /\ job' = NoJob
  /\ state' = [f \in File |-> IF f \in job.inputs THEN "kObsolete"
                              ELSE IF f = job.out THEN "kNormal" ELSE state[f]]
  /\ obsSeq' = [f \in File |-> IF f \in job.inputs THEN seq ELSE obsSeq[f]]
  /\ UNCHANGED <<seq, tree, content, bitmap, events, snap, puts, history>>

\* The end of RewriteValidKeyToLSM, DeleteInputBlobFiles, ReleaseGcFiles.
DeleteInputBlobFiles ==
  /\ job.pc = "rewrite" /\ job.next \notin DOMAIN job.keep
  /\ job' = NoJob
  /\ bitmap' = [f \in File |-> IF f = job.out THEN bitmap[f] \cup job.dropped
                               ELSE bitmap[f]]
  /\ state' = [f \in File |-> IF f \in job.inputs THEN "kObsolete"
                              ELSE IF f = job.out THEN "kNormal" ELSE state[f]]
  /\ obsSeq' = [f \in File |-> IF f \in job.inputs THEN seq ELSE obsSeq[f]]
  /\ UNCHANGED <<seq, tree, content, events, snap, puts, history>>

PurgeObsoleteFiles(f) ==
  /\ state[f] = "kObsolete"
  /\ snap = NoSnap \/ snap.seq > obsSeq[f]
  /\ state' = [state EXCEPT ![f] = "kPurged"]
  /\ UNCHANGED <<seq, tree, content, bitmap, obsSeq, events, job, snap,
                 puts, history>>

-----------------------------------------------------------------------------
GetSnapshot ==
  /\ snap = NoSnap /\ puts > 0 /\ seq <= MaxSnap
  /\ snap' = [seq |-> seq, value |-> puts]
  /\ UNCHANGED <<seq, tree, content, state, bitmap, obsSeq, events, job,
                 puts, history>>

ReleaseSnapshot ==
  /\ snap # NoSnap
  /\ snap' = NoSnap
  /\ UNCHANGED <<seq, tree, content, state, bitmap, obsSeq, events, job,
                 puts, history>>

\* A restart: the log is replayed into one memtable, which is flushed while
\* TitanDB is not initialized, so that a value stays inline.  The bitmaps
\* are not persistent; the files that the manifest does not hold are deleted.
Restart ==
  LET entries == log \ Runs IN
  /\ restarts < MaxRestart
  /\ restarts' = restarts + 1
  /\ log' = IF entries = {} THEN log ELSE Runs \cup {Preprocess(entries)}
  /\ switches' = {} /\ flushed' = seq
  /\ state' = [f \in File |->
                 IF state[f] = "kNone" THEN "kNone"
                 ELSE IF state[f] \in {"kInit", "kObsolete", "kPurged"} THEN "kPurged"
                 ELSE "kNormal"]
  /\ bitmap' = [f \in File |-> {}]
  /\ obsSeq' = [f \in File |-> 0]
  /\ events' = {} /\ job' = NoJob /\ snap' = NoSnap
  /\ UNCHANGED <<seq, content, puts, raced, stacked, fellBack>>

-----------------------------------------------------------------------------
Inputs == {fs \in SUBSET File : fs # {} /\ Cardinality(fs) <= MaxInputs}
Written == File \cup {0}

Next ==
  \/ Put
  \/ SwitchMemtable
  \/ \E b \in switches, f \in Written : Flush(b, f)
  \/ \E first, last \in Runs, f \in Written : Compact(first, last, f)
  \/ \E event \in events : OnTableCompleted(event)
  \/ \E path \in Path, inputs \in Inputs, f \in Written : DoRunGC(path, inputs, f)
  \/ InstallOutputBlobFiles
  \/ RewriteValidKeyToLSM
  \/ DeleteInputBlobFiles
  \/ \E f \in File : PurgeObsoleteFiles(f)
  \/ GetSnapshot
  \/ ReleaseSnapshot
  \/ Restart

Spec == Init /\ [][Next]_vars

-----------------------------------------------------------------------------
(* Properties.                                                             *)

FileState == {"kNone", "kInit", "kPendingLSM", "kNormal", "kBeingGC",
              "kPendingGC", "kObsolete", "kPurged"}

Records == UNION {{f} \X DOMAIN content[f] : f \in File}

\* Every entry names a record that was written, and no two entries have the
\* same sequence number.
TypeOK ==
  /\ seq \in 0 .. MaxSeq /\ puts \in 0 .. MaxPut /\ restarts \in 0 .. MaxRestart
  /\ state \in [File -> FileState]
  /\ \A f \in File : bitmap[f] \subseteq DOMAIN content[f]
  /\ flushed \in 0 .. seq /\ switches \subseteq flushed + 1 .. seq
  /\ \A e \in log :
       /\ e.seq \in 1 .. seq /\ e.old \in Records \cup {None}
       /\ e.type = "kTypeBlobIndex" => e.at \in Records
       /\ e.type = "kTypeValue" => e.at = None /\ e.old = None /\ e.value \in 1 .. puts
       /\ \A d \in log : d.seq = e.seq => d = e

\* A Get returns the value of the last Put.
ReadsLatest == puts > 0 => ValueOf(GetImpl(seq)) = puts

\* Offloaded GC is invisible as long as each record it writes back is the
\* one the key holds at that moment: through chains of write-backs, on either
\* path, through flushes and compactions, a Get returns the last Put.  (A
\* restart leaves values inline in a table, where Preprocess misjudges them.)
RelocationInvisible == ~raced /\ restarts = 0 => ReadsLatest

\* A software job believes the entry it finds for a key.  It can be misled,
\* and drop the record of the newest value, by what a hardware job wrote back
\* too late and by what compaction makes of a value left inline.
Misled == fellBack /\ (raced \/ restarts > 0)

\* Everything has been flushed and compacted into one run, as CompactAll in
\* blob_gc_job_test.cc does.
Settled == Runs = log /\ \A d, e \in log : d = e

\* After a full compaction a Get returns the last Put, whatever GC wrote back.
SettledLatest == Settled => ReadsLatest

\* What Preprocess does repair: a record written back over a newer version,
\* in the memtable, in an immutable one or in a table, gives way to it in the
\* end, unless one write-back was put on top of another.
Reconciled == ~stacked /\ ~Misled /\ restarts = 0 => SettledLatest

\* A Get never finds a "Missing blob file".
Resolves == ValueOf(GetImpl(seq)) # Missing

\* The index at the top of the tree never points into a file that GC has
\* deleted, although the records to keep are chosen from a bitmap that knows
\* nothing of the memtables, and a restart forgets the bitmap.
IndexResolves == ~Misled => Resolves

\* A bit of the bitmap of a file is only set when no entry of the tree, the
\* memtables included, holds the record: GC never drops a record that a Get or
\* a compaction can still come upon.
BitmapSound ==
  \A f \in File : \A i \in bitmap[f] : <<f, i>> \notin Indexes(log)

\* A snapshot reads the value that was current when it was taken.
SnapshotStable == snap # NoSnap => ValueOf(GetImpl(snap.seq)) = snap.value
=============================================================================

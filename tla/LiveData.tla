------------------------------ MODULE LiveData ------------------------------
(***************************************************************************)
(* live_data_size_ and the FileState of the blob files of one column       *)
(* family.  Flushes and compactions install tables first and report later, *)
(* in any order; the reports carry differences, and so do GC jobs and      *)
(* DeleteFilesInRanges.  With level_merge a file whose live data comes to  *)
(* zero is deleted, so the account decides over data.                      *)
(*                                                                         *)
(* A table is the number of records it holds per blob file.  A record has  *)
(* size 1, and the key ranges of all blob files overlap.                   *)
(***************************************************************************)
EXTENDS Integers, FiniteSets

CONSTANTS
  MaxFile,     \* bound on the blob files
  MaxTable,    \* bound on the tables, per way of use
  MaxSize,     \* bound on the records of a blob file
  MaxFail,     \* bound on the failed flushes and compactions
  MaxRestart,  \* bound on the restarts
  MaxSortedRuns, \* max_sorted_runs
  Options      \* the ways in which the column family may be used

File == 1 .. MaxFile

\* level_merge with range_merge, GC jobs, and calls of DeleteFilesInRanges.
Uses == {"level_merge", "gc", "ranges"}

ASSUME LiveDataAssumption ==
  /\ MaxFile \in Nat /\ MaxSize \in Nat
  /\ Options \subseteq SUBSET Uses

VARIABLES
  tables,    \* set of [id, l0, size : file -> number of records]
  busy,      \* ids of the tables in a running compaction (being_compacted)
  mem,       \* file -> write-backs of a GC job in the memtable
  state,     \* file -> FileState; kInit for a number not used yet
  live,      \* file -> live_data_size_
  entries,   \* file -> records written to it
  obsolete,  \* obsolete_files_
  last,      \* files whose file_level is one of the last two
  events,    \* completion events on their way
  job,       \* the GC job: input, output and step
  range,     \* the DeleteFilesInRanges call: step and what it collected
  options,   \* how this column family is used
  lastId, failed, restarts

tableVars == <<tables, busy, mem, lastId>>
fileVars == <<state, live, entries, last, obsolete>>
vars == <<tableVars, fileVars, events, job, range, options, failed, restarts>>

LevelMerge == "level_merge" \in options
GC         == "gc" \in options
Ranges     == "ranges" \in options

None == 0
Zero == [f \in File |-> 0]
NoJob == [pc |-> "idle", in |-> None, out |-> None]
NoCall == [pc |-> "idle", ids |-> {}, diff |-> Zero]

Init ==
  /\ tables = {} /\ busy = {} /\ mem = Zero /\ lastId = 0
  /\ state = [f \in File |-> "kInit"]
  /\ live = Zero /\ entries = Zero /\ last = {} /\ obsolete = {}
  /\ events = {}
  /\ job = NoJob /\ range = NoCall
  /\ options \in Options
  /\ failed = 0 /\ restarts = 0

-----------------------------------------------------------------------------
(* What the tables hold.                                                   *)

\* The sum of the positive amounts in a set of pairs <<id, amount>> with
\* different ids.
Total(pairs) == Cardinality(UNION {{p[1]} \X (1 .. p[2]) : p \in pairs})

Held(ts, f) == Total({<<t.id, t.size[f]>> : t \in ts})
Sizes(ts) == [f \in File |-> Held(ts, f)]
AtMost(bound) == {s \in [File -> 0 .. MaxSize] : \A f \in File : s[f] <= bound[f]}
IsObsolete(f) == state[f] = "kObsolete"

\* The next number, for a file that will hold n records; none when n = 0.
Fresh(f, n) ==
  \/ n = 0 /\ f = None
  \/ n > 0 /\ f \in File /\ state[f] = "kInit"
     /\ \A g \in File : g < f => state[g] # "kInit"

\* AddBlobFile with the state of a file that a table builder has finished.
AddBlobFile(f, n, isLast) ==
  /\ state' = [g \in File |-> IF g = f THEN "kPendingLSM" ELSE state[g]]
  /\ entries' = [g \in File |-> IF g = f THEN n ELSE entries[g]]
  /\ last' = IF f # None /\ isLast THEN last \cup {f} ELSE last
  /\ UNCHANGED <<live, obsolete>>

With(size, f, n) == [g \in File |-> IF g = f THEN n ELSE size[g]]

-----------------------------------------------------------------------------
(* Flushes and compactions of the base DB, with TitanTableBuilder.         *)

NewTable(l0, size) ==
  /\ lastId < MaxTable[options]
  /\ lastId' = lastId + 1
  /\ tables' = tables \cup {[id |-> lastId + 1, l0 |-> l0, size |-> size]}

\* A flush writes the values to a new file; of the write-backs in the
\* memtable it keeps those that no later write hides.
Flush(n, f, kept) ==
  LET size == With(kept, f, n) IN
  /\ Fresh(f, n) /\ size # Zero
  /\ AddBlobFile(f, n, FALSE)
  /\ mem' = Zero
  /\ NewTable(TRUE, size)
  /\ events' = events \cup
       {[id |-> lastId + 1, flush |-> TRUE, last |-> FALSE, diff |-> size,
         files |-> {g \in File : size[g] > 0}]}
  /\ UNCHANGED <<busy, job, range, options, failed, restarts>>

PickCompaction(ids) ==
  /\ busy = {} /\ ids # {}
  /\ ids \subseteq {t.id : t \in tables}
  /\ busy' = ids
  /\ UNCHANGED <<tables, mem, lastId, fileVars, events, job, range, options,
                 failed, restarts>>

\* The compaction keeps some indexes of its inputs and writes n values, merged
\* from files or separated only now, to a new file.  Whether it writes to the
\* last level matters to level merge only.
InstallCompaction(n, f, kept, toLast) ==
  LET ins  == {t \in tables : t.id \in busy}
      size == With(kept, f, n) IN
  /\ busy # {} /\ Fresh(f, n) /\ (toLast => LevelMerge)
  /\ AddBlobFile(f, n, toLast)
  /\ lastId < MaxTable[options] /\ lastId' = lastId + 1
  /\ tables' = (tables \ ins) \cup
       {[id |-> lastId + 1, l0 |-> FALSE, size |-> size]}
  /\ busy' = {}
  /\ events' = events \cup
       {[id |-> lastId + 1, flush |-> FALSE, last |-> toLast,
         diff |-> [g \in File |-> size[g] - Held(ins, g)],
         files |-> {g \in File : size[g] + Held(ins, g) > 0}]}
  /\ UNCHANGED <<mem, job, range, options, failed, restarts>>

\* A compaction fails after its blob file is finished; OnCompactionCompleted
\* returns at once.
CompactionFails(n, f) ==
  /\ busy # {} /\ n > 0 /\ Fresh(f, n)
  /\ failed < MaxFail /\ failed' = failed + 1
  /\ AddBlobFile(f, n, FALSE)
  /\ busy' = {}
  /\ UNCHANGED <<tables, mem, lastId, events, job, range, options, restarts>>

-----------------------------------------------------------------------------
(* The completion events.                                                  *)

\* Mutant of OnFlushCompleted: the debt of an earlier event is forgotten.
OnFlushCompletedNoDebt(e) ==
  LET new == {f \in e.files : state[f] = "kPendingLSM"} IN
  /\ e \in events /\ e.flush
  /\ events' = events \ {e}
  /\ live' = [f \in File |-> IF f \in new THEN e.diff[f] ELSE live[f]]
  /\ state' = [f \in File |-> IF f \in new THEN "kNormal" ELSE state[f]]
  /\ UNCHANGED <<tableVars, entries, last, obsolete, job, range, options,
                 failed, restarts>>

\* Mutant of OnFlushCompleted: outputs of GC jobs are not left alone.
OnFlushCompletedAny(e) ==
  /\ e \in events /\ e.flush
  /\ events' = events \ {e}
  /\ live' = [f \in File |-> IF f \in e.files THEN e.diff[f] - live[f]
                            ELSE live[f]]
  /\ state' = [f \in File |-> IF state[f] = "kPendingLSM" /\ f \in e.files
                             THEN "kNormal" ELSE state[f]]
  /\ UNCHANGED <<tableVars, entries, last, obsolete, job, range, options,
                 failed, restarts>>

\* OnFlushCompleted looks only at files that wait for it.
OnFlushCompleted(e) ==
  LET new == {f \in e.files : state[f] = "kPendingLSM"} IN
  /\ e \in events /\ e.flush
  /\ events' = events \ {e}
  /\ live' = [f \in File |-> IF f \in new THEN e.diff[f] - live[f] ELSE live[f]]
  /\ state' = [f \in File |-> IF f \in new THEN "kNormal" ELSE state[f]]
  /\ UNCHANGED <<tableVars, entries, last, obsolete, job, range, options,
                 failed, restarts>>

\* UpdateLiveDataSize.
UpdateLiveDataSize(size, delta) == IF size + delta < 0 THEN 0 ELSE size + delta

\* GetDiscardableRatio against a blob_file_discardable_ratio of a half.
Discardable(f, size) == 2 * size < entries[f]

\* MarkFileIfNeedMerge, for files that all overlap.
MarkFileIfNeedMerge(files) ==
  IF Cardinality(files) > MaxSortedRuns THEN files ELSE {}

\* Files of e whose size becomes known, files that owe e, and files with a
\* size.  Files that a GC job holds are left alone.
Settling(e) == {f \in e.files : state[f] = "kPendingLSM" /\ e.diff[f] > 0}
Owing(e)    == {f \in e.files : state[f] = "kPendingLSM" /\ e.diff[f] <= 0}
Sized(e)    == {f \in e.files : state[f] \in {"kNormal", "kToMerge"}}

\* While a file is kPendingLSM its live_data_size_ is a debt.
NewSize(e, f) ==
  IF f \in Settling(e) THEN e.diff[f] - live[f]
  ELSE IF f \in Owing(e) THEN live[f] - e.diff[f]
  ELSE IF f \in Sized(e) THEN UpdateLiveDataSize(live[f], e.diff[f])
  ELSE live[f]

\* Mutant of NoLiveData: also for a file whose size is not known yet.
NoLiveDataPending(e) ==
  {f \in e.files : LevelMerge /\ ~ IsObsolete(f) /\ NewSize(e, f) = 0}

\* The files that the edit of the handler deletes.
NoLiveData(e) ==
  {f \in Settling(e) \cup Sized(e) : LevelMerge /\ NewSize(e, f) = 0}

\* The edit is applied before files are marked.
OnCompactionCompleted(e) ==
  LET size  == [f \in File |-> NewSize(e, f)]
      dead  == NoLiveData(e)
      due   == {f \in Sized(e) \ dead :
                  LevelMerge /\ f \in last /\ Discardable(f, size[f])}
      runs  == Settling(e) \cup (IF e.last THEN Sized(e) \ (dead \cup due) ELSE {})
      merge == IF LevelMerge THEN due \cup MarkFileIfNeedMerge(runs) ELSE {} IN
  /\ e \in events /\ ~ e.flush
  /\ events' = events \ {e}
  /\ live' = size
  /\ state' = [f \in File |-> IF f \in merge THEN "kToMerge"
                              ELSE IF f \in dead THEN "kObsolete"
                              ELSE IF f \in Settling(e) THEN "kNormal"
                              ELSE state[f]]
  /\ obsolete' = obsolete \cup dead
  /\ UNCHANGED <<tableVars, entries, last, job, range, options, failed,
                 restarts>>

-----------------------------------------------------------------------------
(* DeleteFilesInRanges.                                                    *)

\* The properties of the tables in the range, without those of level 0 and
\* those in a compaction.
CollectProperties(ids) ==
  /\ Ranges /\ range.pc = "idle" /\ ids # {}
  /\ ids \subseteq {t.id : t \in {u \in tables : ~ u.l0 /\ u.id \notin busy}}
  /\ range' = [pc |-> "collected", ids |-> ids,
               diff |-> [f \in File |-> - Held({t \in tables : t.id \in ids}, f)]]
  /\ UNCHANGED <<tableVars, fileVars, events, job, options, failed, restarts>>

\* The base DB deletes the tables that are in the range by now.
DeleteTables(ids) ==
  /\ range.pc = "collected"
  /\ ids \subseteq {t.id : t \in {u \in tables : ~ u.l0 /\ u.id \notin busy}}
  /\ \A t \in tables : t.id \in range.ids \ busy => t.id \in ids
  /\ tables' = {t \in tables : t.id \notin ids}
  /\ range' = [range EXCEPT !.pc = "deleted"]
  /\ UNCHANGED <<busy, mem, lastId, fileVars, events, job, options, failed,
                 restarts>>

\* ... and the sizes follow, in whatever state the file is.
SubtractProperties ==
  LET known == {f \in File : range.diff[f] # 0 /\ ~ IsObsolete(f)}
      size  == [f \in File |-> IF f \in known
                  THEN UpdateLiveDataSize(live[f], range.diff[f]) ELSE live[f]]
      dead  == {f \in known : LevelMerge /\ size[f] = 0}
      due   == {f \in known \ dead : LevelMerge /\ Discardable(f, size[f])} IN
  /\ range.pc = "deleted"
  /\ range' = NoCall
  /\ live' = size
  /\ state' = [f \in File |-> IF f \in dead THEN "kObsolete"
                              ELSE IF f \in due THEN "kToMerge" ELSE state[f]]
  /\ obsolete' = obsolete \cup dead
  /\ UNCHANGED <<tableVars, entries, last, events, job, options, failed,
                 restarts>>

-----------------------------------------------------------------------------
(* A GC job.                                                               *)

MarkFilesBeingGC(f) ==
  /\ GC /\ job.pc = "idle" /\ state[f] = "kNormal"
  /\ job' = [pc |-> "run", in |-> f, out |-> None]
  /\ state' = [state EXCEPT ![f] = "kBeingGC"]
  /\ UNCHANGED <<tableVars, live, entries, last, obsolete, events, range,
                 options, failed, restarts>>

\* InstallOutputBlobFiles: the n records that were valid.
InstallOutputBlobFiles(n, g) ==
  /\ job.pc = "run" /\ n > 0 /\ Fresh(g, n)
  /\ n <= mem[job.in] + Held(tables, job.in)
  /\ job' = [job EXCEPT !.pc = "installed", !.out = g]
  /\ state' = [state EXCEPT ![g] = "kPendingGC"]
  /\ live' = [live EXCEPT ![g] = n]
  /\ entries' = [entries EXCEPT ![g] = n]
  /\ UNCHANGED <<tableVars, last, obsolete, events, range, options, failed,
                 restarts>>

\* Mutant of RewriteValidKeyToLSM: the dropped records count twice.
RewriteDropsTwice(k) ==
  /\ job.pc = "installed" /\ k \in 0 .. live[job.out]
  /\ mem' = [mem EXCEPT ![job.out] = live[job.out] - k]
  /\ live' = [live EXCEPT ![job.out] = UpdateLiveDataSize(@, - 2 * k)]
  /\ job' = [job EXCEPT !.pc = "rewritten"]
  /\ UNCHANGED <<tables, busy, lastId, state, entries, last, obsolete, events,
                 range, options, failed, restarts>>

\* RewriteValidKeyToLSM: k of the keys were overwritten in the meanwhile.
RewriteValidKeyToLSM(k) ==
  /\ job.pc = "installed" /\ k \in 0 .. live[job.out]
  /\ mem' = [mem EXCEPT ![job.out] = live[job.out] - k]
  /\ live' = [live EXCEPT ![job.out] = UpdateLiveDataSize(@, - k)]
  /\ job' = [job EXCEPT !.pc = "rewritten"]
  /\ UNCHANGED <<tables, busy, lastId, state, entries, last, obsolete, events,
                 range, options, failed, restarts>>

\* DeleteInputBlobFiles when all went well, and ReleaseGcFiles.
ReleaseGcFiles(ok) ==
  /\ job.pc # "idle" /\ (ok => job.pc = "rewritten")
  /\ state' = [f \in File |->
                 IF ok /\ f = job.in THEN "kObsolete"
                 ELSE IF f \in {job.in, job.out} /\ ~ IsObsolete(f) THEN "kNormal"
                 ELSE state[f]]
  /\ job' = NoJob
  /\ obsolete' = IF ok THEN obsolete \cup {job.in} ELSE obsolete
  /\ UNCHANGED <<tableVars, live, entries, last, events, range, options,
                 failed, restarts>>

-----------------------------------------------------------------------------
\* InitializeGC: the log is replayed and flushed, and the sizes are taken from
\* the tables.  Until then no compaction runs and no event is handled.
InitializeGC(kept) ==
  LET all == tables \cup {[id |-> lastId + 1, l0 |-> TRUE, size |-> kept]} IN
  /\ restarts < MaxRestart /\ restarts' = restarts + 1
  /\ lastId < MaxTable[options] /\ lastId' = lastId + 1
  /\ tables' = all /\ busy' = {} /\ mem' = Zero
  /\ state' = [f \in File |-> IF state[f] = "kInit" THEN "kInit"
                              ELSE IF IsObsolete(f) THEN "kObsolete" ELSE "kNormal"]
  /\ live' = [f \in File |-> IF IsObsolete(f) THEN live[f] ELSE Held(all, f)]
  /\ events' = {} /\ job' = NoJob /\ range' = NoCall
  /\ UNCHANGED <<entries, last, obsolete, options, failed>>

Records == 0 .. MaxSize
Ids == 1 .. MaxTable[options]

Next ==
  \/ \E n \in Records, f \in File \cup {None}, kept \in AtMost(mem) :
       Flush(n, f, kept)
  \/ \E ids \in SUBSET Ids : PickCompaction(ids)
  \/ \E kept \in AtMost(Sizes({t \in tables : t.id \in busy})) :
     \E n \in Records, f \in File \cup {None}, toLast \in BOOLEAN :
       InstallCompaction(n, f, kept, toLast)
  \/ \E n \in Records, f \in File : CompactionFails(n, f)
  \/ \E e \in events : OnFlushCompleted(e)
  \/ \E e \in events : OnCompactionCompleted(e)
  \/ \E ids \in SUBSET Ids : CollectProperties(ids)
  \/ \E ids \in SUBSET Ids : DeleteTables(ids)
  \/ SubtractProperties
  \/ \E f \in File : MarkFilesBeingGC(f)
  \/ \E n \in Records, g \in File : InstallOutputBlobFiles(n, g)
  \/ \E k \in Records : RewriteValidKeyToLSM(k)
  \/ \E ok \in BOOLEAN : ReleaseGcFiles(ok)
  \/ \E kept \in AtMost(mem) : InitializeGC(kept)

Spec == Init /\ [][Next]_vars

-----------------------------------------------------------------------------
(* Properties.                                                             *)

FileState == {"kInit", "kNormal", "kPendingLSM", "kBeingGC", "kPendingGC",
              "kObsolete", "kToMerge"}

\* live_data_size_ is unsigned: it never wraps below zero.
TypeOK ==
  /\ \A t \in tables : t.id \in 1 .. lastId /\ t.size \in [File -> Nat]
  /\ busy \subseteq {t.id : t \in tables}
  /\ mem \in [File -> Nat] /\ live \in [File -> Nat]
  /\ state \in [File -> FileState] /\ entries \in [File -> Records]
  /\ \A e \in events : e.id <= lastId /\ e.diff \in [File -> Int]
  /\ options \subseteq Uses
  /\ job.pc \in {"idle", "run", "installed", "rewritten"}
  /\ range.pc \in {"idle", "collected", "deleted"}

Referenced(f) == mem[f] + Held(tables, f)

\* What the events on their way will add to the size of f.
Counting(f) == {e \in events : state[f] = "kPendingLSM" \/ ~ e.flush}
Net(es, f) == Total({<<e.id, e.diff[f]>> : e \in es})
              - Total({<<e.id, - e.diff[f]>> : e \in es})
Announced(f) == Net(Counting(f), f)

\* Whatever the order in which the events of flushes and compactions arrive,
\* size and announced differences add up to what the tables hold; the debt of
\* a file that waits for its first event is on the other side.  A failed
\* compaction, a restart and level merge do not disturb the account.
Accounted ==
  ~ GC /\ ~ Ranges =>
    \A f \in File :
      /\ state[f] \in {"kNormal", "kToMerge"} =>
           live[f] + Announced(f) = Referenced(f)
      /\ state[f] = "kPendingLSM" => Announced(f) - live[f] = Referenced(f)

\* With GC jobs in between, events are dropped for the files they hold, and
\* the account may be too high; it is never too low.
NeverTooLow ==
  ~ Ranges =>
    \A f \in File :
      state[f] \in {"kNormal", "kToMerge", "kBeingGC", "kPendingGC"} =>
        live[f] + Announced(f) >= Referenced(f)

\* Level merge deletes a file only when no table refers to it.
DeletedDead == LevelMerge => \A f \in obsolete : Referenced(f) = 0

\* So it does where neither GC jobs nor DeleteFilesInRanges disturb the
\* account, in whatever order the events arrive.
MergeDeletesDead == ~ GC /\ ~ Ranges => DeletedDead

\* With all events handled, level merge has deleted the files without live
\* data.
MergedGone ==
  LevelMerge /\ events = {} /\ failed = 0 /\ restarts = 0 =>
    \A f \in File : state[f] \in {"kNormal", "kToMerge"} => Referenced(f) > 0

\* A file that is marked obsolete and waits to be removed stays in that state.
ObsoleteFinal == \A f \in obsolete : IsObsolete(f)
=============================================================================

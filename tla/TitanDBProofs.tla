--------------------------- MODULE TitanDBProofs ---------------------------
(***************************************************************************)
(* The invariants of TitanDB hold for every number of keys, readers, GC    *)
(* workers, files and crashes, and the store implements SnapshotKV.        *)
(***************************************************************************)
EXTENDS TitanDBRefinement, TitanDBLogProofs

USE DEF NoFile, NoSnap, NoKey, NoPurge, kMaxSequenceNumber

-----------------------------------------------------------------------------
(* Garbage collection.                                                     *)

\* A worker that takes no step, while the log stays as it is.
LEMMA WorkerFrame ==
  ASSUME IndInv, NEW v \in Worker, UNCHANGED <<seq, lsm>>,
         synced' \in Nat, synced <= synced',
         gpc'[v] = gpc[v], inputs'[v] = inputs[v], todo'[v] = todo[v],
         batches'[v] = batches[v], out'[v] = out[v],
         out[v] # NoFile => /\ state'[out[v]] = state[out[v]]
                            /\ recs[out[v]] \subseteq recs'[out[v]]
  PROVE  WorkerInv(v)' /\ BatchInv(v)' /\ Tracked(v)' /\ InputsUnused(v)'
<1>1. WorkerInv(v)'
  BY DEF IndInv, GCInv, WorkerInv
<1>2. BatchInv(v)'
  BY Zenon DEF IndInv, GCInv, BatchInv
<1>3. Tracked(v)'
  BY DEF IndInv, GCInv, Tracked, Current, Visible
<1>4. InputsUnused(v)'
  <2>1. ASSUME NEW n \in synced' .. seq PROVE n \in synced .. seq
    BY DEF IndInv, TypeOK
  <2> QED BY Zenon, <2>1 DEF IndInv, GCInv, InputsUnused, Visible
<1> QED BY Zenon, <1>1, <1>2, <1>3, <1>4

\* A record whose blob index is current is in its file.
LEMMA CurrentRecord ==
  ASSUME IndInv, NEW r \in InputRecord, Current(r)
  PROVE  RecordOf(r) \in recs[r.file] /\ Alive(r.file)
<1>1. PICK i \in 1 .. seq : Visible(i, seq) /\ lsm[i] = BlobEntry(r.key, r.val, r.file)
  BY Zenon DEF Current
<1>2. seq \in synced .. seq
  BY DEF IndInv, TypeOK, LogInv
<1>3. lsm[i].type = "kTypeBlobIndex" /\ lsm[i].file = r.file /\ RecordOf(lsm[i]) = RecordOf(r)
  BY <1>1 DEF BlobEntry, RecordOf
<1>4. Alive(lsm[i].file) /\ Readable(lsm[i])
  BY Zenon, <1>1, <1>2, <1>3 DEF IndInv, CrashConsistent
<1> QED BY Zenon, <1>3, <1>4 DEF Readable, Found

\* PickBlobGC preserves the invariant.
LEMMA PickBlobGCPreserves ==
  ASSUME IndInv, NEW w \in Worker, NEW I \in SUBSET File, NEW mode \in RunMode,
         PickBlobGC(w, I, mode)
  PROVE  IndInv'
<1> USE ConstantsAssumption
<1>t. TypeOK /\ LogInv
  BY Zenon DEF IndInv
<1>u. /\ UNCHANGED <<lsmVars, userVars, bgError, nextFile, recs, obsSeq,
                     readerVars, oldest, jobVars, batches, out>>
      /\ gpc[w] = "idle"
      /\ \A f \in I : state[f] = "kNormal"
      /\ state' = [f \in File |-> IF f \in I THEN "kBeingGC" ELSE state[f]]
      /\ gpc' = [gpc EXCEPT ![w] = "run"]
      /\ gmode' = [gmode EXCEPT ![w] = mode]
      /\ inputs' = [inputs EXCEPT ![w] = I]
      /\ todo' = [todo EXCEPT ![w] =
           {r \in InputRecord : r.file \in I /\ RecordOf(r) \in recs[r.file]}]
  BY Zenon DEF PickBlobGC, CheckBlobFile
<1>v. UNCHANGED <<seq, lsm, flushed, synced, snap, jpc, jupto, jfile, jout, callbacks>>
  BY Zenon, <1>u DEF lsmVars, readerVars, jobVars
<1>s. \A f \in File : /\ f \in I => state[f] = "kNormal" /\ state'[f] = "kBeingGC"
                      /\ f \notin I => state'[f] = state[f]
  BY Zenon, <1>u
<1>p. /\ gpc'[w] = "run" /\ inputs'[w] = I
      /\ todo'[w] = {r \in InputRecord : r.file \in I /\ RecordOf(r) \in recs[r.file]}
      /\ \A v \in Worker : v # w => gpc'[v] = gpc[v] /\ inputs'[v] = inputs[v]
                                    /\ todo'[v] = todo[v]
  BY Zenon, <1>t, <1>u DEF TypeOK
<1>i. inputs[w] = {} /\ batches[w] = {} /\ out[w] = NoFile
  BY Zenon, <1>u DEF IndInv, GCInv, WorkerInv
<1>1. TypeOK'
  <2>1. state' \in [File -> FileState] /\ gpc' \in [Worker -> GCPC]
        /\ gmode' \in [Worker -> {"kNormal", "kReadOnly", "kFallback"}]
    BY Zenon, <1>t, <1>u DEF TypeOK, FileState, GCPC
  <2>2. inputs' \in [Worker -> SUBSET File] /\ todo' \in [Worker -> SUBSET InputRecord]
    BY Zenon, <1>t, <1>u DEF TypeOK
  <2> QED BY Zenon, <1>t, <1>u, <2>1, <2>2 DEF TypeOK, lsmVars, userVars, readerVars, jobVars
<1>2. FreshInv'
  BY Zenon, <1>u, <1>s DEF IndInv, FreshInv
<1>3. LogInv' /\ ReaderInv' /\ PurgeInv' /\ ObsoleteInvisible'
      /\ CrashConsistent' /\ SnapshotReadable'
  <2>1. \A f \in File : Alive(f) => Alive(f)' /\ recs[f] \subseteq recs'[f]
    BY Zenon, <1>u, <1>s DEF Alive
  <2>2. \A f \in File : /\ state[f] = "kObsolete" <=> state'[f] = "kObsolete"
                        /\ state[f] = "kObsolete" => /\ recs[f] \subseteq recs'[f]
                                                     /\ obsSeq'[f] = obsSeq[f]
    BY Zenon, <1>u, <1>s
  <2> QED BY Zenon, <1>u, <2>1, <2>2, FileFrame
<1>4. JobsInv'
  <2>1. \A f \in File : state[f] = "kPendingLSM" =>
          state'[f] = state[f] /\ recs[f] \subseteq recs'[f]
    BY Zenon, <1>u, <1>s
  <2> QED BY Zenon, <1>u, <1>v, <2>1, JobsFrame
<1>5. GCLease'
  <2>1. \A f \in File : state'[f] = "kBeingGC" => \E v \in Worker : f \in inputs'[v]
    <3> SUFFICES ASSUME NEW f \in File, state'[f] = "kBeingGC"
                 PROVE  \E v \in Worker : f \in inputs'[v]
      BY Zenon
    <3>1. CASE f \in I
      BY Zenon, <1>p, <3>1
    <3>2. CASE f \notin I
      <4>1. PICK v \in Worker : f \in inputs[v]
        BY Zenon, <1>s, <3>2 DEF IndInv, GCLease
      <4> QED BY Zenon, <1>i, <1>p, <4>1
    <3> QED BY Zenon, <3>1, <3>2
  <2>2. \A f \in File : state'[f] = "kPendingGC" =>
          \E v \in Worker : f = out'[v] /\ gpc'[v] # "run"
    <3> SUFFICES ASSUME NEW f \in File, state'[f] = "kPendingGC"
                 PROVE  \E v \in Worker : f = out'[v] /\ gpc'[v] # "run"
      BY Zenon
    <3>1. PICK v \in Worker : f = out[v] /\ gpc[v] # "run"
      BY <1>s DEF IndInv, GCLease
    <3>2. f # 0
      BY DEF File
    <3> QED BY <1>i, <1>p, <1>u, <3>1, <3>2
  <2>3. ASSUME NEW v \in Worker, NEW f \in inputs'[v] PROVE state'[f] = "kBeingGC"
    <3>1. CASE v = w
      BY Zenon, <1>p, <1>s, <3>1
    <3>2. CASE v # w
      BY <1>t, <1>p, <1>s, <3>2 DEF IndInv, GCLease, TypeOK
    <3> QED BY Zenon, <3>1, <3>2
  <2>4. ASSUME NEW v \in Worker, v # w PROVE inputs'[v] \cap I = {}
    BY <1>u, <1>p, <2>4 DEF IndInv, GCLease
  <2>5. \A v, x \in Worker : v # x => /\ inputs'[v] \cap inputs'[x] = {}
                                      /\ out'[v] = out'[x] => out'[v] = NoFile
    BY <1>u, <1>p, <2>4 DEF IndInv, GCLease
  <2> QED BY Zenon, <2>1, <2>2, <2>3, <2>5 DEF GCLease
<1>6. GCInv'
  <2>1. ASSUME NEW v \in Worker, v # w
        PROVE  WorkerInv(v)' /\ BatchInv(v)' /\ Tracked(v)' /\ InputsUnused(v)'
    <3>1. out[v] # NoFile => /\ state'[out[v]] = state[out[v]]
                             /\ recs[out[v]] \subseteq recs'[out[v]]
      BY Zenon, <1>u, <1>s, OutputFile
    <3>2. synced' \in Nat /\ synced <= synced'
      BY <1>t, <1>v DEF TypeOK
    <3>3. /\ gpc'[v] = gpc[v] /\ inputs'[v] = inputs[v] /\ todo'[v] = todo[v]
          /\ batches'[v] = batches[v] /\ out'[v] = out[v]
      BY Zenon, <1>u, <1>p, <2>1
    <3> QED BY Zenon, <1>v, <3>1, <3>2, <3>3, WorkerFrame
  <2>2. WorkerInv(w)' /\ BatchInv(w)' /\ InputsUnused(w)'
    BY Zenon, <1>u, <1>p, <1>i DEF WorkerInv, BatchInv, InputsUnused
  <2>3. Tracked(w)'
    <3>1. \A r : Current(r)' <=> Current(r)
      BY Zenon, <1>v DEF Current, Visible
    <3> QED BY Zenon, <1>p, <3>1, CurrentRecord DEF Tracked
  <2> QED BY Zenon, <2>1, <2>2, <2>3 DEF GCInv
<1> QED BY Zenon, <1>1, <1>2, <1>3, <1>4, <1>5, <1>6 DEF IndInv

\* Two current records of a key are the same record.
LEMMA CurrentUnique ==
  ASSUME IndInv, NEW q \in InputRecord, NEW r \in InputRecord, Current(q),
         Current(r), q.key = r.key
  PROVE  q.val = r.val /\ q.file = r.file
<1>1. PICK i \in 1 .. seq : Visible(i, seq) /\ lsm[i] = BlobEntry(q.key, q.val, q.file)
  BY Zenon DEF Current
<1>2. PICK k \in 1 .. seq : Visible(k, seq) /\ lsm[k] = BlobEntry(r.key, r.val, r.file)
  BY Zenon DEF Current
<1>3. lsm[i].key = q.key /\ lsm[k].key = r.key
  BY <1>1, <1>2 DEF BlobEntry
<1>4. i = k
  BY Zenon, <1>1, <1>2, <1>3, VisibleUnique DEF IndInv, TypeOK
<1> QED BY <1>1, <1>2, <1>4 DEF BlobEntry

\* What a turn of the loop does to the worker's own variables.
LEMMA DoRunGCWorker ==
  ASSUME IndInv, NEW w \in Worker, NEW r \in todo[w], DoRunGC(w, r)
  PROVE  /\ todo' \in [Worker -> SUBSET InputRecord]
         /\ batches' \in [Worker -> SUBSET Batch]
         /\ \A v \in Worker : v # w => todo'[v] = todo[v] /\ batches'[v] = batches[v]
         /\ todo'[w] \subseteq todo[w]
         /\ batches[w] \subseteq batches'[w]
         /\ \A b \in batches'[w] : b \in batches[w] \/
              (b.file = r.file /\ RecordOf(b) = RecordOf(r) /\ b.to \in {NoFile, out'[w]}
               /\ (b.to # NoFile => RecordOf(r) \in recs'[b.to]))
         /\ Tracked(w)'
<1> USE ConstantsAssumption
<1>t. TypeOK /\ LogInv
  BY Zenon DEF IndInv
<1>r. r \in InputRecord
  BY Zenon, <1>t DEF TypeOK
<1>g. gpc[w] = "run" /\ UNCHANGED <<lsmVars, gpc, inputs>>
  BY Zenon DEF DoRunGC
<1>c. \A q : Current(q)' <=> Current(q)
  BY Zenon, <1>g DEF lsmVars, Current, Visible
<1>k. \A q \in InputRecord : q.file \in inputs[w] /\ Current(q) =>
        q \in todo[w] \/ \E b \in batches[w] :
           b.key = q.key /\ b.val = q.val /\ b.file = q.file
  BY Zenon DEF IndInv, GCInv, Tracked
<1>1. CASE DiscardEntry(r) /\ todo' = [todo EXCEPT ![w] = @ \ {r}]
           /\ UNCHANGED <<batches, out, fileVars>>
  <2>1. todo'[w] = todo[w] \ {r} /\ batches'[w] = batches[w]
    BY Zenon, <1>t, <1>1 DEF TypeOK
  <2>2. Tracked(w)'
    BY Zenon, <1>g, <1>c, <1>k, <1>1, <2>1 DEF DiscardEntry, Tracked
  <2>3. todo' \in [Worker -> SUBSET InputRecord] /\ batches' \in [Worker -> SUBSET Batch]
    BY Zenon, <1>t, <1>1 DEF TypeOK
  <2> QED BY Zenon, <1>t, <1>1, <2>1, <2>2, <2>3 DEF TypeOK
<1>2. ASSUME NEW f \in 0 .. MaxFile,
             ~DiscardEntry(r),
             f = NoFile \/ (f = out'[w] /\ RecordOf(r) \in recs'[f]),
             todo' = [todo EXCEPT ![w] = {q \in @ : q.key # r.key}],
             batches' = [batches EXCEPT ![w] = @ \cup
               {[key |-> r.key, val |-> r.val, file |-> r.file, to |-> f]}]
      PROVE  /\ todo' \in [Worker -> SUBSET InputRecord]
             /\ batches' \in [Worker -> SUBSET Batch]
             /\ \A v \in Worker : v # w => todo'[v] = todo[v] /\ batches'[v] = batches[v]
             /\ todo'[w] \subseteq todo[w]
             /\ batches[w] \subseteq batches'[w]
             /\ \A b \in batches'[w] : b \in batches[w] \/
                  (b.file = r.file /\ RecordOf(b) = RecordOf(r) /\ b.to \in {NoFile, out'[w]}
                   /\ (b.to # NoFile => RecordOf(r) \in recs'[b.to]))
             /\ Tracked(w)'
  <2> DEFINE new == [key |-> r.key, val |-> r.val, file |-> r.file, to |-> f]
  <2>1. new \in Batch
    BY Zenon, <1>r, <1>2 DEF Batch, InputRecord
  <2>2. new.key = r.key /\ new.val = r.val /\ new.file = r.file /\ new.to = f
    BY Zenon
  <2> HIDE DEF new
  <2>3. todo'[w] = {q \in todo[w] : q.key # r.key} /\ batches'[w] = batches[w] \cup {new}
    BY Zenon, <1>t, <1>2 DEF TypeOK, new
  <2>4. Tracked(w)'
    <3> SUFFICES ASSUME NEW q \in InputRecord, q.file \in inputs[w], Current(q)
                 PROVE  q \in todo'[w] \/ \E b \in batches'[w] :
                          b.key = q.key /\ b.val = q.val /\ b.file = q.file
      BY Zenon, <1>g, <1>c DEF Tracked
    <3>1. CASE q.key = r.key
      <4>1. q.val = r.val /\ q.file = r.file
        BY Zenon, <1>r, <1>2, <3>1, CurrentUnique DEF DiscardEntry
      <4> QED BY Zenon, <2>2, <2>3, <3>1, <4>1
    <3>2. CASE q.key # r.key
      BY Zenon, <1>k, <2>3, <3>2
    <3> QED BY Zenon, <3>1, <3>2
  <2>5. todo' \in [Worker -> SUBSET InputRecord]
    BY Zenon, <1>t, <1>2 DEF TypeOK
  <2>6. batches' \in [Worker -> SUBSET Batch]
    BY Zenon, <1>t, <1>2, <2>1 DEF TypeOK, new
  <2>7. \A v \in Worker : v # w => todo'[v] = todo[v] /\ batches'[v] = batches[v]
    BY Zenon, <1>t, <1>2 DEF TypeOK
  <2>8. RecordOf(new) = RecordOf(r)
    BY Zenon, <2>2 DEF RecordOf
  <2> QED BY Zenon, <1>2, <2>2, <2>3, <2>4, <2>5, <2>6, <2>7, <2>8
<1>3. CASE /\ ~DiscardEntry(r)
           /\ todo' = [todo EXCEPT ![w] = {q \in @ : q.key # r.key}]
           /\ batches' = [batches EXCEPT ![w] = @ \cup
                {[key |-> r.key, val |-> r.val, file |-> r.file, to |-> NoFile]}]
  <2>1. 0 \in 0 .. MaxFile
    OBVIOUS
  <2> QED BY Zenon, <1>2, <1>3, <2>1
<1>4. CASE /\ ~DiscardEntry(r)
           /\ gmode[w] # "kFallback"
           /\ todo' = [todo EXCEPT ![w] = {q \in @ : q.key # r.key}]
           /\ LET f == IF out[w] = NoFile THEN nextFile ELSE out[w] IN
              /\ f \in File
              /\ nextFile' = IF out[w] = NoFile THEN nextFile + 1 ELSE nextFile
              /\ state' = [state EXCEPT ![f] = "kInit"]
              /\ recs' = [recs EXCEPT ![f] = @ \cup {RecordOf(r)}]
              /\ out' = [out EXCEPT ![w] = f]
              /\ batches' = [batches EXCEPT ![w] = @ \cup
                   {[key |-> r.key, val |-> r.val, file |-> r.file, to |-> f]}]
              /\ UNCHANGED obsSeq
  <2>1. PICK f \in File : /\ recs' = [recs EXCEPT ![f] = @ \cup {RecordOf(r)}]
                          /\ out' = [out EXCEPT ![w] = f]
                          /\ batches' = [batches EXCEPT ![w] = @ \cup
                               {[key |-> r.key, val |-> r.val, file |-> r.file, to |-> f]}]
    BY Zenon, <1>4
  <2>2. f \in 0 .. MaxFile /\ f = out'[w] /\ RecordOf(r) \in recs'[f]
    BY <1>t, <2>1 DEF TypeOK, File
  <2> QED BY Zenon, <1>2, <1>4, <2>1, <2>2
<1> QED BY Zenon, <1>1, <1>3, <1>4 DEF DoRunGC

\* What a turn of the loop does to the files: nothing, or a record is added to
\* the output, which is opened first if there is none.
LEMMA DoRunGCFiles ==
  ASSUME IndInv, NEW w \in Worker, NEW r \in todo[w], DoRunGC(w, r)
  PROVE  /\ nextFile' \in 1 .. (MaxFile + 1)
         /\ state' \in [File -> FileState]
         /\ recs' \in [File -> SUBSET BlobRecord]
         /\ out' \in [Worker -> 0 .. MaxFile]
         /\ obsSeq' = obsSeq
         /\ FreshInv'
         /\ \A f \in File : recs[f] \subseteq recs'[f]
         /\ \A f \in File : state[f] \notin {"kNone", "kInit"} => state'[f] = state[f]
         /\ \A f \in File : state'[f] # state[f] => state'[f] = "kInit"
         /\ out'[w] # NoFile => state'[out'[w]] = "kInit"
         /\ \A v \in Worker : v # w =>
              /\ out'[v] = out[v]
              /\ out[v] # NoFile => out'[w] # out[v] /\ state'[out[v]] = state[out[v]]
         /\ out[w] # NoFile => out'[w] = out[w]
<1> USE ConstantsAssumption
<1>t. TypeOK /\ FreshInv /\ GCLease
  BY Zenon DEF IndInv
<1>r. RecordOf(r) \in BlobRecord /\ gpc[w] = "run"
  BY <1>t DEF TypeOK, InputRecord, BlobRecord, RecordOf, DoRunGC
<1>o. out[w] # NoFile => out[w] \in File /\ state[out[w]] = "kInit"
  <2>1. out[w] # NoFile => out[w] \in File
    BY Zenon, OutputFile
  <2> QED BY Zenon, <1>r, <2>1 DEF IndInv, GCInv, WorkerInv
<1>1. CASE UNCHANGED <<out, fileVars>>
  <2>1. UNCHANGED <<out, nextFile, state, recs, obsSeq>>
    BY Zenon, <1>1 DEF fileVars
  <2> QED BY Zenon, <1>t, <1>o, <2>1 DEF TypeOK, FreshInv, GCLease
<1>2. CASE LET f == IF out[w] = NoFile THEN nextFile ELSE out[w] IN
             /\ f \in File
             /\ nextFile' = IF out[w] = NoFile THEN nextFile + 1 ELSE nextFile
             /\ state' = [state EXCEPT ![f] = "kInit"]
             /\ recs' = [recs EXCEPT ![f] = @ \cup {RecordOf(r)}]
             /\ out' = [out EXCEPT ![w] = f]
             /\ UNCHANGED obsSeq
  <2>1. PICK f \in File : /\ f = IF out[w] = NoFile THEN nextFile ELSE out[w]
                          /\ nextFile' = IF out[w] = NoFile THEN nextFile + 1 ELSE nextFile
                          /\ state' = [state EXCEPT ![f] = "kInit"]
                          /\ recs' = [recs EXCEPT ![f] = @ \cup {RecordOf(r)}]
                          /\ out' = [out EXCEPT ![w] = f]
                          /\ UNCHANGED obsSeq
    BY Zenon, <1>2
  <2>2. out[w] = NoFile => f = nextFile /\ state[f] = "kNone"
    BY <1>t, <2>1 DEF FreshInv, TypeOK
  <2>3. state[f] \in {"kNone", "kInit"} /\ f \in 0 .. MaxFile /\ f # 0
    BY <1>o, <2>1, <2>2 DEF File
  <2>4. /\ state'[f] = "kInit" /\ \A g \in File : g # f => state'[g] = state[g]
        /\ out'[w] = f /\ \A v \in Worker : v # w => out'[v] = out[v]
        /\ \A g \in File : recs[g] \subseteq recs'[g]
    BY Zenon, <1>t, <2>1 DEF TypeOK
  <2>5. nextFile' \in 1 .. (MaxFile + 1) /\ nextFile' >= nextFile
    BY <1>t, <2>1 DEF TypeOK, File
  <2>6. FreshInv'
    <3> SUFFICES ASSUME NEW g \in File, g >= nextFile' PROVE state'[g] = "kNone"
      BY Zenon DEF FreshInv
    <3>1. g >= nextFile /\ state[g] = "kNone"
      BY <1>t, <2>5 DEF TypeOK, FreshInv, File
    <3>2. g # f
      BY <1>t, <1>o, <2>1, <2>2, <3>1 DEF TypeOK, File
    <3> QED BY Zenon, <2>4, <3>1, <3>2
  <2>7. /\ state' \in [File -> FileState]
        /\ recs' \in [File -> SUBSET BlobRecord]
        /\ out' \in [Worker -> 0 .. MaxFile]
    BY <1>t, <1>r, <2>1, <2>3 DEF TypeOK, FileState
  <2>8. ASSUME NEW v \in Worker, v # w, out[v] # NoFile
        PROVE  out[v] # f /\ state'[out[v]] = state[out[v]]
    <3>1. out[v] \in File /\ state[out[v]] # "kNone"
      BY Zenon, <2>8, OutputFile
    <3>2. out[v] # f
      <4>1. CASE out[w] = NoFile
        BY Zenon, <2>2, <3>1, <4>1
      <4>2. CASE out[w] # NoFile
        BY Zenon, <1>t, <2>1, <2>8, <4>2 DEF GCLease
      <4> QED BY Zenon, <4>1, <4>2
    <3> QED BY Zenon, <2>4, <3>1, <3>2
  <2>9. out[w] # NoFile => out'[w] = out[w]
    BY Zenon, <2>1, <2>4
  <2> QED BY <2>1, <2>3, <2>4, <2>5, <2>6, <2>7, <2>8, <2>9
<1> QED BY Zenon, <1>1, <1>2 DEF DoRunGC

\* DoRunGC preserves the invariant.
LEMMA DoRunGCPreserves ==
  ASSUME IndInv, NEW w \in Worker, NEW r \in todo[w], DoRunGC(w, r)
  PROVE  IndInv'
<1> USE ConstantsAssumption
<1>t. TypeOK /\ LogInv
  BY Zenon DEF IndInv
<1>u. UNCHANGED <<lsmVars, userVars, bgError, readerVars, oldest, jobVars, gpc,
                  gmode, inputs>>
      /\ gpc[w] = "run"
  BY Zenon DEF DoRunGC
<1>v. UNCHANGED <<seq, lsm, flushed, synced, snap, jpc, jupto, jfile, jout, callbacks>>
  BY Zenon, <1>u DEF lsmVars, readerVars, jobVars
<1>f. /\ nextFile' \in 1 .. (MaxFile + 1)
      /\ state' \in [File -> FileState]
      /\ recs' \in [File -> SUBSET BlobRecord]
      /\ out' \in [Worker -> 0 .. MaxFile]
      /\ obsSeq' = obsSeq
      /\ FreshInv'
      /\ \A f \in File : recs[f] \subseteq recs'[f]
      /\ \A f \in File : state[f] \notin {"kNone", "kInit"} => state'[f] = state[f]
      /\ \A f \in File : state'[f] # state[f] => state'[f] = "kInit"
      /\ out'[w] # NoFile => state'[out'[w]] = "kInit"
      /\ \A v \in Worker : v # w =>
           /\ out'[v] = out[v]
           /\ out[v] # NoFile => out'[w] # out[v] /\ state'[out[v]] = state[out[v]]
      /\ out[w] # NoFile => out'[w] = out[w]
  BY Zenon, DoRunGCFiles
<1>w. /\ todo' \in [Worker -> SUBSET InputRecord]
      /\ batches' \in [Worker -> SUBSET Batch]
      /\ \A v \in Worker : v # w => todo'[v] = todo[v] /\ batches'[v] = batches[v]
      /\ todo'[w] \subseteq todo[w]
      /\ \A b \in batches'[w] : b \in batches[w] \/
           (b.file = r.file /\ RecordOf(b) = RecordOf(r) /\ b.to \in {NoFile, out'[w]}
            /\ (b.to # NoFile => RecordOf(r) \in recs'[b.to]))
      /\ Tracked(w)'
  BY Zenon, DoRunGCWorker
<1>1. TypeOK'
  BY Zenon, <1>t, <1>u, <1>f, <1>w DEF TypeOK, lsmVars, userVars, readerVars, jobVars
<1>2. LogInv' /\ ReaderInv' /\ PurgeInv' /\ ObsoleteInvisible'
      /\ CrashConsistent' /\ SnapshotReadable'
  <2>1. \A f \in File : Alive(f) => Alive(f)' /\ recs[f] \subseteq recs'[f]
    BY Zenon, <1>f DEF Alive
  <2>2. \A f \in File : /\ state[f] = "kObsolete" <=> state'[f] = "kObsolete"
                        /\ state[f] = "kObsolete" => /\ recs[f] \subseteq recs'[f]
                                                     /\ obsSeq'[f] = obsSeq[f]
    BY Zenon, <1>f
  <2> QED BY Zenon, <1>u, <2>1, <2>2, FileFrame
<1>3. JobsInv'
  <2>1. \A f \in File : state[f] = "kPendingLSM" =>
          state'[f] = state[f] /\ recs[f] \subseteq recs'[f]
    BY Zenon, <1>f
  <2> QED BY Zenon, <1>v, <1>u, <2>1, JobsFrame
<1>4. GCLease'
  <2>1. \A f \in File : /\ state'[f] = "kBeingGC" <=> state[f] = "kBeingGC"
                        /\ state'[f] = "kPendingGC" <=> state[f] = "kPendingGC"
    BY Zenon, <1>f
  <2>2. ASSUME NEW f \in File, state'[f] = "kPendingGC"
        PROVE  \E v \in Worker : f = out'[v] /\ gpc'[v] # "run"
    <3>1. PICK v \in Worker : f = out[v] /\ gpc[v] # "run"
      BY Zenon, <2>1, <2>2 DEF IndInv, GCLease
    <3> QED BY Zenon, <1>u, <1>f, <3>1
  <2>3. \A v, x \in Worker : v # x => (out'[v] = out'[x] => out'[v] = NoFile)
    BY <1>f DEF IndInv, GCLease
  <2>4. \A v \in Worker : \A f \in inputs'[v] : state'[f] = "kBeingGC"
    BY Zenon, <1>t, <1>u, <2>1 DEF IndInv, GCLease, TypeOK
  <2> QED BY <1>u, <2>1, <2>2, <2>3, <2>4 DEF IndInv, GCLease
<1>5. GCInv'
  <2>1. ASSUME NEW v \in Worker, v # w
        PROVE  WorkerInv(v)' /\ BatchInv(v)' /\ Tracked(v)' /\ InputsUnused(v)'
    <3>1. out[v] # NoFile => /\ state'[out[v]] = state[out[v]]
                             /\ recs[out[v]] \subseteq recs'[out[v]]
      BY Zenon, <1>f, <2>1, OutputFile
    <3>2. synced' \in Nat /\ synced <= synced'
      BY <1>t, <1>v DEF TypeOK
    <3>3. /\ gpc'[v] = gpc[v] /\ inputs'[v] = inputs[v] /\ todo'[v] = todo[v]
          /\ batches'[v] = batches[v] /\ out'[v] = out[v]
      BY Zenon, <1>u, <1>f, <1>w, <2>1
    <3> QED BY Zenon, <1>v, <3>1, <3>2, <3>3, WorkerFrame
  <2>2. WorkerInv(w)' /\ InputsUnused(w)'
    BY Zenon, <1>u, <1>f DEF WorkerInv, InputsUnused
  <2>3. BatchInv(w)'
    <3>1. BatchInv(w)
      BY Zenon DEF IndInv, GCInv
    <3>2. \A q \in todo'[w] : q.file \in inputs'[w]
      BY Zenon, <1>u, <1>w, <3>1 DEF BatchInv
    <3>3. ASSUME NEW b \in batches[w]
          PROVE  /\ b.file \in inputs'[w]
                 /\ b.to # NoFile => b.to = out'[w] /\ RecordOf(b) \in recs'[b.to]
      <4>1. b.file \in inputs[w] /\ (b.to # NoFile => b.to = out[w] /\ RecordOf(b) \in recs[b.to])
        BY Zenon, <3>1 DEF BatchInv
      <4>2. b.to # NoFile => b.to \in File
        BY Zenon, <4>1, OutputFile
      <4> QED BY Zenon, <1>u, <1>f, <4>1, <4>2
    <3>4. r.file \in inputs'[w]
      BY Zenon, <1>u, <3>1 DEF BatchInv
    <3>5. ASSUME NEW b \in batches'[w]
          PROVE  /\ b.file \in inputs'[w]
                 /\ b.to # NoFile => b.to = out'[w] /\ RecordOf(b) \in recs'[b.to]
      BY Zenon, <1>w, <3>3, <3>4
    <3> QED BY Zenon, <3>2, <3>5 DEF BatchInv, RecordOf
  <2> QED BY Zenon, <1>w, <2>1, <2>2, <2>3 DEF GCInv
<1> QED BY Zenon, <1>f, <1>1, <1>2, <1>3, <1>4, <1>5 DEF IndInv

\* InstallOutput preserves the invariant.
LEMMA InstallOutputPreserves ==
  ASSUME IndInv, NEW w \in Worker, InstallOutputBlobFiles(w)
  PROVE  IndInv'
<1> USE ConstantsAssumption
<1>t. TypeOK /\ LogInv
  BY Zenon DEF IndInv
<1>u. /\ UNCHANGED <<lsmVars, userVars, bgError, nextFile, recs, obsSeq,
                     readerVars, oldest, jobVars, gmode, inputs, todo, batches, out>>
      /\ gpc[w] = "run"
      /\ todo[w] = {}
      /\ gpc' = [gpc EXCEPT ![w] = "rewrite"]
      /\ IF out[w] = NoFile
         THEN UNCHANGED state
         ELSE state' = [state EXCEPT ![out[w]] = "kPendingGC"]
  BY Zenon DEF InstallOutputBlobFiles
<1>v. UNCHANGED <<seq, lsm, flushed, synced, snap, jpc, jupto, jfile, jout, callbacks>>
  BY Zenon, <1>u DEF lsmVars, readerVars, jobVars
<1>o. out[w] # NoFile => out[w] \in File /\ state[out[w]] = "kInit"
  <2>1. out[w] # NoFile => out[w] \in File
    BY Zenon, OutputFile
  <2> QED BY Zenon, <1>u, <2>1 DEF IndInv, GCInv, WorkerInv
<1>z. 0 \notin File
  BY DEF File
<1>s. /\ \A f \in File : f # out[w] => state'[f] = state[f]
      /\ out[w] # NoFile => state'[out[w]] = "kPendingGC"
  BY <1>t, <1>u, <1>o, <1>z DEF TypeOK
<1>p. /\ gpc'[w] = "rewrite"
      /\ \A v \in Worker : v # w => gpc'[v] = gpc[v]
  BY Zenon, <1>t, <1>u DEF TypeOK
<1>1. TypeOK'
  <2>1. state' \in [File -> FileState] /\ gpc' \in [Worker -> GCPC]
    BY <1>t, <1>u DEF TypeOK, FileState, GCPC
  <2> QED BY Zenon, <1>t, <1>u, <2>1 DEF TypeOK, lsmVars, userVars, readerVars, jobVars
<1>2. FreshInv'
  BY Zenon, <1>u, <1>s, <1>o DEF IndInv, FreshInv
<1>3. LogInv' /\ ReaderInv' /\ PurgeInv' /\ ObsoleteInvisible'
      /\ CrashConsistent' /\ SnapshotReadable'
  <2>1. \A f \in File : Alive(f) => Alive(f)' /\ recs[f] \subseteq recs'[f]
    BY Zenon, <1>u, <1>s, <1>o, <1>z DEF Alive
  <2>2. \A f \in File : /\ state[f] = "kObsolete" <=> state'[f] = "kObsolete"
                        /\ state[f] = "kObsolete" => /\ recs[f] \subseteq recs'[f]
                                                     /\ obsSeq'[f] = obsSeq[f]
    BY Zenon, <1>u, <1>s, <1>o, <1>z
  <2> QED BY Zenon, <1>u, <2>1, <2>2, FileFrame
<1>4. JobsInv'
  <2>1. \A f \in File : state[f] = "kPendingLSM" =>
          state'[f] = state[f] /\ recs[f] \subseteq recs'[f]
    BY Zenon, <1>u, <1>s, <1>o, <1>z
  <2> QED BY Zenon, <1>v, <1>u, <2>1, JobsFrame
<1>5. GCLease'
  <2>1. \A f \in File : state'[f] = "kBeingGC" <=> state[f] = "kBeingGC"
    BY Zenon, <1>s, <1>o, <1>z
  <2>2. ASSUME NEW f \in File, state'[f] = "kPendingGC"
        PROVE  \E v \in Worker : f = out'[v] /\ gpc'[v] # "run"
    <3>1. CASE f = out[w]
      BY Zenon, <1>u, <1>p, <3>1
    <3>2. CASE f # out[w]
      <4>1. PICK v \in Worker : f = out[v] /\ gpc[v] # "run"
        BY <1>s, <2>2, <3>2 DEF IndInv, GCLease
      <4> QED BY Zenon, <1>u, <1>p, <3>2, <4>1
    <3> QED BY Zenon, <3>1, <3>2
  <2>3. \A v \in Worker : \A f \in inputs'[v] : state'[f] = "kBeingGC"
    BY Zenon, <1>t, <1>u, <2>1 DEF IndInv, GCLease, TypeOK
  <2> QED BY SMTT(30), <1>u, <2>1, <2>2, <2>3 DEF IndInv, GCLease
<1>6. GCInv'
  <2>1. ASSUME NEW v \in Worker, v # w
        PROVE  WorkerInv(v)' /\ BatchInv(v)' /\ Tracked(v)' /\ InputsUnused(v)'
    <3>1. out[v] # NoFile => /\ state'[out[v]] = state[out[v]]
                             /\ recs[out[v]] \subseteq recs'[out[v]]
      <4>1. out[v] # NoFile => out[v] # out[w] /\ out[v] \in File
        BY Zenon, <2>1, OutputFile DEF IndInv, GCLease
      <4> QED BY Zenon, <1>u, <1>s, <4>1
    <3>2. synced' \in Nat /\ synced <= synced'
      BY <1>t, <1>v DEF TypeOK
    <3>3. /\ gpc'[v] = gpc[v] /\ inputs'[v] = inputs[v] /\ todo'[v] = todo[v]
          /\ batches'[v] = batches[v] /\ out'[v] = out[v]
      BY Zenon, <1>u, <1>p, <2>1
    <3> QED BY Zenon, <1>v, <3>1, <3>2, <3>3, WorkerFrame
  <2>2. WorkerInv(w)' /\ InputsUnused(w)'
    BY Zenon, <1>u, <1>s, <1>p DEF WorkerInv, InputsUnused
  <2>3. BatchInv(w)'
    BY Zenon, <1>u DEF IndInv, GCInv, BatchInv, RecordOf
  <2>4. Tracked(w)'
    BY SMTT(30), <1>u, <1>v DEF IndInv, GCInv, Tracked, Current, Visible
  <2> QED BY Zenon, <2>1, <2>2, <2>3, <2>4 DEF GCInv
<1> QED BY Zenon, <1>1, <1>2, <1>3, <1>4, <1>5, <1>6 DEF IndInv

\* Rewrite preserves the invariant.
LEMMA RewritePreserves ==
  ASSUME IndInv, NEW w \in Worker, NEW b \in batches[w], RewriteValidKeyToLSM(w, b)
  PROVE  IndInv'
<1> USE ConstantsAssumption
<1>t. TypeOK /\ LogInv
  BY Zenon DEF IndInv
<1>u. /\ UNCHANGED <<flushed, synced, userVars, bgError, fileVars, readerVars,
                     oldest, jobVars, gpc, gmode, inputs, todo, out>>
      /\ gpc[w] = "rewrite"
      /\ batches' = [batches EXCEPT ![w] = @ \ {b}]
  BY Zenon DEF RewriteValidKeyToLSM
<1>v. UNCHANGED <<state, recs>>
  BY Zenon, <1>u DEF fileVars
<1>b. b \in Batch
  BY Zenon, <1>t DEF TypeOK
<1>p. /\ batches'[w] = batches[w] \ {b}
      /\ \A v \in Worker : v # w => batches'[v] = batches[v]
      /\ \A v \in Worker : batches'[v] \subseteq batches[v]
      /\ batches' \in [Worker -> SUBSET Batch]
  BY Zenon, <1>t, <1>u DEF TypeOK
<1>1. ASSUME NEW v \in Worker PROVE WorkerInv(v)' /\ BatchInv(v)'
  <2>1. WorkerInv(v)'
    BY Zenon, <1>u, <1>v, <1>p DEF IndInv, GCInv, WorkerInv
  <2>2. BatchInv(v)'
    BY Zenon, <1>u, <1>v, <1>p DEF IndInv, GCInv, BatchInv, RecordOf
  <2> QED BY Zenon, <2>1, <2>2
<1>2. CASE Current(b) /\ AppendEntry(IF b.to = NoFile THEN ValueEntry(b.key, b.val)
                                     ELSE BlobEntry(b.key, b.val, b.to))
  <2> DEFINE e == IF b.to = NoFile THEN ValueEntry(b.key, b.val)
                  ELSE BlobEntry(b.key, b.val, b.to)
  <2>o. b.to # NoFile => /\ b.to \in File /\ state[b.to] = "kPendingGC"
                         /\ RecordOf(b) \in recs[b.to]
    <3>1. b.to # NoFile => b.to = out[w] /\ RecordOf(b) \in recs[b.to]
      BY Zenon DEF IndInv, GCInv, BatchInv
    <3>2. out[w] # NoFile => out[w] \in File
      BY Zenon, OutputFile
    <3>3. out[w] # NoFile => state[out[w]] = "kPendingGC"
      BY Zenon, <1>u DEF IndInv, GCInv, WorkerInv
    <3> QED BY Zenon, <3>1, <3>2, <3>3
  <2>1. e \in Entry /\ EntryOK(e) /\ e.key = b.key
    <3>1. CASE b.to = NoFile
      BY SMTT(30), <1>b, <3>1 DEF Batch, Entry, EntryOK, EntryType, ValueEntry
    <3>2. CASE b.to # NoFile
      BY SMTT(30), <1>b, <2>o, <3>2 DEF Batch, Entry, EntryOK, EntryType, BlobEntry
    <3> QED BY Zenon, <3>1, <3>2
  <2>2. e.type = "kTypeBlobIndex" =>
          state[e.file] = "kPendingGC" /\ RecordOf(e) \in recs[e.file]
    BY Zenon, <2>o DEF BlobEntry, ValueEntry, RecordOf
  <2>3. AppendEntry(e)
    BY Zenon, <1>2
  <2> HIDE DEF e
  <2>4. /\ seq' \in 0 .. MaxSeq /\ lsm' \in [Seqs -> Entry]
        /\ LogInv' /\ FreshInv' /\ ReaderInv' /\ PurgeInv' /\ JobsInv'
        /\ GCLease' /\ ObsoleteInvisible' /\ CrashConsistent'
        /\ SnapshotReadable'
        /\ \A v \in Worker : InputsUnused(v)'
        /\ \A v \in Worker : \A r \in InputRecord :
             r.file \in inputs[v] /\ Current(r)' => Current(r) /\ r.key # e.key
    BY Zenon, <1>u, <2>1, <2>2, <2>3, AppendPreserves
  <2>5. TypeOK'
    BY Zenon, <1>t, <1>u, <1>p, <2>4 DEF TypeOK, userVars, fileVars, readerVars, jobVars
  <2>6. ASSUME NEW v \in Worker PROVE Tracked(v)'
    <3> SUFFICES ASSUME NEW r \in InputRecord, r.file \in inputs[v], Current(r)'
                 PROVE  r \in todo[v] \/ \E c \in batches'[v] :
                          c.key = r.key /\ c.val = r.val /\ c.file = r.file
      BY Zenon, <1>u DEF Tracked
    <3>1. Current(r) /\ r.key # b.key
      BY Zenon, <2>1, <2>4
    <3>2. r \in todo[v] \/ \E c \in batches[v] :
             c.key = r.key /\ c.val = r.val /\ c.file = r.file
      BY Zenon, <3>1 DEF IndInv, GCInv, Tracked
    <3> QED BY Zenon, <1>p, <3>1, <3>2
  <2> QED BY Zenon, <1>1, <2>4, <2>5, <2>6 DEF IndInv, GCInv
<1>3. CASE ~Current(b) /\ UNCHANGED <<seq, lsm>>
  <2>1. UNCHANGED <<lsmVars, seq, lsm, flushed, synced>>
    BY Zenon, <1>3, <1>u DEF lsmVars
  <2>v. UNCHANGED <<nextFile, state, recs, obsSeq, snap, jpc, jupto, jfile, jout,
                    callbacks>>
    BY Zenon, <1>u DEF fileVars, readerVars, jobVars
  <2>2. TypeOK'
    BY Zenon, <1>t, <1>u, <1>p, <2>1 DEF TypeOK, userVars, fileVars, readerVars, jobVars
  <2>3. LogInv' /\ ReaderInv' /\ PurgeInv' /\ ObsoleteInvisible'
        /\ CrashConsistent' /\ SnapshotReadable'
    BY Zenon, <1>u, <2>1, <2>v, FileFrame DEF Alive
  <2>4. FreshInv'
    BY Zenon, <2>v DEF IndInv, FreshInv
  <2>5. JobsInv'
    BY Zenon, <2>1, <2>v, JobsFrame
  <2>6. GCLease'
    BY Zenon, <1>u, <1>v, LeaseFrame
  <2>7. ASSUME NEW v \in Worker PROVE Tracked(v)'
    <3> SUFFICES ASSUME NEW r \in InputRecord, r.file \in inputs[v], Current(r)
                 PROVE  r \in todo[v] \/ \E c \in batches'[v] :
                          c.key = r.key /\ c.val = r.val /\ c.file = r.file
      BY SMTT(30), <1>u, <2>1 DEF Tracked, Current, Visible
    <3>1. r \in todo[v] \/ \E c \in batches[v] :
             c.key = r.key /\ c.val = r.val /\ c.file = r.file
      BY Zenon DEF IndInv, GCInv, Tracked
    <3>2. ~(b.key = r.key /\ b.val = r.val /\ b.file = r.file)
      BY Zenon, <1>3 DEF Current
    <3> QED BY Zenon, <1>p, <3>1, <3>2
  <2>8. ASSUME NEW v \in Worker PROVE InputsUnused(v)'
    BY Zenon, <1>u, <2>1 DEF IndInv, GCInv, InputsUnused, Visible
  <2> QED BY Zenon, <1>1, <2>2, <2>3, <2>4, <2>5, <2>6, <2>7, <2>8 DEF IndInv, GCInv
<1> QED BY Zenon, <1>2, <1>3 DEF RewriteValidKeyToLSM

\* FlushWAL preserves the invariant.
LEMMA FlushWALPreserves ==
  ASSUME IndInv, NEW w \in Worker, FlushWAL(w)
  PROVE  IndInv'
<1> USE ConstantsAssumption
<1>t. TypeOK /\ LogInv /\ WorkerInv(w) /\ Tracked(w)
  BY Zenon DEF IndInv, GCInv
<1>u. /\ UNCHANGED <<seq, lsm, flushed, userVars, bgError, fileVars, readerVars,
                     oldest, jobVars, gmode, inputs, todo, batches, out>>
      /\ gpc[w] = "rewrite" /\ batches[w] = {}
      /\ gpc' = [gpc EXCEPT ![w] = "delete"]
      /\ synced' = seq
  BY Zenon DEF FlushWAL
<1>v. UNCHANGED <<nextFile, state, recs, obsSeq, snap, late, idx, failed, jpc,
                  jupto, jfile, jout, callbacks>>
  BY Zenon, <1>u DEF fileVars, readerVars, jobVars
<1>p. gpc'[w] = "delete" /\ \A v \in Worker : v # w => gpc'[v] = gpc[v]
  BY Zenon, <1>t, <1>u DEF TypeOK
<1>1. TypeOK'
  <2>1. gpc' \in [Worker -> GCPC] /\ synced' \in 0 .. MaxSeq
    BY Zenon, <1>t, <1>u DEF TypeOK, GCPC
  <2> QED BY Zenon, <1>t, <1>u, <2>1 DEF TypeOK, userVars, fileVars, readerVars, jobVars
<1>2. LogInv'
  BY SMTT(30), <1>t, <1>u DEF LogInv, TypeOK, EntryOK
<1>3. FreshInv' /\ ReaderInv' /\ PurgeInv' /\ ObsoleteInvisible' /\ SnapshotReadable'
  <2>1. FreshInv' /\ ReaderInv' /\ PurgeInv'
    BY Zenon, <1>u, <1>v DEF IndInv, FreshInv, ReaderInv, PurgeInv, EntryOK
  <2>2. ObsoleteInvisible'
    BY SMTT(30), <1>u, <1>v DEF IndInv, ObsoleteInvisible, Visible
  <2>3. SnapshotReadable'
    BY SMTT(30), <1>u, <1>v DEF IndInv, SnapshotReadable, Visible, Readable, Found, Present,
       Alive, RecordOf
  <2> QED BY Zenon, <2>1, <2>2, <2>3
<1>4. JobsInv'
  <2>1. ASSUME NEW j \in Job PROVE JobInv(j)'
    <3>1. JobInput(j, jupto[j])' = JobInput(j, jupto[j])
      BY Zenon, <1>u, <1>v DEF JobInput
    <3> QED BY SMTT(30), <1>u, <1>v, <3>1 DEF IndInv, JobsInv, JobInv, Rewrites
  <2> QED BY ZenonT(40), <1>v, <2>1 DEF IndInv, JobsInv
<1>5. GCLease'
  <2>1. \A f \in File : state'[f] = "kPendingGC" =>
          \E v \in Worker : f = out'[v] /\ gpc'[v] # "run"
    BY SMTT(30), <1>u, <1>v, <1>p DEF IndInv, GCLease
  <2> QED BY SMTT(30), <1>u, <1>v, <2>1 DEF IndInv, GCLease
<1>6. GCInv'
  <2>1. ASSUME NEW v \in Worker, v # w
        PROVE  WorkerInv(v)' /\ BatchInv(v)' /\ Tracked(v)' /\ InputsUnused(v)'
    <3>1. synced' \in Nat /\ synced <= synced'
      BY <1>t, <1>u DEF TypeOK, LogInv
    <3> QED BY Zenon, <1>u, <1>v, <1>p, <2>1, <3>1, WorkerFrame
  <2>2. WorkerInv(w)'
    BY Zenon, <1>t, <1>u, <1>v, <1>p DEF WorkerInv
  <2>3. BatchInv(w)' /\ Tracked(w)'
    <3>1. BatchInv(w)'
      BY Zenon, <1>u, <1>v DEF IndInv, GCInv, BatchInv, RecordOf
    <3>2. Tracked(w)'
      BY SMTT(30), <1>t, <1>u DEF Tracked, Current, Visible
    <3> QED BY Zenon, <3>1, <3>2
  <2>4. InputsUnused(w)'
    <3> SUFFICES ASSUME NEW i \in 1 .. seq, Visible(i, seq), lsm[i].file \in inputs[w]
                 PROVE  FALSE
      BY <1>t, <1>u, <1>p DEF InputsUnused, Visible, TypeOK
    <3> DEFINE r == [key |-> lsm[i].key, val |-> lsm[i].val, file |-> lsm[i].file]
    <3>1. i \in Seqs /\ lsm[i].file \in File /\ lsm[i].file # 0
      BY <1>t DEF TypeOK, Seqs, File
    <3>2. lsm[i].type = "kTypeBlobIndex" /\ lsm[i].key \in Key /\ lsm[i].val \in 1 .. MaxPut
      BY Zenon, <1>t, <3>1 DEF LogInv, EntryOK
    <3>3. r \in InputRecord
      BY Zenon, <3>1, <3>2 DEF InputRecord
    <3>4. lsm[i] = BlobEntry(r.key, r.val, r.file)
      BY Zenon, <1>t, <3>1, <3>2 DEF TypeOK, Entry, BlobEntry
    <3>5. Current(r)
      BY Zenon, <3>4 DEF Current
    <3>6. r.file \in inputs[w]
      BY Zenon
    <3> HIDE DEF r
    <3>7. todo[w] = {}
      BY Zenon, <1>t, <1>u DEF WorkerInv
    <3> QED BY Zenon, <1>t, <1>u, <3>3, <3>5, <3>6, <3>7 DEF Tracked
  <2> QED BY Zenon, <2>1, <2>2, <2>3, <2>4 DEF GCInv
<1>7. CrashConsistent'
  <2>1. \A n \in synced' .. seq' : n \in synced .. seq
    BY <1>t, <1>u DEF TypeOK, LogInv
  <2> QED BY SMTT(30), <1>u, <1>v, <2>1 DEF IndInv, CrashConsistent, Visible, Alive, Readable,
             Found, Present, RecordOf
<1> QED BY Zenon, <1>1, <1>2, <1>3, <1>4, <1>5, <1>6, <1>7 DEF IndInv

\* The end of a job: the worker holds nothing, the others hold what they held.
LEMMA EndJobWorker ==
  ASSUME TypeOK, NEW w \in Worker, EndJob(w)
  PROVE  /\ gpc'[w] = "idle" /\ inputs'[w] = {} /\ todo'[w] = {}
         /\ batches'[w] = {} /\ out'[w] = NoFile
         /\ \A v \in Worker : v # w =>
              /\ gpc'[v] = gpc[v] /\ inputs'[v] = inputs[v] /\ todo'[v] = todo[v]
              /\ batches'[v] = batches[v] /\ out'[v] = out[v]
         /\ gpc' \in [Worker -> GCPC]
         /\ gmode' \in [Worker -> {"kNormal", "kReadOnly", "kFallback"}]
         /\ inputs' \in [Worker -> SUBSET File]
         /\ todo' \in [Worker -> SUBSET InputRecord]
         /\ batches' \in [Worker -> SUBSET Batch]
         /\ out' \in [Worker -> 0 .. MaxFile]
BY ConstantsAssumption DEF TypeOK, EndJob, GCPC

\* The end of a job returns the leases of its own files and no others.
LEMMA EndJobLeases ==
  ASSUME IndInv, NEW w \in Worker, EndJob(w), UNCHANGED <<seq, lsm, synced, recs>>,
         \A f \in File : Released(w, f) => state'[f] \in {"kNormal", "kObsolete"},
         \A f \in File : ~Released(w, f) => state'[f] = state[f]
  PROVE  GCLease' /\ GCInv'
<1>t. TypeOK /\ GCLease
  BY Zenon DEF IndInv
<1>e. /\ gpc'[w] = "idle" /\ inputs'[w] = {} /\ todo'[w] = {}
      /\ batches'[w] = {} /\ out'[w] = NoFile
      /\ \A v \in Worker : v # w =>
           /\ gpc'[v] = gpc[v] /\ inputs'[v] = inputs[v] /\ todo'[v] = todo[v]
           /\ batches'[v] = batches[v] /\ out'[v] = out[v]
  BY Zenon, <1>t, EndJobWorker
<1>o. ASSUME NEW v \in Worker, v # w, out[v] # NoFile
      PROVE  out[v] \in File /\ state'[out[v]] = state[out[v]]
  <2>1. out[v] \in File /\ state[out[v]] \in {"kInit", "kPendingGC"}
    BY Zenon, <1>o, OutputFile
  <2>2. out[v] \notin inputs[w] /\ out[v] # out[w]
    BY Zenon, <1>t, <1>o, <2>1 DEF GCLease
  <2> QED BY Zenon, <2>1, <2>2 DEF Released
<1>i. ASSUME NEW v \in Worker, v # w, NEW f \in inputs[v]
      PROVE  f \in File /\ state'[f] = "kBeingGC"
  <2>1. f \in File /\ state[f] = "kBeingGC" /\ f \notin inputs[w]
    BY Zenon, <1>t, <1>i DEF GCLease, TypeOK
  <2> QED BY Zenon, <2>1 DEF Released
<1>1. GCLease'
  <2>1. ASSUME NEW f \in File, state'[f] = "kBeingGC"
        PROVE  \E v \in Worker : f \in inputs'[v]
    <3>1. ~Released(w, f) /\ state[f] = "kBeingGC"
      BY Zenon, <2>1
    <3>2. PICK v \in Worker : f \in inputs[v]
      BY Zenon, <1>t, <3>1 DEF GCLease
    <3> QED BY Zenon, <1>e, <3>1, <3>2 DEF Released
  <2>2. ASSUME NEW f \in File, state'[f] = "kPendingGC"
        PROVE  \E v \in Worker : f = out'[v] /\ gpc'[v] # "run"
    <3>1. ~Released(w, f) /\ state[f] = "kPendingGC"
      BY Zenon, <2>2
    <3>2. PICK v \in Worker : f = out[v] /\ gpc[v] # "run"
      BY Zenon, <1>t, <3>1 DEF GCLease
    <3> QED BY Zenon, <1>e, <3>1, <3>2 DEF Released
  <2>3. ASSUME NEW v \in Worker, NEW f \in inputs'[v] PROVE state'[f] = "kBeingGC"
    BY Zenon, <1>e, <1>i
  <2>4. \A v, x \in Worker : v # x => /\ inputs'[v] \cap inputs'[x] = {}
                                      /\ out'[v] = out'[x] => out'[v] = NoFile
    BY <1>t, <1>e DEF GCLease
  <2> QED BY Zenon, <2>1, <2>2, <2>3, <2>4 DEF GCLease
<1>2. GCInv'
  <2>1. ASSUME NEW v \in Worker, v # w
        PROVE  WorkerInv(v)' /\ BatchInv(v)' /\ Tracked(v)' /\ InputsUnused(v)'
    <3>1. out[v] # NoFile => /\ state'[out[v]] = state[out[v]]
                             /\ recs[out[v]] \subseteq recs'[out[v]]
      BY Zenon, <1>o, <2>1
    <3>2. synced' \in Nat /\ synced <= synced'
      BY <1>t DEF TypeOK
    <3> QED BY Zenon, <1>e, <2>1, <3>1, <3>2, WorkerFrame
  <2>2. WorkerInv(w)' /\ BatchInv(w)' /\ Tracked(w)' /\ InputsUnused(w)'
    BY Zenon, <1>e DEF WorkerInv, BatchInv, Tracked, InputsUnused
  <2> QED BY Zenon, <2>1, <2>2 DEF GCInv
<1> QED BY Zenon, <1>1, <1>2

\* GCFails preserves the invariant.
LEMMA GCFailsPreserves ==
  ASSUME IndInv, NEW w \in Worker, GCFails(w)
  PROVE  IndInv'
<1>t. TypeOK
  BY Zenon DEF IndInv
<1>u. /\ UNCHANGED <<lsmVars, userVars, nextFile, recs, obsSeq, readerVars, oldest,
                     jobVars>>
      /\ state' = [f \in File |-> IF Released(w, f) THEN "kNormal" ELSE state[f]]
      /\ bgError' = TRUE
      /\ EndJob(w)
  BY Zenon DEF GCFails
<1>v. UNCHANGED <<seq, lsm, synced, snap, jpc, jupto, jfile, jout, callbacks>>
  BY Zenon, <1>u DEF lsmVars, readerVars, jobVars
<1>s. \A f \in File : /\ Released(w, f) => /\ state[f] \in {"kBeingGC", "kPendingGC"}
                                           /\ state'[f] = "kNormal"
                      /\ ~Released(w, f) => state'[f] = state[f]
  BY Zenon, <1>u DEF Released, IndInv, GCLease
<1>1. TypeOK'
  <2>1. state' \in [File -> FileState]
    BY Zenon, <1>t, <1>u DEF TypeOK, FileState
  <2>2. /\ gpc' \in [Worker -> GCPC]
        /\ gmode' \in [Worker -> {"kNormal", "kReadOnly", "kFallback"}]
        /\ inputs' \in [Worker -> SUBSET File]
        /\ todo' \in [Worker -> SUBSET InputRecord]
        /\ batches' \in [Worker -> SUBSET Batch]
        /\ out' \in [Worker -> 0 .. MaxFile]
    BY Zenon, <1>t, <1>u, EndJobWorker
  <2> QED BY Zenon, <1>t, <1>u, <2>1, <2>2 DEF TypeOK, lsmVars, userVars, readerVars, jobVars
<1>2. FreshInv'
  BY Zenon, <1>u, <1>s DEF IndInv, FreshInv
<1>3. LogInv' /\ ReaderInv' /\ PurgeInv' /\ ObsoleteInvisible'
      /\ CrashConsistent' /\ SnapshotReadable'
  <2>1. \A f \in File : Alive(f) => Alive(f)' /\ recs[f] \subseteq recs'[f]
    BY Zenon, <1>u, <1>s DEF Alive
  <2>2. \A f \in File : /\ state[f] = "kObsolete" <=> state'[f] = "kObsolete"
                        /\ state[f] = "kObsolete" => /\ recs[f] \subseteq recs'[f]
                                                     /\ obsSeq'[f] = obsSeq[f]
    BY Zenon, <1>u, <1>s
  <2> QED BY Zenon, <1>u, <2>1, <2>2, FileFrame
<1>4. JobsInv'
  <2>1. \A f \in File : state[f] = "kPendingLSM" =>
          state'[f] = state[f] /\ recs[f] \subseteq recs'[f]
    BY Zenon, <1>u, <1>s
  <2> QED BY Zenon, <1>u, <1>v, <2>1, JobsFrame
<1>5. GCLease' /\ GCInv'
  BY Zenon, <1>u, <1>v, <1>s, EndJobLeases
<1> QED BY Zenon, <1>1, <1>2, <1>3, <1>4, <1>5 DEF IndInv

\* DeleteInput preserves the invariant.
LEMMA DeleteInputPreserves ==
  ASSUME IndInv, NEW w \in Worker, DeleteInputBlobFiles(w)
  PROVE  IndInv'
<1> USE ConstantsAssumption
<1>t. TypeOK /\ LogInv /\ ReaderInv
  BY Zenon DEF IndInv
<1>u. /\ UNCHANGED <<lsmVars, userVars, bgError, nextFile, recs, readerVars, oldest,
                     jobVars>>
      /\ gpc[w] = "delete"
      /\ state' = [f \in File |-> IF f \in inputs[w] THEN "kObsolete"
                                  ELSE IF Released(w, f) THEN "kNormal"
                                  ELSE state[f]]
      /\ obsSeq' = [f \in File |-> IF f \in inputs[w] THEN seq ELSE obsSeq[f]]
      /\ EndJob(w)
  BY Zenon DEF DeleteInputBlobFiles
<1>v. UNCHANGED <<seq, lsm, flushed, synced, snap, late, idx, failed, jpc, jupto,
                  jfile, jout, callbacks>>
  BY Zenon, <1>u DEF lsmVars, readerVars, jobVars
<1>s. \A f \in File :
        /\ f \in inputs[w] => /\ state[f] = "kBeingGC" /\ state'[f] = "kObsolete"
                              /\ obsSeq'[f] = seq
        /\ f \notin inputs[w] => /\ obsSeq'[f] = obsSeq[f]
                                 /\ state'[f] = state[f] \/
                                      (state[f] = "kPendingGC" /\ state'[f] = "kNormal")
        /\ Released(w, f) => state'[f] \in {"kNormal", "kObsolete"}
        /\ ~Released(w, f) => state'[f] = state[f]
  BY Zenon, <1>u DEF Released, IndInv, GCLease
<1>i. \A n \in synced .. seq : \A i \in 1 .. n :
        Visible(i, n) => lsm[i].file \notin inputs[w]
  BY Zenon, <1>u DEF IndInv, GCInv, InputsUnused
<1>1. TypeOK'
  <2>1. state' \in [File -> FileState] /\ obsSeq' \in [File -> 0 .. MaxSeq]
    BY Zenon, <1>t, <1>u DEF TypeOK, FileState
  <2>2. /\ gpc' \in [Worker -> GCPC]
        /\ gmode' \in [Worker -> {"kNormal", "kReadOnly", "kFallback"}]
        /\ inputs' \in [Worker -> SUBSET File]
        /\ todo' \in [Worker -> SUBSET InputRecord]
        /\ batches' \in [Worker -> SUBSET Batch]
        /\ out' \in [Worker -> 0 .. MaxFile]
    BY Zenon, <1>t, <1>u, EndJobWorker
  <2> QED BY Zenon, <1>t, <1>u, <2>1, <2>2 DEF TypeOK, lsmVars, userVars, readerVars, jobVars
<1>2. LogInv' /\ FreshInv' /\ PurgeInv'
  BY Zenon, <1>u, <1>v, <1>s DEF IndInv, LogInv, FreshInv, PurgeInv, EntryOK
<1>3. ReaderInv'
  <2> SUFFICES ASSUME NEW r \in Reader, idx[r] # NoEntry,
                      state'[idx[r].file] = "kObsolete"
               PROVE  snap[r] <= obsSeq'[idx[r].file]
    BY Zenon, <1>t, <1>v DEF ReaderInv, EntryOK
  <2>1. idx[r].file \in File /\ snap[r] <= seq
    BY Zenon, <1>t DEF ReaderInv, EntryOK
  <2> QED BY Zenon, <1>t, <1>s, <2>1 DEF ReaderInv
<1>4. JobsInv'
  <2>1. \A f \in File : state[f] = "kPendingLSM" =>
          state'[f] = state[f] /\ recs[f] \subseteq recs'[f]
    BY Zenon, <1>u, <1>s
  <2> QED BY Zenon, <1>u, <1>v, <2>1, JobsFrame
<1>5. GCLease' /\ GCInv'
  BY Zenon, <1>u, <1>v, <1>s, EndJobLeases
<1>6. ObsoleteInvisible'
  <2> SUFFICES ASSUME NEW f \in File, NEW r \in Reader, state'[f] = "kObsolete",
                      snap[r] >= obsSeq'[f], NEW i \in 1 .. snap[r],
                      Visible(i, snap[r])
               PROVE  lsm[i].file # f
    BY <1>v DEF ObsoleteInvisible, Visible
  <2>1. CASE f \in inputs[w]
    <3>1. snap[r] \in Int /\ seq \in Int /\ snap[r] <= seq /\ obsSeq'[f] = seq
      BY SMTT(30), <1>t, <1>s, <2>1 DEF ReaderInv, TypeOK
    <3>2. snap[r] = seq /\ seq \in synced .. seq
      BY SMTT(30), <1>t, <3>1 DEF TypeOK, LogInv
    <3> QED BY Zenon, <1>i, <2>1, <3>2
  <2>2. CASE f \notin inputs[w]
    BY SMTT(30), <1>s, <2>2 DEF IndInv, ObsoleteInvisible
  <2> QED BY Zenon, <2>1, <2>2
<1>r. ASSUME NEW e, EntryOK(e), Readable(e) PROVE Readable(e)'
  BY Zenon, <1>r, <1>u, <1>s DEF Readable, Found, Present, Alive, EntryOK
<1>7. CrashConsistent'
  <2> SUFFICES ASSUME NEW n \in synced .. seq, NEW i \in 1 .. n, Visible(i, n),
                      lsm[i].type = "kTypeBlobIndex"
               PROVE  Alive(lsm[i].file)' /\ Readable(lsm[i])'
    BY SMTT(30), <1>v DEF CrashConsistent, Visible, Alive, Readable, Found, Present
  <2>1. Alive(lsm[i].file) /\ Readable(lsm[i]) /\ lsm[i].file \notin inputs[w]
    BY Zenon, <1>i DEF IndInv, CrashConsistent
  <2>2. i \in Seqs
    BY <1>t DEF TypeOK, Seqs
  <2>3. EntryOK(lsm[i]) /\ lsm[i].file \in File
    BY Zenon, <1>t, <2>2 DEF LogInv, EntryOK
  <2>4. Readable(lsm[i])'
    BY Zenon, <1>v, <1>r, <2>1, <2>3 DEF Readable, Found, Present, EntryOK
  <2>5. Alive(lsm[i].file)'
    BY Zenon, <1>v, <1>s, <2>1, <2>3 DEF Alive
  <2> QED BY Zenon, <2>4, <2>5
<1>8. SnapshotReadable'
  <2>1. ASSUME NEW i \in Seqs, Readable(lsm[i]) PROVE Readable(lsm[i])'
    BY ZenonT(40), <1>r, <1>t, <1>v, <2>1 DEF Readable, Found, Present, EntryOK, LogInv
  <2>2. ASSUME NEW r \in Reader, Readable(idx[r]) PROVE Readable(idx[r])'
    BY SMTT(30), <1>r, <1>t, <1>v, <2>2 DEF Readable, Found, Present, EntryOK, ReaderInv, NoEntry
  <2> SUFFICES ASSUME NEW r \in Reader, snap[r] # NoSnap, ~late[r]
               PROVE  /\ \A i \in 1 .. snap[r] :
                           Visible(i, snap[r]) => Readable(lsm[i])'
                      /\ Readable(idx[r])'
                      /\ ~failed[r]
    BY Zenon, <1>v DEF SnapshotReadable, Visible
  <2>3. \A i \in 1 .. snap[r] : i \in Seqs
    BY <1>t DEF TypeOK, Seqs
  <2> QED BY Zenon, <2>1, <2>2, <2>3 DEF IndInv, SnapshotReadable
<1> QED BY Zenon, <1>1, <1>2, <1>3, <1>4, <1>5, <1>6, <1>7, <1>8 DEF IndInv

-----------------------------------------------------------------------------
(* Purge and crash.                                                        *)

\* What a purge reads is no later than any snapshot.
LEMMA OldestSnapshot ==
  ASSUME TypeOK
  PROVE  /\ GetOldestSnapshotSequence \in 0 .. (MaxSeq + 1)
         /\ \A r \in Reader : snap[r] # NoSnap => GetOldestSnapshotSequence <= snap[r]
<1> USE ConstantsAssumption
<1> DEFINE S == {snap[r] : r \in Reader} \ {NoSnap}
<1>1. S \subseteq 0 .. MaxSeq
  BY DEF TypeOK
<1>2. \A r \in Reader : snap[r] # NoSnap => snap[r] \in S
  BY Zenon
<1>3. CASE S = {}
  <2>1. GetOldestSnapshotSequence = MaxSeq + 1
    BY Zenon, <1>3 DEF GetOldestSnapshotSequence
  <2>2. \A r \in Reader : snap[r] = NoSnap
    BY Zenon, <1>2, <1>3
  <2> QED BY <2>1, <2>2
<1>4. CASE S # {}
  <2>1. S \subseteq Nat
    <3>1. \A m \in Nat : 0 .. m \subseteq Nat
      OBVIOUS
    <3> QED BY Zenon, <1>1, <3>1
  <2>2. \E s \in S : \A t \in S : s <= t
    BY Zenon, <1>4, <2>1, MinExists
  <2>3. GetOldestSnapshotSequence = CHOOSE s \in S : \A t \in S : s <= t
    BY Zenon, <1>4 DEF GetOldestSnapshotSequence
  <2> HIDE DEF S
  <2>4. /\ GetOldestSnapshotSequence \in S
        /\ \A t \in S : GetOldestSnapshotSequence <= t
    BY Zenon, <2>2, <2>3
  <2>5. GetOldestSnapshotSequence \in 0 .. (MaxSeq + 1)
    BY <1>1, <2>4
  <2>6. ASSUME NEW r \in Reader, snap[r] # NoSnap
        PROVE  GetOldestSnapshotSequence <= snap[r]
    <3>1. snap[r] \in S
      BY Zenon, <1>2, <2>6
    <3> QED BY Zenon, <2>4, <3>1
  <2> QED BY Zenon, <2>5, <2>6
<1> QED BY ZenonT(40), <1>3, <1>4

\* PurgeObsoleteFiles preserves the invariant.
LEMMA PurgeObsoleteFilesPreserves ==
  ASSUME IndInv, PurgeObsoleteFiles
  PROVE  IndInv'
<1> USE ConstantsAssumption
<1>t. TypeOK
  BY Zenon DEF IndInv
<1>u. /\ UNCHANGED <<lsmVars, userVars, bgError, fileVars, readerVars, jobVars, gcVars>>
      /\ oldest' = GetOldestSnapshotSequence
  BY Zenon DEF PurgeObsoleteFiles
<1>v. UNCHANGED <<seq, lsm, flushed, synced, nextFile, state, recs, obsSeq, snap, late,
                  idx, failed>>
  BY Zenon, <1>u DEF lsmVars, fileVars, readerVars
<1>1. TypeOK'
  <2>1. oldest' \in -1 .. (MaxSeq + 1)
    BY <1>t, <1>u, OldestSnapshot
  <2> QED BY Zenon, <1>t, <1>u, <2>1
          DEF TypeOK, lsmVars, userVars, fileVars, readerVars, jobVars, gcVars
<1>2. PurgeInv'
  BY Zenon, <1>t, <1>u, <1>v, OldestSnapshot DEF PurgeInv
<1>3. LogInv' /\ FreshInv' /\ GCLease' /\ GCInv' /\ CrashConsistent'
  BY Zenon, <1>u, LogFrame
<1>4. ReaderInv'
  BY SMTT(30), <1>v DEF IndInv, ReaderInv, EntryOK
<1>5. ObsoleteInvisible'
  BY <1>v DEF IndInv, ObsoleteInvisible, Visible
<1>6. SnapshotReadable'
  BY <1>v DEF IndInv, SnapshotReadable, Visible, Readable, Found, Present, Alive
<1>7. JobsInv'
  BY Zenon, <1>u, <1>v, JobsFrame DEF jobVars
<1> QED BY Zenon, <1>1, <1>2, <1>3, <1>4, <1>5, <1>6, <1>7 DEF IndInv

\* A fact of arithmetic.
LEMMA LessThanMore == \A x, y, z \in Int : y > x /\ y <= z => z > x
OBVIOUS

\* GetObsoleteFiles preserves the invariant.
LEMMA GetObsoleteFilesPreserves ==
  ASSUME IndInv, GetObsoleteFiles
  PROVE  IndInv'
<1> USE ConstantsAssumption
<1>t. TypeOK /\ LogInv /\ ReaderInv /\ PurgeInv
  BY Zenon DEF IndInv
<1>u. /\ UNCHANGED <<lsmVars, userVars, bgError, nextFile, recs, obsSeq, readerVars,
                     jobVars, gcVars>>
      /\ oldest # NoPurge
      /\ oldest' = NoPurge
      /\ state' = [f \in File |->
           IF state[f] = "kObsolete" /\ oldest > obsSeq[f] THEN "kPurged"
           ELSE state[f]]
  BY Zenon DEF GetObsoleteFiles
<1>v. UNCHANGED <<seq, lsm, flushed, synced, snap, late, idx, failed, jpc, jupto, jfile,
                  jout, callbacks, gpc, gmode, inputs, todo, batches, out>>
  BY Zenon, <1>u DEF lsmVars, readerVars, jobVars, gcVars
<1>s. \A f \in File :
        \/ state'[f] = state[f]
        \/ state[f] = "kObsolete" /\ state'[f] = "kPurged" /\ oldest > obsSeq[f]
  BY Zenon, <1>u
<1>1. TypeOK'
  <2>1. state' \in [File -> FileState]
    BY Zenon, <1>t, <1>u DEF TypeOK, FileState
  <2> QED BY <1>t, <1>u, <2>1 DEF TypeOK, lsmVars, userVars, readerVars, jobVars, gcVars
<1>2. LogInv' /\ PurgeInv'
  BY Zenon, <1>t, <1>u, <1>v DEF LogInv, PurgeInv, EntryOK
<1>3. FreshInv'
  BY Zenon, <1>u, <1>s DEF IndInv, FreshInv
<1>4. ReaderInv'
  <2> SUFFICES ASSUME NEW r \in Reader, idx[r] # NoEntry,
                      state'[idx[r].file] = "kObsolete"
               PROVE  snap[r] <= obsSeq'[idx[r].file]
    BY Zenon, <1>t, <1>v DEF ReaderInv, EntryOK
  <2>1. idx[r].file \in File
    BY Zenon, <1>t DEF ReaderInv, EntryOK
  <2> QED BY Zenon, <1>t, <1>u, <1>s, <2>1 DEF ReaderInv
<1>5. JobsInv'
  <2>1. \A f \in File : state[f] = "kPendingLSM" =>
          state'[f] = state[f] /\ recs[f] \subseteq recs'[f]
    BY ZenonT(40), <1>u, <1>s
  <2> QED BY Zenon, <1>u, <1>v, <2>1, JobsFrame
<1>6. GCLease'
  <2>1. ASSUME NEW w \in Worker, NEW f \in inputs[w] PROVE state'[f] = "kBeingGC"
    BY SMTT(30), <1>s, <1>t, <2>1 DEF IndInv, GCLease, TypeOK
  <2>2. \A f \in File : /\ state'[f] = "kBeingGC" => state[f] = "kBeingGC"
                        /\ state'[f] = "kPendingGC" => state[f] = "kPendingGC"
    BY Zenon, <1>s
  <2> QED BY ZenonT(40), <1>v, <2>1, <2>2 DEF IndInv, GCLease
<1>7. GCInv'
  <2> SUFFICES ASSUME NEW w \in Worker
               PROVE  WorkerInv(w)' /\ BatchInv(w)' /\ Tracked(w)' /\ InputsUnused(w)'
    BY Zenon DEF GCInv
  <2>1. out[w] # NoFile => /\ state'[out[w]] = state[out[w]]
                           /\ recs[out[w]] \subseteq recs'[out[w]]
    <3> SUFFICES ASSUME out[w] # NoFile
                 PROVE  state'[out[w]] = state[out[w]] /\ recs' = recs
      BY Zenon
    <3>1. out[w] \in File /\ state[out[w]] \in {"kInit", "kPendingGC"}
      BY Zenon, OutputFile
    <3> QED BY Zenon, <1>u, <1>s, <3>1
  <2>2. synced' \in Nat /\ synced <= synced'
    BY <1>t, <1>v DEF TypeOK
  <2> QED BY Zenon, <1>v, <2>1, <2>2, WorkerFrame
<1>8. ObsoleteInvisible'
  BY <1>u, <1>v, <1>s DEF IndInv, ObsoleteInvisible, Visible
<1>9. CrashConsistent'
  <2> SUFFICES ASSUME NEW n \in synced .. seq, NEW i \in 1 .. n, Visible(i, n),
                      lsm[i].type = "kTypeBlobIndex"
               PROVE  (Alive(lsm[i].file) /\ Readable(lsm[i]))'
    BY Zenon, <1>v DEF CrashConsistent, Visible
  <2>1. Alive(lsm[i].file) /\ Readable(lsm[i])
    BY Zenon DEF IndInv, CrashConsistent
  <2>2. i \in Seqs
    BY <1>t DEF TypeOK, Seqs
  <2>3. lsm[i].file \in File
    BY Zenon, <1>t, <2>2 DEF LogInv, EntryOK
  <2>4. state'[lsm[i].file] = state[lsm[i].file]
    BY Zenon, <1>s, <2>1, <2>3 DEF Alive
  <2> QED BY Zenon, <1>u, <1>v, <2>1, <2>4 DEF Alive, Readable, Found, Present
<1>10. SnapshotReadable'
  <2> SUFFICES ASSUME NEW r \in Reader, snap[r] # NoSnap, ~late[r]
               PROVE  /\ \A i \in 1 .. snap[r] :
                           Visible(i, snap[r]) => Readable(lsm[i])'
                      /\ Readable(idx[r])'
                      /\ ~failed[r]
    BY Zenon, <1>v DEF SnapshotReadable, Visible
  <2>0. oldest <= snap[r]
    BY Zenon, <1>t, <1>u DEF PurgeInv
  <2>n. oldest \in Int /\ snap[r] \in Int /\ \A f \in File : obsSeq[f] \in Int
    BY <1>t DEF TypeOK
  <2>k. \A f \in File : state'[f] # state[f] =>
          state[f] = "kObsolete" /\ snap[r] > obsSeq[f]
    BY Zenon, <1>s, <2>0, <2>n, LessThanMore
  <2>1. ASSUME NEW i \in 1 .. snap[r], Visible(i, snap[r]) PROVE Readable(lsm[i])'
    <3> SUFFICES ASSUME lsm[i].type = "kTypeBlobIndex" PROVE Found(lsm[i])'
      BY Zenon, <1>v DEF Readable
    <3>1. i \in Seqs
      BY <1>t DEF TypeOK, Seqs
    <3>2. lsm[i].file \in File
      BY ZenonT(40), <1>t, <3>1 DEF LogInv, EntryOK
    <3>3. Found(lsm[i])
      BY <2>1 DEF IndInv, SnapshotReadable, Readable
    <3>4. state'[lsm[i].file] = state[lsm[i].file]
      BY <2>1, <2>k, <2>n, <3>2 DEF IndInv, ObsoleteInvisible
    <3> QED BY Zenon, <1>u, <1>v, <3>3, <3>4 DEF Found, Present, Alive
  <2>2. Readable(idx[r])'
    <3> SUFFICES ASSUME idx[r].type = "kTypeBlobIndex" PROVE Found(idx[r])'
      BY Zenon, <1>v DEF Readable
    <3>1. idx[r] # NoEntry
      BY DEF NoEntry
    <3>2. idx[r].file \in File
      BY Zenon, <1>t, <3>1 DEF ReaderInv, EntryOK
    <3>3. Found(idx[r])
      BY Zenon DEF IndInv, SnapshotReadable, Readable
    <3>4. state'[idx[r].file] = state[idx[r].file]
      BY <1>t, <2>k, <2>n, <3>1, <3>2 DEF ReaderInv
    <3> QED BY Zenon, <1>u, <1>v, <3>3, <3>4 DEF Found, Present, Alive
  <2>3. ~failed[r]
    BY Zenon DEF IndInv, SnapshotReadable
  <2> QED BY Zenon, <2>1, <2>2, <2>3
<1> QED BY <1>1, <1>2, <1>3, <1>4, <1>5, <1>6, <1>7, <1>8, <1>9, <1>10 DEF IndInv

\* After a crash the store is at a point the log could recover to, its blob
\* files are those the manifest held alive, and nobody is running.
LEMMA CrashPreserves ==
  ASSUME IndInv, NEW n \in 0 .. seq, Crash(n)
  PROVE  IndInv'
<1> USE ConstantsAssumption
<1>t. TypeOK /\ LogInv /\ FreshInv /\ CrashConsistent
  BY Zenon DEF IndInv
<1>u. /\ n \in synced .. seq
      /\ seq' = n /\ flushed' = n /\ synced' = n
      /\ lsm' = [i \in Seqs |-> IF i <= n THEN lsm[i] ELSE NoEntry]
      /\ state' = [f \in File |-> IF Alive(f) THEN "kNormal"
                                  ELSE IF state[f] = "kNone" THEN "kNone"
                                  ELSE "kPurged"]
      /\ obsSeq' = [f \in File |-> 0]
      /\ UNCHANGED <<puts, nextFile, recs>>
  BY Zenon DEF Crash
<1>r. /\ snap' = [r \in Reader |-> NoSnap]
      /\ late' = [r \in Reader |-> FALSE]
      /\ idx' = [r \in Reader |-> NoEntry]
      /\ failed' = [r \in Reader |-> FALSE]
      /\ oldest' = NoPurge
  BY Zenon DEF Crash
<1>j. /\ jpc' = [j \in Job |-> "idle"]
      /\ jupto' = [j \in Job |-> 0]
      /\ jfile' = [j \in Job |-> NoFile]
      /\ jout' = [j \in Job |-> [i \in Seqs |-> NoEntry]]
      /\ callbacks' = {}
  BY Zenon DEF Crash
<1>g. /\ gpc' = [w \in Worker |-> "idle"]
      /\ gmode' = [w \in Worker |-> "kNormal"]
      /\ inputs' = [w \in Worker |-> {}]
      /\ todo' = [w \in Worker |-> {}]
      /\ batches' = [w \in Worker |-> {}]
      /\ out' = [w \in Worker |-> NoFile]
  BY Zenon DEF Crash
<1>n. n \in 0 .. MaxSeq
  BY <1>t DEF TypeOK
<1>s. \A f \in File : /\ state'[f] \in {"kNormal", "kNone", "kPurged"}
                      /\ Alive(f) => state'[f] = "kNormal"
                      /\ state[f] = "kNone" => state'[f] = "kNone"
  BY Zenon, <1>u DEF Alive
<1>1. TypeOK'
  <2>1. seq' \in 0 .. MaxSeq /\ flushed' \in 0 .. MaxSeq /\ synced' \in 0 .. MaxSeq
    BY Zenon, <1>n, <1>u
  <2>2. lsm' \in [Seqs -> Entry]
    BY Zenon, <1>t, <1>u, NoEntryType DEF TypeOK
  <2>3. state' \in [File -> FileState] /\ obsSeq' \in [File -> 0 .. MaxSeq]
    BY <1>u DEF FileState
  <2>4. crashes' \in 0 .. MaxCrash /\ bgError' \in BOOLEAN
    <3>1. /\ crashes \in 0 .. MaxCrash /\ crashes < MaxCrash
          /\ crashes' = crashes + 1
      BY Zenon, <1>t DEF Crash, TypeOK
    <3>2. crashes' \in 0 .. MaxCrash
      BY <3>1
    <3>3. bgError' \in BOOLEAN
      BY Zenon DEF Crash
    <3> QED BY Zenon, <3>2, <3>3
  <2>5. /\ puts' \in 0 .. MaxPut /\ nextFile' \in 1 .. (MaxFile + 1)
        /\ recs' \in [File -> SUBSET BlobRecord]
    BY Zenon, <1>t, <1>u DEF TypeOK
  <2>6. /\ snap' \in [Reader -> -1 .. MaxSeq]
        /\ idx' \in [Reader -> Entry]
        /\ oldest' \in -1 .. (MaxSeq + 1)
    BY <1>r, NoEntryType
  <2>7. late' \in [Reader -> BOOLEAN] /\ failed' \in [Reader -> BOOLEAN]
    BY Zenon, <1>r
  <2>8. /\ jpc' \in [Job -> JobPC]
        /\ jupto' \in [Job -> 0 .. MaxSeq]
        /\ jfile' \in [Job -> 0 .. MaxFile]
        /\ jout' \in [Job -> [Seqs -> Entry]]
        /\ callbacks' \in SUBSET File
    BY <1>j, NoEntryType DEF JobPC
  <2>9. /\ gpc' \in [Worker -> GCPC]
        /\ gmode' \in [Worker -> {"kNormal", "kReadOnly", "kFallback"}]
        /\ inputs' \in [Worker -> SUBSET File]
        /\ todo' \in [Worker -> SUBSET InputRecord]
        /\ batches' \in [Worker -> SUBSET Batch]
        /\ out' \in [Worker -> 0 .. MaxFile]
    BY <1>g DEF GCPC
  <2> QED BY <2>1, <2>2, <2>3, <2>4, <2>5, <2>6, <2>7, <2>8, <2>9 DEF TypeOK
<1>2. LogInv'
  <2>1. \A i \in Seqs : EntryOK(lsm'[i])
    BY Zenon, <1>t, <1>u DEF LogInv, EntryOK, NoEntry
  <2>2. \A i \in Seqs : i > n => lsm'[i] = NoEntry
    BY <1>n, <1>u DEF Seqs
  <2> QED BY <1>n, <1>u, <2>1, <2>2 DEF LogInv, EntryOK
<1>3. FreshInv'
  BY Zenon, <1>t, <1>u, <1>s DEF FreshInv
<1>4. ReaderInv' /\ PurgeInv'
  BY <1>n, <1>u, <1>r DEF ReaderInv, PurgeInv
<1>5. JobsInv'
  BY Zenon, <1>j DEF JobsInv, JobInv
<1>6. GCLease'
  BY Zenon, <1>s, <1>g DEF GCLease
<1>7. GCInv'
  BY Zenon, <1>g DEF GCInv, WorkerInv, BatchInv, Tracked, InputsUnused
<1>8. ObsoleteInvisible'
  BY Zenon, <1>s DEF ObsoleteInvisible
<1>9. CrashConsistent'
  <2> SUFFICES ASSUME NEW m \in {n}, NEW i \in 1 .. n, Visible(i, m)',
                      lsm'[i].type = "kTypeBlobIndex"
               PROVE  Alive(lsm[i].file)' /\ Readable(lsm[i])'
    BY SMTT(30), <1>n, <1>u DEF CrashConsistent
  <2>1. \A k \in 1 .. n : lsm'[k] = lsm[k]
    BY <1>n, <1>u DEF Seqs
  <2>2. Visible(i, n)
    BY <1>n, <2>1 DEF Visible
  <2>3. Alive(lsm[i].file) /\ Found(lsm[i]) /\ lsm'[i] = lsm[i]
    BY Zenon, <1>t, <1>u, <2>1, <2>2 DEF CrashConsistent, Readable
  <2>4. i \in Seqs
    BY <1>n DEF Seqs
  <2>5. lsm[i].file \in File
    BY Zenon, <1>t, <2>1, <2>4 DEF LogInv, EntryOK
  <2>6. state'[lsm[i].file] = "kNormal"
    BY Zenon, <1>s, <2>3, <2>5
  <2> QED BY Zenon, <1>u, <2>3, <2>6 DEF Alive, Readable, Found, Present
<1>10. SnapshotReadable'
  BY Zenon, <1>r DEF SnapshotReadable
<1> QED BY <1>1, <1>2, <1>3, <1>4, <1>5, <1>6, <1>7, <1>8, <1>9, <1>10 DEF IndInv

-----------------------------------------------------------------------------
(* The theorems.                                                           *)

\* A new database satisfies the invariant.
LEMMA InitIndInv == Init => IndInv
<1> USE ConstantsAssumption
<1> SUFFICES ASSUME Init PROVE IndInv
  BY Zenon
<1>1. TypeOK
  <2>1. /\ late \in [Reader -> BOOLEAN] /\ failed \in [Reader -> BOOLEAN]
        /\ bgError \in BOOLEAN
    BY Zenon DEF Init
  <2>2. /\ lsm \in [Seqs -> Entry] /\ idx \in [Reader -> Entry]
        /\ jout \in [Job -> [Seqs -> Entry]]
    BY Zenon, NoEntryType DEF Init
  <2>3. /\ seq \in 0 .. MaxSeq /\ flushed \in 0 .. MaxSeq /\ synced \in 0 .. MaxSeq
        /\ puts \in 0 .. MaxPut /\ crashes \in 0 .. MaxCrash
        /\ nextFile \in 1 .. (MaxFile + 1) /\ oldest \in -1 .. (MaxSeq + 1)
    BY DEF Init
  <2>4. /\ state \in [File -> FileState]
        /\ recs \in [File -> SUBSET BlobRecord]
        /\ obsSeq \in [File -> 0 .. MaxSeq]
        /\ snap \in [Reader -> -1 .. MaxSeq]
    BY DEF Init, FileState
  <2>5. /\ jpc \in [Job -> JobPC]
        /\ jupto \in [Job -> 0 .. MaxSeq]
        /\ jfile \in [Job -> 0 .. MaxFile]
        /\ callbacks \in SUBSET File
    BY DEF Init, JobPC
  <2>6. /\ gpc \in [Worker -> GCPC]
        /\ gmode \in [Worker -> {"kNormal", "kReadOnly", "kFallback"}]
        /\ inputs \in [Worker -> SUBSET File]
        /\ todo \in [Worker -> SUBSET InputRecord]
        /\ batches \in [Worker -> SUBSET Batch]
        /\ out \in [Worker -> 0 .. MaxFile]
    BY DEF Init, GCPC
  <2> QED BY Zenon, <2>1, <2>2, <2>3, <2>4, <2>5, <2>6 DEF TypeOK
<1>2. LogInv /\ FreshInv
  BY DEF Init, LogInv, FreshInv, EntryOK, NoEntry
<1>3. ReaderInv /\ PurgeInv
  BY DEF Init, ReaderInv, PurgeInv
<1>4. JobsInv
  BY Zenon DEF Init, JobsInv, JobInv
<1>5. GCLease /\ GCInv
  BY Zenon DEF Init, GCLease, GCInv, WorkerInv, BatchInv, Tracked, InputsUnused
<1>6. ObsoleteInvisible /\ SnapshotReadable
  BY Zenon DEF Init, ObsoleteInvisible, SnapshotReadable
<1>7. CrashConsistent
  BY DEF Init, CrashConsistent
<1> QED BY <1>1, <1>2, <1>3, <1>4, <1>5, <1>6, <1>7 DEF IndInv

\* Every step preserves the invariant.
LEMMA NextIndInv == IndInv /\ [Next]_vars => IndInv'
<1> SUFFICES ASSUME IndInv, [Next]_vars PROVE IndInv'
  BY Zenon
<1>1. CASE UserNext
  BY Zenon, <1>1, UserNextPreserves DEF UserNext
<1>2. CASE ReaderNext
  BY Zenon, <1>2, ReaderNextPreserves DEF ReaderNext
<1>3. CASE TableNext
  BY Zenon, <1>3, BuildTablePreserves, BuildFailsPreserves, InstallFailsPreserves,
     InstallTablePreserves, OnTableCompletedPreserves DEF TableNext
<1>4. CASE GCNext
  <2>1. PICK w \in Worker :
          \/ \E I \in SUBSET File, mode \in RunMode : PickBlobGC(w, I, mode)
          \/ \E r \in todo[w] : DoRunGC(w, r)
          \/ InstallOutputBlobFiles(w)
          \/ \E b \in batches[w] : RewriteValidKeyToLSM(w, b)
          \/ FlushWAL(w)
          \/ DeleteInputBlobFiles(w)
          \/ GCFails(w)
    BY Zenon, <1>4 DEF GCNext
  <2> QED BY Zenon, <2>1, PickBlobGCPreserves, DoRunGCPreserves, InstallOutputPreserves,
             RewritePreserves, FlushWALPreserves, DeleteInputPreserves,
             GCFailsPreserves
<1>5. CASE PurgeNext
  BY Zenon, <1>5, PurgeObsoleteFilesPreserves, GetObsoleteFilesPreserves DEF PurgeNext
<1>6. CASE \E n \in 0 .. seq : Crash(n)
  BY Zenon, <1>6, CrashPreserves
<1>7. CASE UNCHANGED vars
  <2>1. UNCHANGED <<lsmVars, userVars, bgError, fileVars, readerVars, oldest, jobVars,
                    gcVars>>
    BY Zenon, <1>7 DEF vars
  <2>2. TypeOK'
    BY Zenon, <2>1 DEF IndInv, TypeOK, lsmVars, userVars, fileVars, readerVars, jobVars, gcVars
  <2>3. LogInv' /\ FreshInv' /\ GCLease' /\ GCInv' /\ CrashConsistent'
    BY Zenon, <2>1, LogFrame
  <2>4. UNCHANGED <<seq, lsm, flushed, state, recs, obsSeq, snap, late, idx, failed,
                    jpc, jupto, jfile, jout, callbacks>>
    BY Zenon, <2>1 DEF lsmVars, fileVars, readerVars, jobVars
  <2>5. ReaderInv' /\ PurgeInv'
    BY ZenonT(30), <2>1, <2>4 DEF IndInv, ReaderInv, PurgeInv, EntryOK
  <2>6. ObsoleteInvisible'
    BY SMTT(30), <2>4 DEF IndInv, ObsoleteInvisible, Visible
  <2>7. SnapshotReadable'
    BY SMTT(30), <2>4 DEF IndInv, SnapshotReadable, Visible, Readable, Found, Present, Alive
  <2>8. JobsInv'
    BY Zenon, <2>1, <2>4, JobsFrame
  <2> QED BY Zenon, <2>2, <2>3, <2>5, <2>6, <2>7, <2>8 DEF IndInv
<1> QED BY Zenon, <1>1, <1>2, <1>3, <1>4, <1>5, <1>6, <1>7 DEF Next

\* IndInv is an invariant of the store, for any number of keys, readers and GC
\* workers and any bounds.
THEOREM Invariance == Spec => []IndInv
BY InitIndInv, NextIndInv, PTL DEF Spec

\* The variables stay within their types.
THEOREM TypeCorrect == Spec => []TypeOK
<1>1. IndInv => TypeOK
  BY Zenon DEF IndInv
<1> QED BY <1>1, Invariance, PTL

\* At every point to which the base DB may recover, each blob index that a read
\* would find leads to a record of a file that the blob manifest holds alive:
\* the order in which BlobGCJob::Finish installs, rewrites and deletes, and
\* the order of BatchFinishFiles and the installation of a table, leave no
\* point at which a crash loses a value.
THEOREM CrashSafety == Spec => []CrashConsistent
<1>1. IndInv => CrashConsistent
  BY Zenon DEF IndInv
<1> QED BY <1>1, Invariance, PTL

\* A snapshot that was not taken within the window of a running purge keeps every
\* blob it can see: no Get on it returns Corruption.
THEOREM SnapshotSafety == Spec => []SnapshotReadable
<1>1. IndInv => SnapshotReadable
  BY Zenon DEF IndInv
<1> QED BY <1>1, Invariance, PTL

\* No snapshot at or after the obsolete_sequence of an obsolete file sees it.
THEOREM ObsoleteSafety == Spec => []ObsoleteInvisible
<1>1. IndInv => ObsoleteInvisible
  BY Zenon DEF IndInv
<1> QED BY <1>1, Invariance, PTL

\* A file in state kBeingGC or kPendingGC belongs to exactly one running job.
THEOREM LeaseSafety == Spec => []GCLease
<1>1. IndInv => GCLease
  BY Zenon DEF IndInv
<1> QED BY <1>1, Invariance, PTL

-----------------------------------------------------------------------------
(* The store implements SnapshotKV.  First, what a read finds in the log,  *)
(* whatever has become of the blob files.                                  *)

\* Entry i is what a read of k at n finds.
Hit(i, n, k) == Visible(i, n) /\ lsm[i].key = k

\* The value of key k at sequence number n.
Val(n, k) ==
  IF \E i \in 1 .. n : Hit(i, n, k)
  THEN lsm[CHOOSE i \in 1 .. n : Hit(i, n, k)].val
  ELSE NotFound

Vals(n) == [k \in Key |-> Val(n, k)]

NoVals == [k \in Key |-> Missing]

SnapshotVals(r) == IF snap[r] = NoSnap \/ late[r] THEN NoVals ELSE Vals(snap[r])

\* The state of SnapshotKV, in these terms.
DB      == Vals(seq)
Durable == {Vals(n) : n \in synced .. seq}
View    == [r \in Reader |-> SnapshotVals(r)]

\* The entry a read finds gives the value.
LEMMA ValHit ==
  ASSUME TypeOK, NEW n \in 0 .. MaxSeq, NEW k, NEW i \in 1 .. n, Hit(i, n, k)
  PROVE  Val(n, k) = lsm[i].val /\ (CHOOSE j \in 1 .. n : Hit(j, n, k)) = i
<1> DEFINE c == CHOOSE j \in 1 .. n : Hit(j, n, k)
<1>1. c \in 1 .. n /\ Hit(c, n, k)
  BY Zenon
<1>2. c = i
  BY Zenon, <1>1, VisibleUnique DEF Hit
<1> QED BY Zenon, <1>2 DEF Val

\* A read that finds nothing.
LEMMA ValNone ==
  ASSUME NEW n, NEW k, \A i \in 1 .. n : ~Hit(i, n, k)
  PROVE  Val(n, k) = NotFound
BY Zenon DEF Val

\* A read whose blob, if it needs one, is there returns the value.
LEMMA ReadAtVal ==
  ASSUME TypeOK, NEW n \in 0 .. MaxSeq, NEW k, NEW U,
         \A i \in 1 .. n : Visible(i, n) /\ lsm[i].type = "kTypeBlobIndex" =>
           Found(lsm[i]) /\ lsm[i].file \in U
  PROVE  ReadAt(n, k, U) = Val(n, k)
<1>1. CASE \A i \in 1 .. n : ~Hit(i, n, k)
  BY Zenon, <1>1 DEF ReadAt, Val, Hit
<1>2. ASSUME NEW i \in 1 .. n, Hit(i, n, k) PROVE ReadAt(n, k, U) = Val(n, k)
  <2>c. (CHOOSE j \in 1 .. n : Hit(j, n, k)) = i
    BY Zenon, <1>2, ValHit
  <2>1. (CHOOSE j \in 1 .. n : Visible(j, n) /\ lsm[j].key = k) = i
    BY Zenon, <2>c DEF Hit
  <2>2. Val(n, k) = lsm[i].val
    BY Zenon, <1>2, ValHit
  <2>3. \E j \in 1 .. n : Visible(j, n) /\ lsm[j].key = k
    BY Zenon, <1>2 DEF Hit
  <2>4. lsm[i].type = "kTypeBlobIndex" => Found(lsm[i]) /\ lsm[i].file \in U
    BY Zenon, <1>2 DEF Hit
  <2> QED BY Zenon, <2>1, <2>2, <2>3, <2>4 DEF ReadAt
<1> QED BY Zenon, <1>1, <1>2

\* Under the invariant, the blobs of every read that may happen are there: the
\* refinement mapping is the log's contents.
LEMMA MappingVals ==
  ASSUME IndInv
  PROVE  /\ ContentsAt(seq) = DB
         /\ {ContentsAt(n) : n \in synced .. seq} = Durable
         /\ [r \in Reader |-> SnapshotContents(r)] = View
<1> USE ConstantsAssumption
<1>t. TypeOK /\ LogInv
  BY Zenon DEF IndInv
<1>f. ASSUME NEW n \in 0 .. MaxSeq, NEW i \in 1 .. n, lsm[i].type = "kTypeBlobIndex"
      PROVE  lsm[i].file \in File
  <2>1. i \in Seqs
    BY DEF Seqs
  <2> QED BY Zenon, <1>t, <1>f, <2>1 DEF LogInv, EntryOK
<1>1. ASSUME NEW n \in synced .. seq PROVE ContentsAt(n) = Vals(n)
  <2>1. n \in 0 .. MaxSeq
    BY <1>t DEF TypeOK
  <2>2. \A i \in 1 .. n : Visible(i, n) /\ lsm[i].type = "kTypeBlobIndex" =>
          Found(lsm[i]) /\ lsm[i].file \in {f \in File : Alive(f)}
    BY Zenon, <1>f, <2>1 DEF IndInv, CrashConsistent, Readable
  <2> QED BY Zenon, <1>t, <2>1, <2>2, ReadAtVal DEF ContentsAt, Vals
<1>2. seq \in synced .. seq
  BY <1>t DEF TypeOK, LogInv
<1>3. ASSUME NEW r \in Reader PROVE SnapshotContents(r) = SnapshotVals(r)
  <2>1. CASE snap[r] = NoSnap \/ late[r]
    BY Zenon, <2>1 DEF SnapshotContents, SnapshotVals, NoVals
  <2>2. CASE snap[r] # NoSnap /\ ~late[r]
    <3>1. snap[r] \in 0 .. MaxSeq
      BY <1>t, <2>2 DEF TypeOK
    <3>2. \A i \in 1 .. snap[r] :
            Visible(i, snap[r]) /\ lsm[i].type = "kTypeBlobIndex" =>
              Found(lsm[i]) /\ lsm[i].file \in {f \in File : Present(f)}
      BY Zenon, <1>f, <2>2, <3>1 DEF IndInv, SnapshotReadable, Readable, Found
    <3>3. \A k \in Key : ReadAt(snap[r], k, {f \in File : Present(f)}) = Val(snap[r], k)
      BY Zenon, <1>t, <3>1, <3>2, ReadAtVal
    <3> QED BY Zenon, <2>2, <3>3 DEF SnapshotContents, SnapshotVals, Vals
  <2> QED BY Zenon, <2>1, <2>2
<1> QED BY Zenon, <1>1, <1>2, <1>3 DEF DB, Durable, View

\* Both, as a state predicate.
ValOK ==
  \A n \in 0 .. MaxSeq, k \in Key :
    /\ \A i \in 1 .. n : Hit(i, n, k) => Val(n, k) = lsm[i].val
    /\ (\A i \in 1 .. n : ~Hit(i, n, k)) => Val(n, k) = NotFound

\* ... which holds in all states of the right types.
LEMMA ValsOK == TypeOK => ValOK
BY Zenon, ValHit, ValNone DEF ValOK

\* When what a read of k finds is the same entry with the same value, or is a
\* tombstone that is gone, the value is the same.
LEMMA SameVal ==
  ASSUME ValOK, ValOK', NEW n \in 0 .. MaxSeq, NEW m \in 0 .. MaxSeq, NEW k \in Key,
         \A i \in 1 .. n : Hit(i, n, k) =>
           \/ \E j \in 1 .. m : Hit(j, m, k)' /\ lsm'[j].val = lsm[i].val
           \/ lsm[i].val = NotFound /\ \A j \in 1 .. m : ~Hit(j, m, k)',
         \A j \in 1 .. m : Hit(j, m, k)' => \E i \in 1 .. n : Hit(i, n, k)
  PROVE  Val(m, k)' = Val(n, k)
<1>h. ASSUME NEW j \in 1 .. m, Hit(j, m, k)' PROVE Val(m, k)' = lsm'[j].val
  BY Zenon, <1>h DEF ValOK
<1>n. ASSUME \A j \in 1 .. m : ~Hit(j, m, k)' PROVE Val(m, k)' = NotFound
  BY Zenon, <1>n DEF ValOK
<1>1. CASE \A i \in 1 .. n : ~Hit(i, n, k)
  BY Zenon, <1>1, <1>n DEF ValOK
<1>2. ASSUME NEW i \in 1 .. n, Hit(i, n, k) PROVE Val(m, k)' = Val(n, k)
  <2>1. Val(n, k) = lsm[i].val
    BY Zenon, <1>2 DEF ValOK
  <2> QED BY Zenon, <1>2, <1>h, <1>n, <2>1
<1> QED BY Zenon, <1>1, <1>2

\* Appending an entry leaves the older contents as they are, and the latest
\* ones change where the entry says.
LEMMA AppendVals ==
  ASSUME IndInv, ValOK', NEW e \in Entry, EntryOK(e), e.type # "none", AppendEntry(e)
  PROVE  /\ \A n \in 0 .. seq : Vals(n)' = Vals(n)
         /\ seq' = seq + 1
         /\ DB' = [DB EXCEPT ![e.key] = e.val]
<1> USE ConstantsAssumption
<1>t. TypeOK /\ LogInv /\ ValOK
  BY Zenon, ValsOK DEF IndInv
<1>v. /\ \A i \in 1 .. seq : lsm'[i] = lsm[i]
      /\ lsm'[seq + 1] = e
      /\ \A n \in 0 .. seq : \A i \in 1 .. n : Visible(i, n)' <=> Visible(i, n)
      /\ \A n \in {seq + 1} : \A i \in 1 .. seq : Visible(i, n)' =>
           Visible(i, seq) /\ lsm[i].key # e.key
  BY Zenon, <1>t, AppendVisible
<1>s. seq' = seq + 1 /\ seq \in 0 .. MaxSeq /\ seq + 1 \in 0 .. MaxSeq
  BY <1>t DEF AppendEntry, TypeOK
<1>1. ASSUME NEW n \in 0 .. seq PROVE Vals(n)' = Vals(n)
  <2>1. n \in 0 .. MaxSeq /\ \A i \in 1 .. n : i \in 1 .. seq
    BY <1>s
  <2>2. ASSUME NEW k \in Key PROVE Val(n, k)' = Val(n, k)
    <3>1. \A i \in 1 .. n : lsm'[i] = lsm[i] /\ (Hit(i, n, k)' <=> Hit(i, n, k))
      BY Zenon, <1>v, <2>1 DEF Hit
    <3> QED BY Zenon, <1>t, <2>1, <3>1, SameVal
  <2> QED BY Zenon, <2>2 DEF Vals
<1>m. PICK m : m = seq + 1
  BY Zenon
<1>2. \A i \in 1 .. m : i = m \/ i \in 1 .. seq
  BY <1>s, <1>m
<1>w. m \in 1 .. m /\ \A i \in 1 .. seq : i \in 1 .. m
  BY <1>s, <1>m
<1>3. Visible(m, m)'
  BY <1>v, <1>s, <1>m DEF Visible
<1>4. ASSUME NEW i \in 1 .. seq, Visible(i, seq), lsm[i].key # e.key
      PROVE  Visible(i, m)'
  <2>1. lsm'[i] = lsm[i] /\ lsm[i].type # "none"
    BY Zenon, <1>v, <1>4 DEF Visible
  <2>2. \A j \in (i + 1) .. m : lsm'[j].key # lsm[i].key
    <3> SUFFICES ASSUME NEW j \in (i + 1) .. m PROVE lsm'[j].key # lsm[i].key
      OBVIOUS
    <3>1. CASE j = m
      BY Zenon, <1>v, <1>m, <1>4, <3>1
    <3>2. CASE j # m
      <4>1. j \in (i + 1) .. seq /\ j \in 1 .. seq
        BY <1>s, <1>m, <3>2
      <4> QED BY Zenon, <1>v, <1>4, <4>1 DEF Visible
    <3> QED BY Zenon, <3>1, <3>2
  <2> QED BY Zenon, <1>w, <2>1, <2>2 DEF Visible
<1>v2. \A i \in 1 .. seq : Visible(i, m)' => Visible(i, seq) /\ lsm[i].key # e.key
  BY Zenon, <1>v, <1>m
<1>5. Val(m, e.key)' = e.val
  <2>1. Hit(m, m, e.key)' /\ lsm'[m].val = e.val
    BY Zenon, <1>v, <1>3, <1>m DEF Hit
  <2>2. e.key \in Key
    BY Zenon DEF EntryOK
  <2> QED BY Zenon, <1>s, <1>w, <2>1, <2>2, <1>m, <1>t DEF ValOK
<1>6. ASSUME NEW k \in Key, k # e.key PROVE Val(m, k)' = Val(seq, k)
  <2>1. ASSUME NEW i \in 1 .. seq, Hit(i, seq, k)
        PROVE  i \in 1 .. m /\ Hit(i, m, k)' /\ lsm'[i].val = lsm[i].val
    BY Zenon, <1>v, <1>w, <1>4, <1>6, <2>1 DEF Hit
  <2>2. ASSUME NEW j \in 1 .. m, Hit(j, m, k)' PROVE j \in 1 .. seq /\ Hit(j, seq, k)
    <3>1. j # m
      BY Zenon, <1>v, <1>6, <1>m, <2>2 DEF Hit
    <3> QED BY Zenon, <1>v, <1>v2, <1>2, <2>2, <3>1 DEF Hit
  <2>3. m \in 0 .. MaxSeq
    BY Zenon, <1>s, <1>m
  <2> QED BY Zenon, <1>t, <1>s, <2>1, <2>2, <2>3, SameVal
<1>7. e.key \in Key
  BY Zenon DEF EntryOK
<1>8. Vals(m)' = [Vals(seq) EXCEPT ![e.key] = e.val]
  BY Zenon, <1>5, <1>6, <1>7 DEF Vals
<1>9. DB' = Vals(m)'
  BY Zenon, <1>s, <1>m DEF DB
<1> QED BY Zenon, <1>s, <1>1, <1>8, <1>9 DEF DB

\* A rewritten entry has the value of the old one.
LEMMA RewritesVal ==
  ASSUME NEW e, NEW o, NEW f, Rewrites(e, o, f)
  PROVE  e.val = o.val
BY DEF Rewrites, ValueEntry, BlobEntry

\* Installing a table changes no value at the sequence numbers that matter.
LEMMA InstallTableVals ==
  ASSUME IndInv, ValOK, ValOK', NEW j \in Job, InstallTable(j), NEW n \in 0 .. seq,
         n >= synced' \/ \E r \in Reader : snap[r] = n
  PROVE  Vals(n)' = Vals(n)
<1> USE ConstantsAssumption
<1>t. TypeOK /\ LogInv
  BY Zenon DEF IndInv
<1>j. JobInv(j) /\ jpc[j] = "built"
  BY Zenon DEF IndInv, JobsInv, InstallTable
<1> DEFINE I == JobInput(j, jupto[j])
<1>r. /\ I \subseteq Seqs
      /\ \A m \in I : m <= synced' /\ m <= seq
      /\ synced' \in 0 .. MaxSeq
      /\ \A m \in I : lsm'[m] = jout[j][m]
      /\ \A m \in Seqs : m \notin I => lsm'[m] = lsm[m]
      /\ \A m \in I : lsm'[m] # NoEntry => Rewrites(lsm'[m], lsm[m], jfile[j])
  BY Zenon, InstallTableRange
<1>d. \A k \in I : jout[j][k] = NoEntry /\ lsm[k] # NoEntry =>
         \/ \E m \in I : /\ k < m
                         /\ lsm[m].key = lsm[k].key
                         /\ \A r \in Reader : snap[r] \notin k .. (m - 1)
         \/ lsm[k].type = "kTypeDeletion"
  BY Zenon, <1>j DEF JobInv
<1> HIDE DEF I
<1>n. 1 .. n \subseteq Seqs /\ n \in Nat /\ n \in 0 .. MaxSeq
  BY <1>t DEF TypeOK, Seqs
<1>k. ASSUME NEW q \in Seqs
      PROVE  /\ lsm'[q] = NoEntry \/ lsm'[q] = lsm[q] \/ Rewrites(lsm'[q], lsm[q], jfile[j])
             /\ lsm'[q] # NoEntry => /\ lsm'[q].key = lsm[q].key
                                     /\ lsm'[q].val = lsm[q].val
                                     /\ lsm[q].type # "none" => lsm'[q].type # "none"
  <2>1. lsm'[q] = NoEntry \/ lsm'[q] = lsm[q] \/ Rewrites(lsm'[q], lsm[q], jfile[j])
    BY Zenon, <1>r
  <2>2. EntryOK(lsm[q])
    BY Zenon, <1>t DEF LogInv
  <2>3. CASE Rewrites(lsm'[q], lsm[q], jfile[j])
    <3>1. lsm'[q].key = lsm[q].key /\ lsm'[q].val = lsm[q].val
      BY ZenonT(40), <1>t, <2>2, <2>3, RewritesKey, RewritesVal
    <3>2. lsm[q].type # "none" => lsm'[q].type # "none"
      BY <2>3 DEF Rewrites, ValueEntry, BlobEntry
    <3> QED BY Zenon, <2>1, <3>1, <3>2
  <2> QED BY Zenon, <2>1, <2>3
<1>z. NoEntry.key \notin Key
  BY DEF NoEntry
<1>1. ASSUME NEW k \in Key, NEW i \in 1 .. n, Hit(i, n, k)'
      PROVE  Hit(i, n, k) /\ lsm'[i].val = lsm[i].val /\ lsm'[i] # NoEntry
  <2>1. Visible(i, n)' /\ lsm'[i].key = k /\ i \in Seqs
    BY Zenon, <1>n, <1>1 DEF Hit
  <2>2. Visible(i, n)
    BY Zenon, <2>1, InstallTableVisible
  <2>3. lsm'[i] # NoEntry
    BY Zenon, <1>z, <2>1
  <2> QED BY Zenon, <1>k, <2>1, <2>2, <2>3 DEF Hit
<1>2. ASSUME NEW k \in Key, NEW i \in 1 .. n, Hit(i, n, k), lsm'[i] # NoEntry
      PROVE  Hit(i, n, k)' /\ lsm'[i].val = lsm[i].val
  <2>1. Visible(i, n) /\ lsm[i].key = k /\ i \in Seqs /\ lsm[i].type # "none"
    BY Zenon, <1>n, <1>2 DEF Hit, Visible
  <2>2. lsm'[i].key = k /\ lsm'[i].val = lsm[i].val /\ lsm'[i].type # "none"
    BY Zenon, <1>2, <1>k, <2>1
  <2>3. ASSUME NEW q \in (i + 1) .. n PROVE lsm'[q].key # k
    <3>1. q \in Seqs
      BY <1>n
    <3>2. lsm[q].key # k
      BY Zenon, <2>1 DEF Visible
    <3> QED BY Zenon, <1>k, <1>z, <3>1, <3>2
  <2> QED BY Zenon, <2>2, <2>3 DEF Hit, Visible
<1>3. ASSUME NEW k \in Key, NEW i \in 1 .. n, Hit(i, n, k), lsm'[i] = NoEntry
      PROVE  lsm[i].val = NotFound /\ \A q \in 1 .. n : ~Hit(q, n, k)'
  <2>1. Visible(i, n) /\ lsm[i].key = k /\ i \in Seqs /\ lsm[i].type # "none"
    BY Zenon, <1>n, <1>3 DEF Hit, Visible
  <2>2. lsm[i] # NoEntry
    BY Zenon, <1>z, <2>1
  <2>3. i \in I /\ jout[j][i] = NoEntry
    BY Zenon, <1>r, <1>3, <2>1, <2>2
  <2>4. ASSUME NEW m \in I, i < m, lsm[m].key = lsm[i].key,
               \A r \in Reader : snap[r] \notin i .. (m - 1)
        PROVE  FALSE
    <3>1. m \in Nat /\ m <= synced' /\ i \in Nat /\ i <= n
      BY <1>r, <1>n, <2>1 DEF Seqs
    <3>2. n \notin i .. (m - 1) \/ n >= synced'
      BY Zenon, <2>4
    <3>3. m \in (i + 1) .. n
      BY <1>n, <1>r, <2>4, <3>1, <3>2
    <3> QED BY ZenonT(40), <2>1, <2>4, <3>3 DEF Visible
  <2>5. lsm[i].type = "kTypeDeletion"
    BY Zenon, <1>d, <2>2, <2>3, <2>4
  <2>6. lsm[i].val = NotFound
    BY Zenon, <1>t, <2>1, <2>5 DEF LogInv, EntryOK, NotFound
  <2>7. ASSUME NEW q \in 1 .. n, Hit(q, n, k)' PROVE FALSE
    <3>1. Hit(q, n, k) /\ lsm'[q] # NoEntry
      BY Zenon, <1>1, <2>7
    <3>2. q = i
      BY Zenon, <1>t, <1>n, <2>1, <3>1, VisibleUnique DEF Hit
    <3> QED BY Zenon, <1>3, <3>1, <3>2
  <2> QED BY Zenon, <2>6, <2>7
<1>4. ASSUME NEW k \in Key PROVE Val(n, k)' = Val(n, k)
  <2>1. \A i \in 1 .. n : Hit(i, n, k) =>
           \/ \E q \in 1 .. n : Hit(q, n, k)' /\ lsm'[q].val = lsm[i].val
           \/ lsm[i].val = NotFound /\ \A q \in 1 .. n : ~Hit(q, n, k)'
    BY Zenon, <1>2, <1>3
  <2>2. \A i \in 1 .. n : Hit(i, n, k)' => \E q \in 1 .. n : Hit(q, n, k)
    BY Zenon, <1>1
  <2> QED BY Zenon, <1>n, <2>1, <2>2, SameVal
<1> QED BY Zenon, <1>4 DEF Vals

\* Steps that leave the log alone, and those that change only how much of it is
\* safe, change no value.
LEMMA LogValues ==
  ASSUME UNCHANGED lsm
  PROVE  \A n : Vals(n)' = Vals(n)
<1>1. \A i, n, k : Hit(i, n, k)' = Hit(i, n, k)
  BY Zenon DEF Hit, Visible
<1>2. \A n, k : Val(n, k)' = Val(n, k)
  BY Zenon DEF Val, Hit, Visible
<1> QED BY Zenon, <1>2 DEF Vals

\* A step that changes neither the log nor the snapshots changes nothing for users.
LEMMA Stutter ==
  ASSUME UNCHANGED <<seq, lsm, synced, snap, late>>
  PROVE  UNCHANGED <<DB, Durable, View>>
<1>1. \A n : Vals(n)' = Vals(n)
  BY Zenon, LogValues
<1>2. DB' = DB
  BY Zenon, <1>1 DEF DB
<1>3. Durable' = Durable
  BY Zenon, <1>1 DEF Durable
<1>4. \A r : SnapshotVals(r)' = SnapshotVals(r)
  BY Zenon, <1>1 DEF SnapshotVals, NoVals
<1>5. View' = View
  BY Zenon, <1>4 DEF View
<1> QED BY Zenon, <1>2, <1>3, <1>5

\* The snapshots of readers that a step leaves alone.
LEMMA ViewSame ==
  ASSUME IndInv, UNCHANGED <<snap, late>>,
         \A r \in Reader : snap[r] \in 0 .. seq => Vals(snap[r])' = Vals(snap[r])
  PROVE  View' = View
<1>1. ASSUME NEW r \in Reader PROVE SnapshotVals(r)' = SnapshotVals(r)
  <2>1. CASE snap[r] = NoSnap
    BY Zenon, <2>1 DEF SnapshotVals, NoVals
  <2>2. CASE snap[r] # NoSnap
    <3>1. snap[r] \in 0 .. seq
      BY <2>2 DEF IndInv, TypeOK, ReaderInv
    <3> QED BY ZenonT(40), <3>1 DEF SnapshotVals, NoVals
  <2> QED BY Zenon, <2>1, <2>2
<1> QED BY Zenon, <1>1 DEF View

\* An entry appended to the log changes one key, and what a crash may leave
\* grows by the new contents.
LEMMA AppendMaps ==
  ASSUME IndInv, ValOK', NEW e \in Entry, EntryOK(e), e.type # "none",
         AppendEntry(e), UNCHANGED <<synced, snap, late>>
  PROVE  /\ DB' = [DB EXCEPT ![e.key] = e.val]
         /\ Durable' = Durable \cup {DB'}
         /\ View' = View
<1>1. /\ \A n \in 0 .. seq : Vals(n)' = Vals(n)
      /\ seq' = seq + 1
      /\ DB' = [DB EXCEPT ![e.key] = e.val]
  BY Zenon, AppendVals
<1>m. PICK m : m = seq + 1
  BY Zenon
<1>2. /\ synced .. m = (synced .. seq) \cup {m}
      /\ \A n \in synced .. seq : n \in 0 .. seq
  BY <1>m DEF IndInv, TypeOK, LogInv
<1>3. Durable' = Durable \cup {DB'}
  <2>1. Durable' = {Vals(n)' : n \in synced .. m}
    BY Zenon, <1>1, <1>m DEF Durable
  <2>2. DB' = Vals(m)'
    BY Zenon, <1>1, <1>m DEF DB
  <2>3. \A n \in synced .. seq : Vals(n)' = Vals(n)
    BY Zenon, <1>1, <1>2
  <2>4. Durable = {Vals(n)' : n \in synced .. seq}
    BY Zenon, <2>3 DEF Durable
  <2> QED BY Zenon, <1>2, <2>1, <2>2, <2>4
<1>4. View' = View
  BY Zenon, <1>1, ViewSame
<1> QED BY Zenon, <1>1, <1>3, <1>4

\* A write of the user.
LEMMA WriteMaps ==
  ASSUME IndInv, ValOK', NEW k \in Key, Put(k) \/ Delete(k)
  PROVE  /\ puts' = puts + 1 /\ crashes' = crashes
         /\ \E v \in (1 .. MaxPut) \cup {NotFound} : DB' = [DB EXCEPT ![k] = v]
         /\ Durable' = Durable \cup {DB'}
         /\ View' = View
<1> USE ConstantsAssumption
<1>t. TypeOK
  BY Zenon DEF IndInv
<1>u. puts' = puts + 1 /\ puts < MaxPut /\ UNCHANGED <<crashes, synced, snap, late>>
  BY Zenon DEF Put, Delete, readerVars
<1>e. PICK e \in {ValueEntry(k, puts + 1), Tombstone(k)} : AppendEntry(e)
  BY Zenon DEF Put, Delete
<1>1. puts + 1 \in 1 .. MaxPut
  BY <1>t, <1>u DEF TypeOK
<1>2. /\ e \in Entry /\ EntryOK(e) /\ e.type # "none" /\ e.key = k
      /\ e.val \in (1 .. MaxPut) \cup {NotFound}
  <2>1. CASE e = ValueEntry(k, puts + 1)
    BY <1>1, <2>1 DEF ValueEntry, Entry, EntryType, EntryOK
  <2>2. CASE e = Tombstone(k)
    BY <1>1, <2>2 DEF Tombstone, Entry, EntryType, EntryOK, NotFound
  <2> QED BY Zenon, <1>e, <2>1, <2>2
<1> QED BY Zenon, <1>u, <1>e, <1>2, AppendMaps

\* A write-back of GC gives a key the value it has.
LEMMA RewriteMaps ==
  ASSUME IndInv, ValOK', NEW w \in Worker, NEW b \in batches[w],
         RewriteValidKeyToLSM(w, b)
  PROVE  UNCHANGED <<DB, Durable, View>>
<1> USE ConstantsAssumption
<1>t. TypeOK /\ ValOK
  BY Zenon, ValsOK DEF IndInv
<1>u. UNCHANGED <<synced, snap, late>>
  BY Zenon DEF RewriteValidKeyToLSM, readerVars
<1>1. CASE UNCHANGED <<seq, lsm>>
  BY Zenon, <1>u, <1>1, Stutter
<1>2. ASSUME Current(b), NEW e, AppendEntry(e),
             e = IF b.to = NoFile THEN ValueEntry(b.key, b.val)
                 ELSE BlobEntry(b.key, b.val, b.to)
      PROVE  UNCHANGED <<DB, Durable, View>>
  <2>b. b \in Batch
    BY Zenon, <1>t DEF TypeOK
  <2>1. /\ e \in Entry /\ EntryOK(e) /\ e.type # "none"
        /\ e.key = b.key /\ e.val = b.val /\ b.key \in Key
    BY <1>2, <2>b DEF Batch, ValueEntry, BlobEntry, Entry, EntryType, EntryOK, File
  <2>2. DB[b.key] = b.val
    <3>1. PICK i \in 1 .. seq : Visible(i, seq) /\ lsm[i] = BlobEntry(b.key, b.val, b.file)
      BY Zenon, <1>2 DEF Current
    <3>2. lsm[i].key = b.key /\ lsm[i].val = b.val
      BY <3>1 DEF BlobEntry
    <3>3. Val(seq, b.key) = b.val
      <4>1. seq \in 0 .. MaxSeq /\ Hit(i, seq, b.key)
        BY Zenon, <1>t, <3>1, <3>2 DEF Hit, TypeOK
      <4> QED BY Zenon, <1>t, <2>1, <3>2, <4>1 DEF ValOK
    <3> QED BY Zenon, <2>1, <3>3 DEF DB, Vals
  <2>3. DB' = [DB EXCEPT ![b.key] = b.val] /\ Durable' = Durable \cup {DB'} /\ View' = View
    BY Zenon, <1>2, <1>u, <2>1, AppendMaps
  <2>4. DB' = DB
    BY Zenon, <2>2, <2>3 DEF DB, Vals
  <2>5. DB \in Durable
    <3>1. seq \in synced .. seq
      BY DEF IndInv, TypeOK, LogInv
    <3> QED BY ZenonT(40), <3>1 DEF DB, Durable
  <2> QED BY Zenon, <2>3, <2>4, <2>5
<1> QED BY Zenon, <1>1, <1>2 DEF RewriteValidKeyToLSM

\* The installation of a table.
LEMMA InstallMaps ==
  ASSUME IndInv, ValOK', NEW j \in Job, InstallTable(j)
  PROVE  /\ UNCHANGED <<puts, crashes, DB, View>>
         /\ Durable' \subseteq Durable
         /\ DB \in Durable'
<1>t. TypeOK /\ LogInv /\ ValOK
  BY Zenon, ValsOK DEF IndInv
<1>u. UNCHANGED <<seq, puts, crashes, snap, late>>
  BY Zenon DEF InstallTable, userVars, readerVars
<1>s. synced <= synced' /\ synced' <= seq /\ synced' \in 0 .. MaxSeq
  BY Zenon, InstallTableRange
<1>w. synced' \in Nat /\ seq \in Nat /\ synced \in Nat
  BY <1>t, <1>s, ConstantsAssumption DEF TypeOK
<1>1. ASSUME NEW n \in synced' .. seq PROVE n \in synced .. seq /\ Vals(n)' = Vals(n)
  <2>1. n \in 0 .. seq /\ n >= synced' /\ n \in synced .. seq
    BY <1>s, <1>w
  <2> QED BY Zenon, <1>t, <2>1, InstallTableVals
<1>2. seq \in synced' .. seq
  BY <1>s, <1>w
<1>3. Durable' = {Vals(n) : n \in synced' .. seq}
  <2>1. Durable' = {Vals(n)' : n \in synced' .. seq}
    BY Zenon, <1>u DEF Durable
  <2> QED BY Zenon, <1>1, <2>1
<1>4. DB' = DB
  BY Zenon, <1>u, <1>1, <1>2 DEF DB
<1>5. View' = View
  <2>1. \A r \in Reader : snap[r] \in 0 .. seq => Vals(snap[r])' = Vals(snap[r])
    <3>1. \A r \in Reader, n \in 0 .. seq : snap[r] = n => Vals(n)' = Vals(n)
      BY Zenon, <1>t, InstallTableVals
    <3> QED BY Zenon, <1>u, <3>1
  <2> QED BY Zenon, <1>u, <2>1, ViewSame
<1> QED BY Zenon, <1>u, <1>1, <1>2, <1>3, <1>4, <1>5 DEF DB, Durable

\* The sync of the WAL.
LEMMA FlushWALMaps ==
  ASSUME IndInv, NEW w \in Worker, FlushWAL(w)
  PROVE  /\ UNCHANGED <<puts, crashes, DB, View>>
         /\ Durable' \subseteq Durable
         /\ DB \in Durable'
<1>u. UNCHANGED <<seq, lsm, puts, crashes, snap, late>> /\ synced' = seq
  BY Zenon DEF FlushWAL, userVars, readerVars
<1>1. \A n : Vals(n)' = Vals(n)
  BY Zenon, <1>u, LogValues
<1>2. seq .. seq = {seq} /\ seq \in synced .. seq
  BY DEF IndInv, TypeOK, LogInv
<1>3. Durable' = {DB}
  BY Zenon, <1>u, <1>1, <1>2 DEF Durable, DB
<1>4. DB' = DB /\ DB \in Durable
  BY Zenon, <1>u, <1>1, <1>2 DEF Durable, DB
<1>5. View' = View
  BY Zenon, <1>u, <1>1, ViewSame
<1> QED BY Zenon, <1>u, <1>3, <1>4, <1>5

\* A crash.
LEMMA CrashMaps ==
  ASSUME IndInv, ValOK', NEW n \in 0 .. seq, Crash(n)
  PROVE  /\ puts' = puts /\ crashes' = crashes + 1
         /\ DB' \in Durable
         /\ Durable' = {DB'}
         /\ View' = [r \in Reader |-> NoVals]
<1> USE ConstantsAssumption
<1>t. TypeOK /\ LogInv /\ ValOK
  BY Zenon, ValsOK DEF IndInv
<1>u. /\ n \in synced .. seq
      /\ seq' = n /\ synced' = n /\ puts' = puts /\ crashes' = crashes + 1
      /\ lsm' = [i \in Seqs |-> IF i <= n THEN lsm[i] ELSE NoEntry]
      /\ snap' = [r \in Reader |-> NoSnap]
  BY Zenon DEF Crash
<1>1. n \in 0 .. MaxSeq /\ \A i \in 1 .. n : i \in Seqs /\ i <= n
  BY <1>t DEF TypeOK, Seqs
<1>2. \A i \in 1 .. n : lsm'[i] = lsm[i]
  BY Zenon, <1>u, <1>1
<1>3. \A i \in 1 .. n : \A q \in (i + 1) .. n : q \in 1 .. n
  BY <1>1
<1>4. Vals(n)' = Vals(n)
  <2>1. ASSUME NEW k \in Key PROVE Val(n, k)' = Val(n, k)
    <3>1. \A i \in 1 .. n : Hit(i, n, k)' <=> Hit(i, n, k)
      BY Zenon, <1>2, <1>3 DEF Hit, Visible
    <3> QED BY Zenon, <1>t, <1>1, <1>2, <3>1, SameVal
  <2> QED BY Zenon, <2>1 DEF Vals
<1>5. n .. n = {n}
  BY <1>1
<1>6. DB' = Vals(n)
  BY Zenon, <1>u, <1>4 DEF DB
<1>7. DB' \in Durable
  BY Zenon, <1>u, <1>6 DEF Durable
<1>8. Durable' = {DB'}
  BY Zenon, <1>u, <1>5 DEF Durable, DB
<1>9. View' = [r \in Reader |-> NoVals]
  BY Zenon, <1>u DEF View, SnapshotVals, NoVals
<1> QED BY Zenon, <1>u, <1>7, <1>8, <1>9

\* The steps of readers.
LEMMA ReaderMaps ==
  ASSUME IndInv, NEW r \in Reader, GetSnapshot(r) \/ ReleaseSnapshot(r)
  PROVE  /\ UNCHANGED <<puts, crashes, DB, Durable>>
         /\ \/ View' = View
            \/ View[r] = NoVals /\ View' = [View EXCEPT ![r] = DB]
            \/ View' = [View EXCEPT ![r] = NoVals]
<1>t. TypeOK
  BY Zenon DEF IndInv
<1>u. UNCHANGED <<seq, lsm, synced, puts, crashes>>
  BY Zenon DEF GetSnapshot, ReleaseSnapshot, lsmVars, userVars
<1>1. \A n : Vals(n)' = Vals(n)
  BY Zenon, <1>u, LogValues
<1>2. UNCHANGED <<DB, Durable>>
  BY Zenon, <1>u, <1>1 DEF DB, Durable
<1>3. ASSUME NEW q \in Reader, q # r PROVE SnapshotVals(q)' = SnapshotVals(q)
  <2>1. snap'[q] = snap[q] /\ late'[q] = late[q]
    BY Zenon, <1>t, <1>3 DEF TypeOK, GetSnapshot, ReleaseSnapshot
  <2> QED BY Zenon, <1>1, <2>1 DEF SnapshotVals, NoVals
<1>4. CASE GetSnapshot(r)
  <2>1. snap[r] = NoSnap /\ snap'[r] = seq /\ seq # NoSnap
    <3>1. snap[r] = NoSnap /\ snap'[r] = seq
      BY Zenon, <1>t, <1>4 DEF GetSnapshot, TypeOK
    <3>2. seq # NoSnap
      BY <1>t DEF TypeOK
    <3> QED BY Zenon, <3>1, <3>2
  <2>2. SnapshotVals(r) = NoVals
    BY Zenon, <2>1 DEF SnapshotVals
  <2>3. CASE late'[r]
    <3>1. SnapshotVals(r)' = SnapshotVals(r)
      BY Zenon, <2>2, <2>3 DEF SnapshotVals, NoVals
    <3> QED BY Zenon, <1>u, <1>2, <1>3, <3>1 DEF View
  <2>4. CASE ~late'[r]
    <3>1. SnapshotVals(r)' = DB
      BY Zenon, <1>1, <2>1, <2>4 DEF SnapshotVals, DB
    <3>2. View' = [View EXCEPT ![r] = DB]
      BY Zenon, <1>3, <3>1 DEF View
    <3>3. View[r] = NoVals
      BY Zenon, <2>2 DEF View
    <3> QED BY Zenon, <1>u, <1>2, <3>2, <3>3
  <2> QED BY Zenon, <2>3, <2>4
<1>5. CASE ReleaseSnapshot(r)
  <2>1. snap'[r] = NoSnap
    BY Zenon, <1>t, <1>5 DEF ReleaseSnapshot, TypeOK
  <2>2. SnapshotVals(r)' = NoVals
    BY Zenon, <2>1 DEF SnapshotVals, NoVals
  <2>3. View' = [View EXCEPT ![r] = NoVals]
    BY Zenon, <1>3, <2>2 DEF View
  <2> QED BY Zenon, <1>u, <1>2, <2>3
<1> QED BY Zenon, <1>4, <1>5

\* A step of SnapshotKV, in these terms.
MapWrite ==
  /\ puts' = puts + 1
  /\ \E k \in Key, v \in (1 .. MaxPut) \cup {NotFound} : DB' = [DB EXCEPT ![k] = v]
  /\ Durable' = Durable \cup {DB'}
  /\ UNCHANGED <<crashes, View>>

MapSync ==
  /\ Durable' \subseteq Durable
  /\ DB \in Durable'
  /\ UNCHANGED <<puts, crashes, DB, View>>

MapReader ==
  /\ UNCHANGED <<puts, crashes, DB, Durable>>
  /\ \/ View' = View
     \/ \E r \in Reader : View[r] = NoVals /\ View' = [View EXCEPT ![r] = DB]
     \/ \E r \in Reader : View' = [View EXCEPT ![r] = NoVals]

MapCrash ==
  /\ crashes' = crashes + 1
  /\ DB' \in Durable
  /\ Durable' = {DB'}
  /\ View' = [r \in Reader |-> NoVals]
  /\ UNCHANGED puts

\* A step that leaves alone what the mapping reads.
LEMMA MapStutter ==
  ASSUME UNCHANGED <<seq, lsm, synced, puts, crashes, snap, late>>
  PROVE  MapReader
<1>1. UNCHANGED <<DB, Durable, View>>
  BY Zenon, Stutter
<1> QED BY Zenon, <1>1 DEF MapReader

\* Every step of the store is one of these.
LEMMA NextMaps ==
  ASSUME IndInv, ValOK', [Next]_vars
  PROVE  MapWrite \/ MapSync \/ MapReader \/ MapCrash
<1>1. CASE UserNext
  <2>1. PICK k \in Key : Put(k) \/ Delete(k)
    BY Zenon, <1>1 DEF UserNext
  <2> QED BY Zenon, <2>1, WriteMaps DEF MapWrite
<1>2. CASE ReaderNext
  <2>1. PICK r \in Reader : \/ GetSnapshot(r)
                            \/ \E i \in 1 .. seq : GetImpl(r, i)
                            \/ BlobStorageGet(r)
                            \/ ReleaseSnapshot(r)
    BY Zenon, <1>2 DEF ReaderNext
  <2>2. CASE GetSnapshot(r) \/ ReleaseSnapshot(r)
    BY Zenon, <2>2, ReaderMaps DEF MapReader
  <2>3. CASE (\E i \in 1 .. seq : GetImpl(r, i)) \/ BlobStorageGet(r)
    <3>1. UNCHANGED <<seq, lsm, synced, puts, crashes, snap, late>>
      BY Zenon, <2>3 DEF GetImpl, BlobStorageGet, lsmVars, userVars
    <3> QED BY Zenon, <3>1, MapStutter
  <2> QED BY Zenon, <2>1, <2>2, <2>3
<1>3. CASE TableNext
  <2>1. CASE \E j \in Job : InstallTable(j)
    BY Zenon, <2>1, InstallMaps DEF MapSync
  <2>2. CASE \/ \E j \in Job, mode \in RunMode, sep \in SUBSET (1 .. seq) :
                   BuildTable(j, mode, sep)
             \/ \E j \in Job : BuildFails(j) \/ InstallFails(j)
             \/ \E f \in File : OnTableCompleted(f)
    <3>1. UNCHANGED <<seq, lsm, synced, puts, crashes, snap, late>>
      BY Zenon, <2>2 DEF BuildTable, BuildFails, InstallFails, OnTableCompleted, lsmVars,
         userVars, readerVars
    <3> QED BY Zenon, <3>1, MapStutter
  <2> QED BY Zenon, <1>3, <2>1, <2>2 DEF TableNext
<1>4. CASE GCNext
  <2>1. PICK w \in Worker :
          \/ \E I \in SUBSET File, mode \in RunMode : PickBlobGC(w, I, mode)
          \/ \E r \in todo[w] : DoRunGC(w, r)
          \/ InstallOutputBlobFiles(w)
          \/ \E b \in batches[w] : RewriteValidKeyToLSM(w, b)
          \/ FlushWAL(w)
          \/ DeleteInputBlobFiles(w)
          \/ GCFails(w)
    BY Zenon, <1>4 DEF GCNext
  <2>2. CASE \E b \in batches[w] : RewriteValidKeyToLSM(w, b)
    <3>1. UNCHANGED <<puts, crashes>>
      BY Zenon, <2>2 DEF RewriteValidKeyToLSM, userVars
    <3> QED BY Zenon, <2>2, <3>1, RewriteMaps DEF MapReader
  <2>3. CASE FlushWAL(w)
    BY Zenon, <2>3, FlushWALMaps DEF MapSync
  <2>4. CASE \/ \E I \in SUBSET File, mode \in RunMode : PickBlobGC(w, I, mode)
             \/ InstallOutputBlobFiles(w)
             \/ DeleteInputBlobFiles(w)
             \/ GCFails(w)
    <3>1. UNCHANGED <<seq, lsm, synced, puts, crashes, snap, late>>
      BY Zenon, <2>4 DEF PickBlobGC, InstallOutputBlobFiles, DeleteInputBlobFiles,
         GCFails, lsmVars, userVars, readerVars
    <3> QED BY Zenon, <3>1, MapStutter
  <2>5. CASE \E r \in todo[w] : DoRunGC(w, r)
    <3>1. UNCHANGED <<seq, lsm, synced, puts, crashes, snap, late>>
      BY Zenon, <2>5 DEF DoRunGC, lsmVars, userVars, readerVars
    <3> QED BY Zenon, <3>1, MapStutter
  <2> QED BY Zenon, <2>1, <2>2, <2>3, <2>4, <2>5
<1>5. CASE PurgeNext
  <2>1. UNCHANGED <<seq, lsm, synced, puts, crashes, snap, late>>
    BY Zenon, <1>5 DEF PurgeNext, PurgeObsoleteFiles, GetObsoleteFiles, lsmVars,
       userVars, readerVars
  <2> QED BY Zenon, <2>1, MapStutter
<1>6. CASE \E n \in 0 .. seq : Crash(n)
  BY Zenon, <1>6, CrashMaps DEF MapCrash
<1>7. CASE UNCHANGED vars
  <2>1. UNCHANGED <<seq, lsm, synced, puts, crashes, snap, late>>
    BY Zenon, <1>7 DEF vars, lsmVars, userVars, readerVars
  <2> QED BY Zenon, <2>1, MapStutter
<1> QED BY Zenon, <1>1, <1>2, <1>3, <1>4, <1>5, <1>6, <1>7 DEF Next

\* What a user reads, through the blob files, is what the log says.
MapOK ==
  /\ ContentsAt(seq) = DB
  /\ {ContentsAt(n) : n \in synced .. seq} = Durable
  /\ [r \in Reader |-> SnapshotContents(r)] = View

\* In the states of IndInv the mapping finds what the log holds.
LEMMA MapsOK == IndInv => MapOK
BY Zenon, MappingVals DEF MapOK

\* The first state.
LEMMA InitMaps ==
  ASSUME Init, IndInv
  PROVE  KV!KVInit
<1>1. seq = 0 /\ synced = 0 /\ puts = 0 /\ crashes = 0 /\ snap = [r \in Reader |-> NoSnap]
  BY Zenon DEF Init
<1>2. 1 .. 0 = {} /\ 0 .. 0 = {0}
  OBVIOUS
<1>3. Vals(0) = [k \in Key |-> NotFound]
  BY Zenon, <1>2 DEF Vals, Val
<1>4. DB = [k \in Key |-> NotFound]
  BY Zenon, <1>1, <1>3 DEF DB
<1>5. Durable = {DB}
  BY Zenon, <1>1, <1>2 DEF Durable, DB
<1>6. View = [r \in Reader |-> NoVals]
  BY Zenon, <1>1 DEF View, SnapshotVals
<1>7. MapOK
  BY Zenon, MapsOK
<1> QED BY Zenon, <1>1, <1>4, <1>5, <1>6, <1>7
        DEF KV!KVInit, KV!NoView, KV!NotFound, KV!NoValue, NotFound, Missing, NoVals, MapOK

\* A step of the store is a step of SnapshotKV.
LEMMA NextRefines ==
  ASSUME IndInv, IndInv', MapOK', ValOK', [Next]_vars
  PROVE  [KV!KVNext]_(KV!kvVars)
<1> DEFINE db == ContentsAt(seq)
           durable == {ContentsAt(n) : n \in synced .. seq}
           view == [r \in Reader |-> SnapshotContents(r)]
<1>m. db = DB /\ durable = Durable /\ view = View
  BY Zenon, MapsOK DEF MapOK
<1>n. db' = DB' /\ durable' = Durable' /\ view' = View'
  BY Zenon DEF MapOK
<1>c. KV!NotFound = NotFound /\ KV!NoView = NoVals
  BY Zenon DEF KV!NotFound, KV!NoView, KV!NoValue, NotFound, NoVals, Missing
<1>1. CASE MapWrite
  <2>1. PICK k \in Key, v \in (1 .. MaxPut) \cup {NotFound} : DB' = [DB EXCEPT ![k] = v]
    BY Zenon, <1>1 DEF MapWrite
  <2>2. KV!KVWrite(k, v)
    BY Zenon, <1>1, <1>m, <1>n, <2>1 DEF KV!KVWrite, MapWrite
  <2> QED BY Zenon, <1>c, <2>2 DEF KV!KVNext
<1>2. CASE MapSync
  <2>1. KV!KVSync
    BY Zenon, <1>2, <1>m, <1>n DEF KV!KVSync, MapSync
  <2> QED BY Zenon, <2>1 DEF KV!KVNext
<1>3. CASE MapReader
  <2>1. CASE View' = View
    BY Zenon, <1>3, <1>m, <1>n, <2>1 DEF KV!kvVars, MapReader
  <2>2. CASE \E r \in Reader : View[r] = NoVals /\ View' = [View EXCEPT ![r] = DB]
    <3>1. PICK r \in Reader : View[r] = NoVals /\ View' = [View EXCEPT ![r] = DB]
      BY Zenon, <2>2
    <3>2. KV!KVGetSnapshot(r)
      BY Zenon, <1>3, <1>c, <1>m, <1>n, <3>1 DEF KV!KVGetSnapshot, MapReader
    <3> QED BY Zenon, <3>2 DEF KV!KVNext
  <2>3. CASE \E r \in Reader : View' = [View EXCEPT ![r] = NoVals]
    <3>1. PICK r \in Reader : View' = [View EXCEPT ![r] = NoVals]
      BY Zenon, <2>3
    <3>2. KV!KVReleaseSnapshot(r)
      BY Zenon, <1>3, <1>c, <1>m, <1>n, <3>1 DEF KV!KVReleaseSnapshot, MapReader
    <3> QED BY Zenon, <3>2 DEF KV!KVNext
  <2> QED BY Zenon, <1>3, <2>1, <2>2, <2>3 DEF MapReader
<1>4. CASE MapCrash
  <2>1. DB' \in Durable /\ Durable' = {DB'} /\ View' = [r \in Reader |-> NoVals]
        /\ crashes' = crashes + 1 /\ puts' = puts
    BY Zenon, <1>4 DEF MapCrash
  <2>2. Durable' \subseteq Durable /\ DB' \in Durable'
    BY Zenon, <2>1
  <2>3. KV!KVCrash
    BY Zenon, <1>c, <1>m, <1>n, <2>1, <2>2 DEF KV!KVCrash
  <2> QED BY Zenon, <2>3 DEF KV!KVNext
<1> QED BY Zenon, <1>1, <1>2, <1>3, <1>4, NextMaps

\* The store implements SnapshotKV for any number of keys, readers, files and
\* GC workers: flush, compaction, GC and purge change nothing that a user can
\* read, a held snapshot never changes, and a crash goes back to contents that
\* the user wrote, no older than the last sync.
THEOREM StoreImplementsKV == Spec => ImplementsKV
<1>1. Init => IndInv
  BY Zenon, InitIndInv
<1>2. IndInv => MapOK /\ ValOK
  BY Zenon, MapsOK, ValsOK DEF IndInv
<1>3. IndInv' => MapOK' /\ ValOK'
  BY <1>2, PTL
<1>4. Init => KV!KVInit
  BY Zenon, <1>1, InitMaps
<1>5. IndInv /\ IndInv' /\ [Next]_vars => [KV!KVNext]_(KV!kvVars)
  BY Zenon, <1>3, NextRefines
<1> QED BY <1>4, <1>5, Invariance, PTL DEF Spec, ImplementsKV, KV!KVSpec
=============================================================================

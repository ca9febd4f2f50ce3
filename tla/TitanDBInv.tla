----------------------------- MODULE TitanDBInv -----------------------------
(***************************************************************************)
(* The inductive invariant of TitanDB: TypeOK and the safety invariants,   *)
(* strengthened by what every background job knows about its files and     *)
(* about the entries it is going to replace.                               *)
(***************************************************************************)
EXTENDS TitanDB

\* The fields of an entry fit its type.
EntryOK(e) ==
  /\ e.type = "none" => e = NoEntry
  /\ e.type # "none" => e.key \in Key
  /\ e.type = "kTypeBlobIndex" => e.val \in 1 .. MaxPut /\ e.file \in File
  /\ e.type = "kTypeValue" => e.val \in 1 .. MaxPut
  /\ e.type = "kTypeDeletion" => e.val = 0
  /\ e.type # "kTypeBlobIndex" => e.file = NoFile

\* What is flushed is durable, nothing is ahead of the latest sequence, and
\* entries are well formed.
LogInv ==
  /\ flushed <= synced
  /\ synced <= seq
  /\ \A i \in Seqs : i > seq => lsm[i] = NoEntry
  /\ \A i \in Seqs : EntryOK(lsm[i])

\* File numbers from nextFile on have not been used.
FreshInv ==
  \A f \in File : f >= nextFile => state[f] = "kNone"

\* A reader's snapshot is not ahead of the log; the file of a blob index a
\* Get holds became obsolete, if at all, after the snapshot was taken; and a
\* released snapshot leaves no failure behind.
ReaderInv ==
  \A r \in Reader :
    /\ snap[r] <= seq
    /\ snap[r] = NoSnap => ~failed[r]
    /\ idx[r] # NoEntry => /\ snap[r] # NoSnap
                           /\ idx[r].type = "kTypeBlobIndex"
                           /\ EntryOK(idx[r])
                           /\ state[idx[r].file] = "kObsolete" =>
                                snap[r] <= obsSeq[idx[r].file]

\* A running purge protects every snapshot that is not late.
PurgeInv ==
  oldest # NoPurge =>
    \A r \in Reader : snap[r] # NoSnap /\ ~late[r] => oldest <= snap[r]

\* Entry e of a new table stands for entry o of the input: the same entry, its
\* value inline, or its value in the blob file f.
Rewrites(e, o, f) ==
  \/ e = o
  \/ /\ o.type = "kTypeBlobIndex"
     /\ e = ValueEntry(o.key, o.val)
  \/ /\ o.type = "kTypeValue"
     /\ f \in File
     /\ e = BlobEntry(o.key, o.val, f)
     /\ RecordOf(o) \in recs[f]

\* The range a built table replaces, and what the table says about it: an
\* entry the table leaves out is hidden from every snapshot by a newer input
\* entry of its key, or it is a tombstone and no older entry of its key is left.
JobInv(j) ==
  LET I == JobInput(j, jupto[j]) IN
  jpc[j] = "built" =>
    /\ jupto[j] <= (IF j = "flush" THEN seq ELSE flushed)
    /\ j = "flush" => flushed <= jupto[j]
    /\ jfile[j] # NoFile => state[jfile[j]] = "kPendingLSM"
    /\ jfile[j] \notin callbacks
    /\ \A i \in I : jout[j][i] # NoEntry =>
         Rewrites(jout[j][i], lsm[i], jfile[j])
    /\ \A k \in I : jout[j][k] = NoEntry /\ lsm[k] # NoEntry =>
         \/ \E m \in I : /\ k < m
                         /\ lsm[m].key = lsm[k].key
                         /\ \A r \in Reader : snap[r] \notin k .. (m - 1)
         \/ /\ j # "flush"
            /\ lsm[k].type = "kTypeDeletion"
            /\ \A i \in I : i < k /\ lsm[i].key = lsm[k].key =>
                 jout[j][i] = NoEntry

\* Jobs do not share blob files, and the file of an installed table keeps its
\* state until the callback has run.
JobsInv ==
  /\ \A j \in Job : JobInv(j)
  /\ \A f \in callbacks : state[f] = "kPendingLSM"
  /\ \A j, k \in Job : j # k /\ jpc[j] = "built" /\ jpc[k] = "built" =>
       (jfile[j] = jfile[k] => jfile[j] = NoFile)

\* A GC worker between jobs holds nothing; the output of a running job is in
\* the state that its program counter says.
WorkerInv(w) ==
  /\ gpc[w] = "idle" => /\ inputs[w] = {} /\ todo[w] = {}
                        /\ batches[w] = {} /\ out[w] = NoFile
  /\ gpc[w] \in {"rewrite", "delete"} => todo[w] = {}
  /\ gpc[w] = "delete" => batches[w] = {}
  /\ out[w] # NoFile =>
       state[out[w]] = IF gpc[w] = "run" THEN "kInit" ELSE "kPendingGC"

\* The iterator visits inputs, and a write-back leads from an input to a
\* record of the output.
BatchInv(w) ==
  /\ \A r \in todo[w] : r.file \in inputs[w]
  /\ \A b \in batches[w] :
       /\ b.file \in inputs[w]
       /\ b.to # NoFile => b.to = out[w] /\ RecordOf(b) \in recs[b.to]

\* Every record of an input that is current is still to be visited or has a
\* write-back: GC loses none.
Tracked(w) ==
  \A r \in InputRecord :
    r.file \in inputs[w] /\ Current(r) =>
      \/ r \in todo[w]
      \/ \E b \in batches[w] :
           b.key = r.key /\ b.val = r.val /\ b.file = r.file

\* Once the rewritten keys are durable, no point that the log may recover to
\* leads to an input.
InputsUnused(w) ==
  gpc[w] = "delete" =>
    \A n \in synced .. seq : \A i \in 1 .. n :
      Visible(i, n) => lsm[i].file \notin inputs[w]

GCInv ==
  \A w \in Worker : WorkerInv(w) /\ BatchInv(w) /\ Tracked(w) /\ InputsUnused(w)

\* The inductive invariant.
IndInv ==
  /\ TypeOK
  /\ LogInv
  /\ FreshInv
  /\ ReaderInv
  /\ PurgeInv
  /\ JobsInv
  /\ GCLease
  /\ GCInv
  /\ ObsoleteInvisible
  /\ CrashConsistent
  /\ SnapshotReadable
=============================================================================

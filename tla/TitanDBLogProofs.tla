-------------------------- MODULE TitanDBLogProofs --------------------------
(***************************************************************************)
(* Lemmas about the log and the states of files.  The steps of users, of   *)
(* readers, of flush and of compaction preserve the inductive invariant of *)
(* TitanDB.                                                                *)
(***************************************************************************)
EXTENDS TitanDBInv, WellFoundedInduction, TLAPS

\* A nonempty set of naturals has a least element.
LEMMA MinExists ==
  ASSUME NEW S \in SUBSET Nat, S # {}
  PROVE  \E m \in S : \A x \in S : m <= x
<1> DEFINE R == OpToRel(<, Nat)
<1>1. R = {ss \in Nat \X Nat : ss[1] < ss[2]}
  BY Zenon DEF OpToRel
<1>2. IsWellFoundedOn(R, Nat)
  BY Zenon, NatLessThanWellFounded
<1> HIDE DEF R
<1>3. PICK m \in S : \A y \in S : <<y, m>> \notin R
  BY Zenon, <1>2, WFMin
<1>4. ASSUME NEW x \in S PROVE m <= x
  <2>1. x \in Nat /\ m \in Nat
    BY Zenon
  <2>2. x < m => <<x, m>> \in R
    BY Zenon, <1>1, <2>1
  <2> QED BY <1>3, <2>1, <2>2
<1> QED BY Zenon, <1>4

\* A nonempty bounded set of naturals has a greatest element.
LEMMA MaxExists ==
  ASSUME NEW n \in Nat, NEW S \in SUBSET (0 .. n), S # {}
  PROVE  \E m \in S : \A x \in S : x <= m
<1> DEFINE T == {n - x : x \in S}
<1>1. T \in SUBSET Nat
  OBVIOUS
<1>2. T # {}
  <2>1. PICK x : x \in S
    BY Zenon
  <2> QED BY Zenon, <2>1
<1>3. PICK t \in T : \A y \in T : t <= y
  BY Zenon, <1>1, <1>2, MinExists
<1>4. PICK m \in S : t = n - m
  BY Zenon, <1>3
<1>5. ASSUME NEW x \in S PROVE x <= m
  <2>1. n - x \in T /\ x \in Nat /\ m \in Nat /\ x <= n /\ m <= n
    OBVIOUS
  <2> QED BY <2>1, <1>3, <1>4
<1> QED BY Zenon, <1>5

USE DEF NoFile, NoSnap, NoKey, NoPurge, kMaxSequenceNumber

\* The absence of an entry has the type of an entry.
LEMMA NoEntryType == NoEntry \in Entry
BY ConstantsAssumption DEF NoEntry, Entry, EntryType

\* An empty place of the log is no entry of any type.
LEMMA NoEntryNone == NoEntry.type = "none"
BY DEF NoEntry

\* The entries that a table job makes of an entry.
LEMMA MadeEntries ==
  ASSUME NEW e \in Entry, NEW f \in 0 .. MaxFile
  PROVE  /\ BlobEntry(e.key, e.val, f) \in Entry
         /\ ValueEntry(e.key, e.val) \in Entry
BY ConstantsAssumption DEF BlobEntry, ValueEntry, Entry, EntryType

\* The record made from an entry is a blob record.
LEMMA RecordIsBlob ==
  ASSUME NEW e, e.key \in Key, e.val \in 1 .. MaxPut
  PROVE  RecordOf(e) \in BlobRecord
BY DEF RecordOf, BlobRecord

\* NoFile is not the number of a blob file, and the other numbers are.
LEMMA FileNumber ==
  /\ 0 \notin File
  /\ \A f \in 0 .. MaxFile : f # 0 => f \in File
  BY ConstantsAssumption DEF File

\* Facts of arithmetic.
LEMMA EmptyRange == \A i : i \notin 1 .. -1
  OBVIOUS

\* A snapshot that is no later than the log is one of its sequence numbers.
LEMMA SnapshotRange ==
  \A m \in Nat : \A s \in 0 .. m, n \in -1 .. m : n <= s /\ n # -1 => n \in 0 .. s
  OBVIOUS

\* The entries below a sequence number of the log have a place in it.
LEMMA LogRange ==
  \A m \in Nat : \A s \in 0 .. m, a \in 0 .. m : \A n \in a .. s : \A i \in 1 .. n :
    i \in 1 .. m
  OBVIOUS

\* So have those below a snapshot.
LEMMA SnapshotLogRange ==
  \A m \in Nat : \A n \in -1 .. m : \A i \in 1 .. n : i \in 1 .. m
  OBVIOUS

\* A sequence number from b on is one from a on, if a is no later.
LEMMA LaterRange ==
  \A s \in Nat, a \in Nat, b \in Nat : a <= b =>
    \A n \in b .. s : n \in 0 .. s /\ n >= b /\ n \in a .. s
  OBVIOUS

-----------------------------------------------------------------------------
(* Visibility.                                                             *)

\* A read finds at most one entry of a key.
LEMMA VisibleUnique ==
  ASSUME TypeOK, NEW n \in 0 .. MaxSeq, NEW i \in 1 .. n, NEW k \in 1 .. n,
         Visible(i, n), Visible(k, n), lsm[i].key = lsm[k].key
  PROVE  i = k
BY DEF Visible, TypeOK, Seqs

-----------------------------------------------------------------------------
(* Appending an entry to the log.                                          *)

\* After one entry is appended, a read at an older point finds what it found,
\* and a read at the new point finds the new entry or what it found.
LEMMA AppendVisible ==
  ASSUME TypeOK, LogInv, NEW e \in Entry, AppendEntry(e)
  PROVE  /\ \A i \in 1 .. seq : lsm'[i] = lsm[i]
         /\ lsm'[seq + 1] = e
         /\ seq + 1 \in Seqs
         /\ \A n \in 0 .. seq : \A i \in 1 .. n : Visible(i, n)' <=> Visible(i, n)
         /\ \A n \in {seq + 1} : \A i \in 1 .. seq : Visible(i, n)' =>
              Visible(i, seq) /\ lsm[i].key # e.key
<1> USE ConstantsAssumption DEF TypeOK, LogInv, AppendEntry, Seqs
<1>1. \A i \in 1 .. seq : lsm'[i] = lsm[i]
  OBVIOUS
<1>2. lsm'[seq + 1] = e /\ seq + 1 \in Seqs
  OBVIOUS
<1>3. ASSUME NEW n \in 0 .. seq, NEW i \in 1 .. n
      PROVE  Visible(i, n)' <=> Visible(i, n)
  BY <1>1 DEF Visible
<1>4. ASSUME NEW n \in {seq + 1}, NEW i \in 1 .. seq, Visible(i, n)'
      PROVE  Visible(i, seq) /\ lsm[i].key # e.key
  BY <1>1, <1>2, <1>4 DEF Visible
<1> QED BY Zenon, <1>1, <1>2, <1>3, <1>4

\* A well-formed entry that leads to a live record, if anywhere, keeps all of
\* the invariant that does not speak of the counters and the write-backs.
LEMMA AppendPreserves ==
  ASSUME IndInv, NEW e \in Entry, EntryOK(e), AppendEntry(e),
         e.type = "kTypeBlobIndex" =>
           state[e.file] = "kPendingGC" /\ RecordOf(e) \in recs[e.file],
         UNCHANGED <<flushed, synced, fileVars, readerVars, oldest, jobVars,
                     gpc, inputs, out>>
  PROVE  /\ seq' \in 0 .. MaxSeq /\ lsm' \in [Seqs -> Entry]
         /\ LogInv'
         /\ FreshInv'
         /\ ReaderInv'
         /\ PurgeInv'
         /\ JobsInv'
         /\ GCLease'
         /\ \A w \in Worker : InputsUnused(w)'
         /\ ObsoleteInvisible'
         /\ CrashConsistent'
         /\ SnapshotReadable'
         /\ \A w \in Worker : \A r \in InputRecord :
              r.file \in inputs[w] /\ Current(r)' => Current(r) /\ r.key # e.key
<1> USE ConstantsAssumption
<1>u. UNCHANGED <<flushed, synced, nextFile, state, recs, obsSeq, snap, late,
                  idx, failed, oldest, jpc, jupto, jfile, jout, callbacks,
                  gpc, inputs, out>>
  BY Zenon DEF fileVars, readerVars, jobVars
<1>t. TypeOK /\ LogInv
  BY Zenon DEF IndInv
<1>v. /\ \A i \in 1 .. seq : lsm'[i] = lsm[i]
      /\ lsm'[seq + 1] = e
      /\ seq + 1 \in Seqs
      /\ \A n \in 0 .. seq : \A i \in 1 .. n : Visible(i, n)' <=> Visible(i, n)
      /\ \A n \in {seq + 1} : \A i \in 1 .. seq : Visible(i, n)' =>
           Visible(i, seq) /\ lsm[i].key # e.key
  BY Zenon, <1>t, AppendVisible
<1>s. seq' = seq + 1 /\ seq \in Nat /\ seq' <= MaxSeq
  BY <1>t DEF AppendEntry, TypeOK
<1>1. seq' \in 0 .. MaxSeq /\ lsm' \in [Seqs -> Entry]
  BY <1>t DEF AppendEntry, TypeOK, Seqs
<1>2. LogInv'
  BY <1>t, <1>u, <1>v, <1>s DEF LogInv, TypeOK, AppendEntry, Seqs, EntryOK
<1>3. FreshInv'
  BY Zenon, <1>u DEF IndInv, FreshInv
<1>4. ReaderInv'
  BY SMTT(30), <1>t, <1>u, <1>s DEF IndInv, ReaderInv, TypeOK, EntryOK
<1>5. PurgeInv'
  BY Zenon, <1>u DEF IndInv, PurgeInv
<1>6. JobsInv'
  <2>1. ASSUME NEW j \in Job PROVE JobInv(j)'
    <3> SUFFICES ASSUME jpc[j] = "built" PROVE JobInv(j)'
      BY Zenon, <1>u DEF JobInv
    <3> DEFINE I == JobInput(j, jupto[j])
    <3>1. JobInv(j) /\ I' = I
      BY Zenon, <1>u DEF IndInv, JobsInv, JobInput
    <3>2. jupto[j] <= seq /\ jupto[j] \in Nat /\ flushed \in Nat
      BY <1>t, <3>1 DEF JobInv, TypeOK, LogInv
    <3>3. I \subseteq 1 .. seq
      BY <1>s, <3>2 DEF JobInput
    <3>4. \A i \in I : lsm'[i] = lsm[i]
      BY Zenon, <1>v, <3>3
    <3> HIDE DEF I
    <3> QED
      BY SMTT(30), <1>t, <1>u, <1>s, <3>1, <3>4 DEF JobInv, Rewrites, TypeOK, I
  <2> QED BY Zenon, <1>u, <2>1 DEF IndInv, JobsInv
<1>7. GCLease'
  BY <1>u DEF IndInv, GCLease
<1>8. ASSUME NEW w \in Worker PROVE InputsUnused(w)'
  <2>1. e.file \notin inputs[w]
    BY SMTT(30), <1>t DEF IndInv, GCLease, TypeOK, EntryOK, File
  <2> SUFFICES ASSUME gpc[w] = "delete", NEW n \in synced .. seq + 1,
                      NEW i \in 1 .. n, Visible(i, n)'
               PROVE  lsm'[i].file \notin inputs[w]
    BY Zenon, <1>u, <1>s DEF InputsUnused
  <2>2. \A m \in synced .. seq : \A k \in 1 .. m :
          Visible(k, m) => lsm[k].file \notin inputs[w]
    BY Zenon DEF IndInv, GCInv, InputsUnused
  <2>3. CASE n <= seq
    BY SMTT(30), <1>t, <1>s, <1>v, <2>2, <2>3 DEF TypeOK
  <2>4. CASE n = seq + 1 /\ i <= seq
    BY SMTT(30), <1>t, <1>s, <1>v, <2>2, <2>4 DEF TypeOK, LogInv
  <2>5. CASE i = seq + 1
    BY Zenon, <1>v, <2>1, <2>5
  <2> QED BY <1>t, <1>s, <2>3, <2>4, <2>5 DEF TypeOK
<1>9. ObsoleteInvisible'
  <2> SUFFICES ASSUME NEW f \in File, NEW r \in Reader, state[f] = "kObsolete",
                      snap[r] >= obsSeq[f], NEW i \in 1 .. snap[r],
                      Visible(i, snap[r])'
               PROVE  lsm'[i].file # f
    BY Zenon, <1>u DEF ObsoleteInvisible
  <2>1. snap[r] \in 0 .. seq /\ i \in 1 .. seq
    BY SMTT(30), <1>t, <1>s DEF IndInv, ReaderInv, TypeOK
  <2>2. Visible(i, snap[r]) /\ lsm'[i] = lsm[i]
    BY Zenon, <1>v, <1>u, <2>1
  <2> QED BY Zenon, <2>2 DEF IndInv, ObsoleteInvisible
<1>10. CrashConsistent'
  <2> DEFINE Good(x) == x.type = "kTypeBlobIndex" => Alive(x.file) /\ Readable(x)
  <2>1. \A m \in synced .. seq : \A k \in 1 .. m : Visible(k, m) => Good(lsm[k])
    BY Zenon DEF IndInv, CrashConsistent
  <2>2. Good(e)
    BY Zenon DEF Alive, Readable, Found, Present
  <2> HIDE DEF Good
  <2> SUFFICES ASSUME NEW n \in synced .. seq + 1, NEW i \in 1 .. n,
                      Visible(i, n)'
               PROVE  Good(lsm'[i])
    BY Zenon, <1>u, <1>s DEF CrashConsistent, Good, Alive, Readable, Found, Present
  <2>4. CASE n <= seq
    BY SMTT(30), <1>t, <1>s, <1>v, <2>1, <2>4 DEF TypeOK
  <2>5. CASE n = seq + 1 /\ i <= seq
    BY <1>t, <1>s, <1>v, <2>1, <2>5 DEF TypeOK, LogInv
  <2>6. CASE i = seq + 1
    BY Zenon, <1>v, <2>2, <2>6
  <2> QED BY <1>t, <1>s, <2>4, <2>5, <2>6 DEF TypeOK
<1>11. SnapshotReadable'
  <2> SUFFICES ASSUME NEW r \in Reader, snap[r] # NoSnap, ~late[r]
               PROVE  /\ \A i \in 1 .. snap[r] :
                           Visible(i, snap[r])' => Readable(lsm'[i])
                      /\ Readable(idx[r])
                      /\ ~failed[r]
    BY Zenon, <1>u DEF SnapshotReadable, Readable, Found, Present, Alive
  <2>1. /\ \A i \in 1 .. snap[r] : Visible(i, snap[r]) => Readable(lsm[i])
        /\ Readable(idx[r])
        /\ ~failed[r]
    BY Zenon DEF IndInv, SnapshotReadable
  <2>2. snap[r] \in 0 .. seq /\ 1 .. snap[r] \subseteq 1 .. seq
    <3>1. snap[r] <= seq /\ snap[r] \in -1 .. MaxSeq
      BY Zenon, <1>t DEF IndInv, ReaderInv, TypeOK
    <3> QED BY <1>s, <3>1
  <2>3. ASSUME NEW i \in 1 .. snap[r], Visible(i, snap[r])'
        PROVE  Readable(lsm'[i])
    <3>1. Visible(i, snap[r])
      BY Zenon, <1>v, <1>u, <2>2, <2>3
    <3>2. lsm'[i] = lsm[i]
      BY Zenon, <1>v, <2>2
    <3> QED BY Zenon, <2>1, <3>1, <3>2
  <2> QED BY Zenon, <2>1, <2>3
<1>12. ASSUME NEW w \in Worker, NEW r \in InputRecord, r.file \in inputs[w],
              Current(r)'
       PROVE  Current(r) /\ r.key # e.key
  <2>1. PICK n \in {seq + 1} : n = seq'
    BY Zenon, <1>s
  <2>2. PICK i \in 1 .. n : /\ Visible(i, n)'
                           /\ lsm'[i] = BlobEntry(r.key, r.val, r.file)
    BY Zenon, <1>12, <2>1 DEF Current, Visible
  <2>3. i # seq + 1
    <3>1. state[r.file] = "kBeingGC"
      BY Zenon, <1>12 DEF IndInv, GCLease
    <3>2. i = seq + 1 => e.type = "kTypeBlobIndex" /\ e.file = r.file
      BY <1>v, <2>2 DEF BlobEntry
    <3> QED BY Zenon, <3>1, <3>2
  <2>4. i \in 1 .. seq
    BY <1>s, <2>1, <2>2, <2>3
  <2>5. Visible(i, seq) /\ lsm[i].key # e.key /\ lsm'[i] = lsm[i]
    BY Zenon, <1>v, <2>2, <2>4
  <2> QED BY <2>2, <2>4, <2>5 DEF Current, BlobEntry
<1> QED BY Zenon, <1>1, <1>2, <1>3, <1>4, <1>5, <1>6, <1>7, <1>8, <1>9, <1>10, <1>11, <1>12

\* A Put or a Delete preserves the invariant.
LEMMA UserNextPreserves ==
  ASSUME IndInv, NEW k \in Key, Put(k) \/ Delete(k)
  PROVE  IndInv'
<1> USE ConstantsAssumption
<1>t. TypeOK
  BY Zenon DEF IndInv
<1>1. PICK e \in Entry : /\ EntryOK(e)
                         /\ e.type # "kTypeBlobIndex"
                         /\ AppendEntry(e)
  <2>1. CASE Put(k)
    <3>1. ValueEntry(k, puts + 1) \in Entry /\ EntryOK(ValueEntry(k, puts + 1))
      BY <1>t, <2>1 DEF Put, ValueEntry, Entry, EntryType, EntryOK, TypeOK
    <3> QED BY Zenon, <2>1, <3>1 DEF Put, ValueEntry
  <2>2. CASE Delete(k)
    <3>1. Tombstone(k) \in Entry /\ EntryOK(Tombstone(k))
      BY <1>t, <2>2 DEF Delete, Tombstone, Entry, EntryType, EntryOK, TypeOK
    <3> QED BY Zenon, <2>2, <3>1 DEF Delete, Tombstone
  <2> QED BY Zenon, <2>1, <2>2
<1>2. UNCHANGED <<flushed, synced, crashes, bgError, fileVars, readerVars,
                  oldest, jobVars, gcVars>>
  BY Zenon DEF Put, Delete
<1>3. UNCHANGED <<gpc, gmode, inputs, todo, batches, out>>
  BY Zenon, <1>2 DEF gcVars
<1>4. /\ seq' \in 0 .. MaxSeq /\ lsm' \in [Seqs -> Entry]
      /\ LogInv' /\ FreshInv' /\ ReaderInv' /\ PurgeInv' /\ JobsInv'
      /\ GCLease' /\ ObsoleteInvisible' /\ CrashConsistent'
      /\ SnapshotReadable'
      /\ \A w \in Worker : InputsUnused(w)'
      /\ \A w \in Worker : \A r \in InputRecord :
           r.file \in inputs[w] /\ Current(r)' => Current(r) /\ r.key # e.key
  BY Zenon, <1>1, <1>2, <1>3, AppendPreserves
<1>5. TypeOK'
  <2>1. puts' \in 0 .. MaxPut
    BY <1>t DEF Put, Delete, TypeOK
  <2> QED BY Zenon, <1>t, <1>2, <1>4, <2>1
          DEF TypeOK, fileVars, readerVars, jobVars, gcVars
<1>6. GCInv'
  <2> SUFFICES ASSUME NEW w \in Worker
               PROVE  WorkerInv(w)' /\ BatchInv(w)' /\ Tracked(w)'
    BY Zenon, <1>4 DEF GCInv
  <2>1. WorkerInv(w)' /\ BatchInv(w)'
    BY Zenon, <1>2, <1>3 DEF IndInv, GCInv, WorkerInv, BatchInv, fileVars
  <2>2. Tracked(w)'
    BY Zenon, <1>3, <1>4 DEF IndInv, GCInv, Tracked
  <2> QED BY Zenon, <2>1, <2>2
<1> QED BY Zenon, <1>4, <1>5, <1>6 DEF IndInv

-----------------------------------------------------------------------------
(* Reads.                                                                  *)

\* The part of the invariant that speaks of the log, the files and GC only.
LEMMA LogFrame ==
  ASSUME IndInv, UNCHANGED <<lsmVars, fileVars, gcVars>>
  PROVE  LogInv' /\ FreshInv' /\ GCLease' /\ GCInv' /\ CrashConsistent'
<1>u. UNCHANGED <<seq, lsm, flushed, synced, nextFile, state, recs, obsSeq, gpc,
                  gmode, inputs, todo, batches, out>>
  BY Zenon DEF lsmVars, fileVars, gcVars
<1>1. LogInv' /\ FreshInv' /\ GCLease'
  BY SMTT(30), <1>u DEF IndInv, LogInv, FreshInv, GCLease, EntryOK
<1>2. CrashConsistent'
  BY SMTT(30), <1>u DEF IndInv, CrashConsistent, Visible, Alive, Readable, Found, Present
<1>3. ASSUME NEW w \in Worker
      PROVE  WorkerInv(w)' /\ BatchInv(w)' /\ Tracked(w)' /\ InputsUnused(w)'
  <2>1. WorkerInv(w)' /\ BatchInv(w)'
    BY Zenon, <1>u DEF IndInv, GCInv, WorkerInv, BatchInv
  <2>2. Tracked(w)'
    BY <1>u DEF IndInv, GCInv, Tracked, Current, Visible
  <2>3. InputsUnused(w)'
    BY Zenon, <1>u DEF IndInv, GCInv, InputsUnused, Visible
  <2> QED BY Zenon, <2>1, <2>2, <2>3
<1> QED BY Zenon, <1>1, <1>2, <1>3 DEF GCInv

\* A step of a reader preserves the invariant.
LEMMA ReaderNextPreserves ==
  ASSUME IndInv, NEW r \in Reader,
         \/ GetSnapshot(r)
         \/ \E i \in 1 .. seq : GetImpl(r, i)
         \/ BlobStorageGet(r)
         \/ ReleaseSnapshot(r)
  PROVE  IndInv'
<1> USE ConstantsAssumption
<1>t. TypeOK /\ LogInv /\ ReaderInv
  BY Zenon DEF IndInv
<1>u. UNCHANGED <<lsmVars, userVars, bgError, fileVars, oldest, jobVars, gcVars>>
  BY Zenon DEF GetSnapshot, GetImpl, BlobStorageGet, ReleaseSnapshot
<1>w. UNCHANGED <<seq, lsm, flushed, synced, state, recs, obsSeq, jpc, jupto,
                  jfile, jout, callbacks, oldest>>
  BY Zenon, <1>u DEF lsmVars, fileVars, jobVars
<1>1. LogInv' /\ FreshInv' /\ GCLease' /\ GCInv' /\ CrashConsistent'
  BY Zenon, <1>u, LogFrame
<1>2. TypeOK'
  <2>1. /\ snap' \in [Reader -> -1 .. MaxSeq]
        /\ late' \in [Reader -> BOOLEAN]
        /\ idx' \in [Reader -> Entry]
        /\ failed' \in [Reader -> BOOLEAN]
    <3>1. CASE GetSnapshot(r)
      BY <1>t, <3>1 DEF TypeOK, GetSnapshot
    <3>2. CASE \E i \in 1 .. seq : GetImpl(r, i)
      BY <1>t, <3>2 DEF TypeOK, GetImpl, Seqs
    <3>3. CASE BlobStorageGet(r)
      BY Zenon, <1>t, <3>3, NoEntryType DEF TypeOK, BlobStorageGet
    <3>4. CASE ReleaseSnapshot(r)
      BY <1>t, <3>4 DEF TypeOK, ReleaseSnapshot
    <3> QED BY Zenon, <3>1, <3>2, <3>3, <3>4
  <2> QED BY Zenon, <1>t, <1>u, <2>1
          DEF TypeOK, lsmVars, userVars, fileVars, jobVars, gcVars
<1>3. \A q \in Reader : snap'[q] \in {snap[q], seq, NoSnap}
  BY Zenon, <1>t DEF TypeOK, GetSnapshot, GetImpl, BlobStorageGet, ReleaseSnapshot
<1>4. JobsInv'
  <2>1. ASSUME NEW j \in Job PROVE JobInv(j)'
    <3> SUFFICES ASSUME jpc[j] = "built" PROVE JobInv(j)'
      BY Zenon, <1>w DEF JobInv
    <3> DEFINE I == JobInput(j, jupto[j])
    <3>1. JobInv(j) /\ I' = I
      BY Zenon, <1>w DEF IndInv, JobsInv, JobInput
    <3>2. jupto[j] <= seq /\ jupto[j] \in Nat /\ flushed \in Nat /\ seq \in Nat
      BY <1>t, <3>1 DEF JobInv, TypeOK, LogInv
    <3>3. I \subseteq 1 .. seq
      BY <3>2 DEF JobInput
    <3>4. \A q \in Reader, k \in I, m \in I :
            snap[q] \notin k .. (m - 1) => snap'[q] \notin k .. (m - 1)
      BY <1>3, <3>2, <3>3
    <3> HIDE DEF I
    <3> QED
      BY SMTT(30), <1>w, <3>1, <3>4 DEF JobInv, Rewrites, I
  <2> QED BY Zenon, <1>w, <2>1 DEF IndInv, JobsInv
<1>v. \A n, i : Visible(i, n)' <=> Visible(i, n)
  BY Zenon, <1>w DEF Visible
<1>x. \A e : Readable(e)' <=> Readable(e)
  BY Zenon, <1>w DEF Readable, Found, Present, Alive
<1>y. \A i : Readable(lsm[i])' <=> Readable(lsm[i])
  BY Zenon, <1>w DEF Readable, Found, Present, Alive
<1>5. CASE GetSnapshot(r)
  <2>u. /\ snap[r] = NoSnap
        /\ snap' = [snap EXCEPT ![r] = seq]
        /\ late' = [late EXCEPT ![r] = oldest # NoPurge /\ oldest > seq]
        /\ UNCHANGED <<idx, failed>>
    BY Zenon, <1>5 DEF GetSnapshot
  <2>c. ASSUME NEW i \in 1 .. seq, Visible(i, seq)
        PROVE  /\ Readable(lsm[i])
               /\ lsm[i].type = "kTypeBlobIndex" => Alive(lsm[i].file)
    BY <1>t, <2>c DEF IndInv, CrashConsistent, LogInv, TypeOK, Readable
  <2>1. ReaderInv'
    BY SMTT(30), <1>t, <1>w, <2>u DEF ReaderInv, TypeOK, EntryOK
  <2>2. PurgeInv'
    <3>1. oldest # NoPurge /\ ~late'[r] => oldest <= seq
      <4>1. late'[r] = (oldest # NoPurge /\ oldest > seq)
        BY <1>t, <2>u, Zenon DEF TypeOK
      <4>2. ~late'[r] => ~(oldest # NoPurge /\ oldest > seq)
        BY <4>1, Zenon
      <4> QED BY <1>t, <4>2 DEF TypeOK
    <3>2. snap'[r] = seq /\ \A q \in Reader : q # r => snap'[q] = snap[q] /\ late'[q] = late[q]
      BY Zenon, <1>t, <2>u DEF TypeOK
    <3> QED BY Zenon, <1>w, <3>1, <3>2 DEF IndInv, PurgeInv
  <2>3. ObsoleteInvisible'
    <3> SUFFICES ASSUME NEW f \in File, NEW q \in Reader, state[f] = "kObsolete",
                        snap'[q] >= obsSeq[f], NEW i \in 1 .. snap'[q],
                        Visible(i, snap'[q])
                 PROVE  lsm[i].file # f
      BY Zenon, <1>w, <1>v DEF ObsoleteInvisible, Visible
    <3>1. CASE q = r
      <4>1. snap'[q] = seq /\ i \in Seqs
        BY <1>t, <2>u, <3>1 DEF TypeOK, Seqs
      <4>2. f # 0
        BY DEF File
      <4>3. i \in 1 .. seq /\ Visible(i, seq)
        BY Zenon, <4>1
      <4>4. lsm[i].type = "kTypeBlobIndex" => Alive(lsm[i].file)
        BY Zenon, <2>c, <4>3
      <4> QED BY Zenon, <1>t, <4>1, <4>2, <4>4 DEF Alive, LogInv, EntryOK
    <3>2. CASE q # r
      BY Zenon, <1>t, <2>u, <3>2 DEF IndInv, ObsoleteInvisible, TypeOK
    <3> QED BY Zenon, <3>1, <3>2
  <2>z. \A q : Readable(idx[q])' <=> Readable(idx[q])
    BY Zenon, <1>w, <2>u DEF Readable, Found, Present, Alive
  <2>4. SnapshotReadable'
    <3> SUFFICES ASSUME NEW q \in Reader, snap'[q] # NoSnap, ~late'[q]
                 PROVE  /\ \A i \in 1 .. snap'[q] :
                             Visible(i, snap'[q]) => Readable(lsm[i])
                        /\ Readable(idx[q])
                        /\ ~failed[q]
      BY Zenon, <1>w, <1>v, <1>y, <2>u, <2>z DEF SnapshotReadable
    <3>1. CASE q = r
      <4>1. snap'[q] = seq /\ idx[q] = NoEntry /\ ~failed[q]
        BY Zenon, <1>t, <2>u, <3>1 DEF TypeOK, ReaderInv
      <4>2. Readable(NoEntry)
        BY Zenon DEF Readable, NoEntry
      <4>3. ASSUME NEW i \in 1 .. snap'[q], Visible(i, snap'[q])
            PROVE  Readable(lsm[i])
        <5>1. i \in 1 .. seq /\ Visible(i, seq)
          BY Zenon, <4>1, <4>3
        <5> QED BY Zenon, <2>c, <5>1
      <4> QED BY Zenon, <4>1, <4>2, <4>3
    <3>2. CASE q # r
      BY Zenon, <1>t, <2>u, <3>2 DEF IndInv, SnapshotReadable, TypeOK
    <3> QED BY Zenon, <3>1, <3>2
  <2> QED BY Zenon, <1>1, <1>2, <1>4, <2>1, <2>2, <2>3, <2>4 DEF IndInv
<1>6. CASE \E i \in 1 .. seq : GetImpl(r, i)
  <2>u. PICK i \in 1 .. seq :
          /\ snap[r] # NoSnap
          /\ Visible(i, snap[r])
          /\ lsm[i].type = "kTypeBlobIndex"
          /\ idx' = [idx EXCEPT ![r] = lsm[i]]
          /\ UNCHANGED <<snap, late, failed>>
    BY Zenon, <1>6 DEF GetImpl
  <2>i. i \in Seqs /\ EntryOK(lsm[i]) /\ i \in 1 .. snap[r]
    BY <1>t, <2>u DEF TypeOK, Seqs, LogInv, Visible
  <2>1. ReaderInv'
    <3> SUFFICES ASSUME NEW q \in Reader, q = r
                 PROVE  state[lsm[i].file] = "kObsolete" =>
                          snap[r] <= obsSeq[lsm[i].file]
      BY Zenon, <1>t, <1>w, <2>u, <2>i DEF ReaderInv, TypeOK, EntryOK
    <3>1. lsm[i].file \in File
      BY Zenon, <2>u, <2>i DEF EntryOK
    <3>2. state[lsm[i].file] = "kObsolete" => ~(snap[r] >= obsSeq[lsm[i].file])
      BY Zenon, <2>u, <2>i, <3>1 DEF IndInv, ObsoleteInvisible
    <3> QED BY <1>t, <3>1, <3>2 DEF TypeOK
  <2>2. PurgeInv'
    BY Zenon, <1>w, <2>u DEF IndInv, PurgeInv
  <2>3. ObsoleteInvisible'
    BY Zenon, <1>w, <1>v, <2>u DEF IndInv, ObsoleteInvisible
  <2>4. SnapshotReadable'
    <3> SUFFICES ASSUME NEW q \in Reader, snap[q] # NoSnap, ~late[q]
                 PROVE  /\ \A k \in 1 .. snap[q] :
                             Visible(k, snap[q]) => Readable(lsm[k])
                        /\ Readable(idx'[q])
                        /\ ~failed[q]
      <4>1. \A p : Readable(idx[p])' <=> Readable(idx'[p])
        BY Zenon, <1>w DEF Readable, Found, Present, Alive
      <4> QED BY Zenon, <1>w, <1>v, <1>y, <2>u, <4>1 DEF SnapshotReadable
    <3>1. /\ \A k \in 1 .. snap[q] : Visible(k, snap[q]) => Readable(lsm[k])
          /\ Readable(idx[q])
          /\ ~failed[q]
      BY Zenon DEF IndInv, SnapshotReadable
    <3>2. idx'[q] = IF q = r THEN lsm[i] ELSE idx[q]
      BY Zenon, <1>t, <2>u DEF TypeOK
    <3>3. Readable(idx'[q])
      BY Zenon, <2>u, <2>i, <3>1, <3>2
    <3> QED BY Zenon, <3>1, <3>3
  <2> QED BY Zenon, <1>1, <1>2, <1>4, <2>1, <2>2, <2>3, <2>4 DEF IndInv
<1>7. CASE BlobStorageGet(r)
  <2>u. /\ idx[r] # NoEntry
        /\ failed' = [failed EXCEPT ![r] = failed[r] \/ ~Found(idx[r])]
        /\ idx' = [idx EXCEPT ![r] = NoEntry]
        /\ UNCHANGED <<snap, late>>
    BY Zenon, <1>7 DEF BlobStorageGet
  <2>1. ReaderInv'
    BY SMTT(30), <1>t, <1>w, <2>u DEF ReaderInv, TypeOK, EntryOK
  <2>2. PurgeInv'
    BY Zenon, <1>w, <2>u DEF IndInv, PurgeInv
  <2>3. ObsoleteInvisible'
    BY Zenon, <1>w, <1>v, <2>u DEF IndInv, ObsoleteInvisible
  <2>4. SnapshotReadable'
    <3>1. Readable(NoEntry)
      BY Zenon DEF Readable, NoEntry
    <3>2. Readable(idx[r]) => Found(idx[r])
      BY Zenon, <1>t, <2>u DEF ReaderInv, Readable
    <3> SUFFICES ASSUME NEW q \in Reader, snap[q] # NoSnap, ~late[q]
                 PROVE  /\ \A i \in 1 .. snap[q] :
                             Visible(i, snap[q]) => Readable(lsm[i])
                        /\ Readable(idx'[q])
                        /\ ~failed'[q]
      <4>1. \A p : Readable(idx[p])' <=> Readable(idx'[p])
        BY Zenon, <1>w DEF Readable, Found, Present, Alive
      <4> QED BY Zenon, <1>w, <1>v, <1>y, <2>u, <4>1 DEF SnapshotReadable
    <3> QED BY Zenon, <1>t, <2>u, <3>1, <3>2 DEF IndInv, SnapshotReadable, TypeOK
  <2> QED BY Zenon, <1>1, <1>2, <1>4, <2>1, <2>2, <2>3, <2>4 DEF IndInv
<1>8. CASE ReleaseSnapshot(r)
  <2>u. /\ snap' = [snap EXCEPT ![r] = NoSnap]
        /\ idx[r] = NoEntry
        /\ late' = [late EXCEPT ![r] = FALSE]
        /\ failed' = [failed EXCEPT ![r] = FALSE]
        /\ UNCHANGED idx
    BY Zenon, <1>8 DEF ReleaseSnapshot
  <2>1. ReaderInv'
    BY SMTT(30), <1>t, <1>w, <2>u DEF ReaderInv, TypeOK, EntryOK
  <2>2. PurgeInv'
    BY Zenon, <1>t, <1>w, <2>u DEF IndInv, PurgeInv, TypeOK
  <2>s. \A q \in Reader : snap'[q] = IF q = r THEN -1 ELSE snap[q]
    BY Zenon, <1>t, <2>u DEF TypeOK
  <2>3. ObsoleteInvisible'
    <3> SUFFICES ASSUME NEW f \in File, NEW q \in Reader,
                        state[f] = "kObsolete", snap'[q] >= obsSeq[f],
                        NEW i \in 1 .. snap'[q], Visible(i, snap'[q])
                 PROVE  lsm[i].file # f
      BY Zenon, <1>w DEF ObsoleteInvisible, Visible
    <3>1. CASE q = r
      <4>1. i \in 1 .. -1
        BY Zenon, <2>s, <3>1
      <4> QED BY Zenon, <4>1, EmptyRange
    <3>2. CASE q # r
      BY Zenon, <2>s, <3>2 DEF IndInv, ObsoleteInvisible
    <3> QED BY Zenon, <3>1, <3>2
  <2>z. \A q : Readable(idx[q])' <=> Readable(idx[q])
    BY Zenon, <1>w, <2>u DEF Readable, Found, Present, Alive
  <2>4. SnapshotReadable'
    <3> SUFFICES ASSUME NEW q \in Reader, snap'[q] # NoSnap, ~late'[q]
                 PROVE  /\ \A i \in 1 .. snap'[q] :
                             Visible(i, snap'[q]) => Readable(lsm[i])
                        /\ Readable(idx[q])
                        /\ ~failed'[q]
      BY Zenon, <1>w, <1>v, <1>y, <2>u, <2>z DEF SnapshotReadable
    <3>1. q # r /\ snap'[q] = snap[q]
      BY Zenon, <2>s
    <3>2. late'[q] = late[q] /\ failed'[q] = failed[q]
      BY Zenon, <1>t, <2>u, <3>1 DEF TypeOK
    <3> QED BY Zenon, <3>1, <3>2 DEF IndInv, SnapshotReadable
  <2> QED BY Zenon, <1>1, <1>2, <1>4, <2>1, <2>2, <2>3, <2>4 DEF IndInv
<1> QED BY Zenon, <1>5, <1>6, <1>7, <1>8

-----------------------------------------------------------------------------
(* Steps that change the states of files.                                  *)

\* When no file is lost, emptied or made obsolete, nothing changes for those
\* who read the log.
LEMMA FileFrame ==
  ASSUME IndInv, UNCHANGED <<lsmVars, readerVars, oldest>>,
         \A f \in File : Alive(f) => Alive(f)' /\ recs[f] \subseteq recs'[f],
         \A f \in File : /\ state[f] = "kObsolete" <=> state'[f] = "kObsolete"
                         /\ state[f] = "kObsolete" => /\ recs[f] \subseteq recs'[f]
                                                      /\ obsSeq'[f] = obsSeq[f]
  PROVE  LogInv' /\ ReaderInv' /\ PurgeInv' /\ ObsoleteInvisible'
         /\ CrashConsistent' /\ SnapshotReadable'
<1>t. TypeOK /\ LogInv /\ ReaderInv
  BY Zenon DEF IndInv
<1>u. UNCHANGED <<seq, lsm, flushed, synced, snap, late, idx, failed, oldest>>
  BY Zenon DEF lsmVars, readerVars
<1>1. LogInv' /\ PurgeInv'
  BY Zenon, <1>u DEF IndInv, LogInv, PurgeInv, EntryOK
<1>2. ReaderInv'
  BY Zenon, <1>u DEF IndInv, ReaderInv, EntryOK
<1>v. \A i, n : Visible(i, n)' <=> Visible(i, n)
  BY Zenon, <1>u DEF Visible
<1>3. ObsoleteInvisible'
  <2> SUFFICES ASSUME NEW f \in File, NEW r \in Reader, state'[f] = "kObsolete",
                      snap[r] >= obsSeq'[f], NEW i \in 1 .. snap[r],
                      Visible(i, snap[r])
               PROVE  lsm[i].file # f
    BY Zenon, <1>u, <1>v DEF ObsoleteInvisible
  <2>1. state[f] = "kObsolete" /\ snap[r] >= obsSeq[f]
    BY Zenon
  <2> QED BY Zenon, <2>1 DEF IndInv, ObsoleteInvisible
<1>r. ASSUME NEW e, EntryOK(e), Readable(e) PROVE Readable(e)'
  BY Zenon, <1>r DEF Readable, Found, Present, EntryOK
<1>4. CrashConsistent'
  <2> SUFFICES ASSUME NEW n \in synced .. seq, NEW i \in 1 .. n, Visible(i, n),
                      lsm[i].type = "kTypeBlobIndex"
               PROVE  Alive(lsm[i].file)' /\ Readable(lsm[i])'
    BY Zenon, <1>u, <1>v DEF CrashConsistent
  <2>1. Alive(lsm[i].file) /\ Readable(lsm[i])
    BY Zenon DEF IndInv, CrashConsistent
  <2>2. i \in Seqs
    BY Zenon, <1>t, LogRange, ConstantsAssumption DEF TypeOK, Seqs
  <2>3. EntryOK(lsm[i]) /\ lsm[i].file \in File
    BY Zenon, <1>t, <2>2 DEF LogInv, EntryOK
  <2>4. Readable(lsm[i])'
    BY Zenon, <1>r, <1>u, <2>1, <2>3 DEF Readable, Found, Present, EntryOK
  <2>5. Alive(lsm[i].file)'
    BY Zenon, <1>u, <2>1, <2>3 DEF Alive
  <2> QED BY Zenon, <2>4, <2>5
<1>5. SnapshotReadable'
  <2>1. ASSUME NEW i \in Seqs, Readable(lsm[i]) PROVE Readable(lsm[i])'
    BY Zenon, <1>r, <1>t, <1>u, <2>1 DEF Readable, Found, Present, EntryOK, LogInv
  <2>2. ASSUME NEW r \in Reader, Readable(idx[r]) PROVE Readable(idx[r])'
    <3>1. CASE idx[r] = NoEntry
      <4>1. idx'[r] = NoEntry
        BY Zenon, <1>u, <3>1
      <4>2. idx'[r].type = "none"
        BY Zenon, <4>1, NoEntryNone
      <4> QED BY Zenon, <4>2 DEF Readable
    <3>2. CASE idx[r] # NoEntry
      <4>1. EntryOK(idx[r])
        BY Zenon, <1>t, <3>2 DEF ReaderInv
      <4> QED BY Zenon, <1>r, <1>u, <2>2, <4>1 DEF Readable, Found, Present, EntryOK
    <3> QED BY Zenon, <3>1, <3>2
  <2> SUFFICES ASSUME NEW r \in Reader, snap[r] # NoSnap, ~late[r]
               PROVE  /\ \A i \in 1 .. snap[r] :
                           Visible(i, snap[r]) => Readable(lsm[i])'
                      /\ Readable(idx[r])'
                      /\ ~failed[r]
    BY Zenon, <1>u DEF SnapshotReadable, Visible
  <2>3. \A i \in 1 .. snap[r] : i \in Seqs
    BY Zenon, <1>t, SnapshotLogRange, ConstantsAssumption DEF TypeOK, Seqs
  <2> QED BY Zenon, <2>1, <2>2, <2>3 DEF IndInv, SnapshotReadable
<1> QED BY Zenon, <1>1, <1>2, <1>3, <1>4, <1>5

\* The output of a GC job is a file, in one of two states.
LEMMA OutputFile ==
  ASSUME IndInv, NEW w \in Worker, out[w] # NoFile
  PROVE  out[w] \in File /\ state[out[w]] \in {"kInit", "kPendingGC"}
<1>1. out[w] \in File
  BY DEF IndInv, TypeOK, File
<1>2. state[out[w]] \in {"kInit", "kPendingGC"}
  BY Zenon DEF IndInv, GCInv, WorkerInv
<1> QED BY Zenon, <1>1, <1>2

\* GC jobs see no change when their outputs are left alone.
LEMMA GCFrame ==
  ASSUME IndInv, UNCHANGED <<lsmVars, gcVars>>,
         \A f \in File : state[f] \in {"kInit", "kPendingGC"} =>
           state'[f] = state[f] /\ recs[f] \subseteq recs'[f]
  PROVE  GCInv'
<1>u. UNCHANGED <<seq, lsm, flushed, synced, gpc, gmode, inputs, todo, batches,
                  out>>
  BY Zenon DEF lsmVars, gcVars
<1> SUFFICES ASSUME NEW w \in Worker
             PROVE  WorkerInv(w)' /\ BatchInv(w)' /\ Tracked(w)' /\ InputsUnused(w)'
  BY Zenon DEF GCInv
<1>o. out[w] # NoFile => /\ state'[out[w]] = state[out[w]]
                         /\ recs[out[w]] \subseteq recs'[out[w]]
  BY Zenon, OutputFile
<1>1. WorkerInv(w)'
  BY Zenon, <1>u, <1>o DEF IndInv, GCInv, WorkerInv
<1>2. BatchInv(w)'
  BY Zenon, <1>u, <1>o DEF IndInv, GCInv, BatchInv
<1>3. Tracked(w)'
  <2>1. \A r : Current(r)' <=> Current(r)
    BY Zenon, <1>u DEF Current, Visible
  <2> QED BY Zenon, <1>u, <2>1 DEF IndInv, GCInv, Tracked
<1>4. InputsUnused(w)'
  BY Zenon, <1>u DEF IndInv, GCInv, InputsUnused, Visible
<1> QED BY Zenon, <1>1, <1>2, <1>3, <1>4

\* A step that moves no file into or out of the GC states.
LEMMA LeaseFrame ==
  ASSUME IndInv, UNCHANGED <<gpc, inputs, out>>,
         \A f \in File : /\ state'[f] = "kBeingGC" <=> state[f] = "kBeingGC"
                         /\ state'[f] = "kPendingGC" <=> state[f] = "kPendingGC"
  PROVE  GCLease'
<1>1. \A w \in Worker : inputs[w] \subseteq File
  BY Zenon DEF IndInv, TypeOK
<1> QED BY Zenon, <1>1 DEF IndInv, GCLease

\* Table jobs see no change when the files they wait for are left alone.
LEMMA JobFrame ==
  ASSUME IndInv, NEW j \in Job, jpc[j] = "built" => JobInv(j),
         UNCHANGED <<lsmVars, snap>>,
         jpc'[j] = jpc[j], jupto'[j] = jupto[j], jfile'[j] = jfile[j],
         jout'[j] = jout[j],
         jfile[j] \notin callbacks',
         \A f \in File : f = jfile[j] /\ state[f] = "kPendingLSM" =>
           state'[f] = state[f] /\ recs[f] \subseteq recs'[f]
  PROVE  JobInv(j)'
<1>u. UNCHANGED <<seq, lsm, flushed, synced, snap>>
  BY Zenon DEF lsmVars
<1> SUFFICES ASSUME jpc[j] = "built" PROVE JobInv(j)'
  BY Zenon DEF JobInv
<1> DEFINE I == JobInput(j, jupto[j])
<1>1. JobInv(j) /\ I' = I
  BY Zenon, <1>u DEF JobInput
<1>2. jfile[j] # NoFile => /\ jfile[j] \in File
                           /\ state'[jfile[j]] = "kPendingLSM"
                           /\ recs[jfile[j]] \subseteq recs'[jfile[j]]
  <2>1. jfile[j] # NoFile => jfile[j] \in File
    <3>1. jfile[j] \in 0 .. MaxFile
      BY Zenon DEF IndInv, TypeOK
    <3> QED BY Zenon, <3>1, FileNumber DEF NoFile
  <2> QED BY Zenon, <1>1, <2>1 DEF JobInv
<1>3. 0 \notin File
  BY Zenon, FileNumber
<1> HIDE DEF I
<1>4. ASSUME NEW i \in I, jout[j][i] # NoEntry
      PROVE  Rewrites(jout[j][i], lsm[i], jfile[j])'
  <2>1. Rewrites(jout[j][i], lsm[i], jfile[j])
    BY Zenon, <1>1, <1>4 DEF JobInv, I
  <2> QED BY Zenon, <1>u, <1>2, <1>3, <2>1 DEF Rewrites, NoFile
<1> QED BY Zenon, <1>u, <1>1, <1>2, <1>4 DEF JobInv, I

\* A step that leaves the log, the snapshots, the table jobs and the files in
\* state kPendingLSM alone keeps what the table jobs know.
LEMMA JobsFrame ==
  ASSUME IndInv, UNCHANGED <<lsmVars, snap, jpc, jupto, jfile, jout, callbacks>>,
         \A f \in File : state[f] = "kPendingLSM" =>
           state'[f] = state[f] /\ recs[f] \subseteq recs'[f]
  PROVE  JobsInv'
<1>1. ASSUME NEW j \in Job PROVE JobInv(j)'
  <2>1. JobInv(j)
    BY Zenon DEF IndInv, JobsInv
  <2>2. CASE jpc[j] = "built"
    <3>1. jfile[j] \notin callbacks'
      BY Zenon, <2>1, <2>2 DEF JobInv
    <3> QED BY Zenon, <2>1, <3>1, JobFrame
  <2>3. CASE jpc[j] # "built"
    BY Zenon, <2>3 DEF JobInv
  <2> QED BY Zenon, <2>2, <2>3
<1>2. \A f \in callbacks' : state'[f] = "kPendingLSM"
  BY Zenon DEF IndInv, JobsInv, TypeOK
<1> QED BY Zenon, <1>1, <1>2 DEF IndInv, JobsInv

-----------------------------------------------------------------------------
(* Flush and compaction.                                                   *)

\* The blob file of a new table has a fresh number.
LEMMA BuildTableFiles ==
  ASSUME IndInv, NEW j \in Job, NEW mode \in RunMode, NEW sep,
         BuildTable(j, mode, sep)
  PROVE  /\ jfile'[j] \in 0 .. MaxFile
         /\ jfile'[j] # NoFile => /\ jfile'[j] = nextFile
                                  /\ nextFile \in File
                                  /\ state[nextFile] = "kNone"
                                  /\ state'[nextFile] = "kPendingLSM"
         /\ nextFile' \in 1 .. (MaxFile + 1)
         /\ state' \in [File -> FileState]
         /\ recs' \in [File -> SUBSET BlobRecord]
         /\ obsSeq' = obsSeq
         /\ nextFile' >= nextFile
         /\ \A f \in File : f # jfile'[j] => state'[f] = state[f] /\ recs'[f] = recs[f]
         /\ FreshInv'
<1> USE ConstantsAssumption
<1>t. TypeOK /\ LogInv /\ FreshInv
  BY Zenon DEF IndInv
<1> DEFINE upto == IF j = "flush" THEN seq ELSE flushed
           I == JobInput(j, upto)
           f == IF sep = {} THEN NoFile ELSE nextFile
<1>1. /\ sep \subseteq Separable(j, I, mode)
      /\ IF sep = {}
         THEN UNCHANGED fileVars
         ELSE /\ nextFile \in File
              /\ nextFile' = nextFile + 1
              /\ state' = [state EXCEPT ![f] = "kPendingLSM"]
              /\ recs' = [recs EXCEPT ![f] = {RecordOf(lsm[i]) : i \in sep}]
              /\ UNCHANGED obsSeq
      /\ jfile' = [jfile EXCEPT ![j] = f]
  BY Zenon DEF BuildTable
<1>2. jfile'[j] = f
  BY Zenon, <1>1, <1>t DEF TypeOK
<1>3. CASE sep = {}
  BY <1>t, <1>1, <1>2, <1>3 DEF fileVars, TypeOK, FreshInv
<1>4. CASE sep # {}
  <2>1. {RecordOf(lsm[i]) : i \in sep} \subseteq BlobRecord
    <3>1. I \subseteq Seqs
      BY <1>t DEF JobInput, TypeOK, LogInv, Seqs
    <3>2. \A i \in sep : i \in Seqs /\ lsm[i].type = "kTypeValue"
      BY Zenon, <1>1, <3>1 DEF Separable
    <3>3. \A i \in sep : lsm[i].key \in Key /\ lsm[i].val \in 1 .. MaxPut
      BY Zenon, <1>t, <3>2 DEF LogInv, EntryOK
    <3> QED BY Zenon, <3>3, RecordIsBlob
  <2>2. state[nextFile] = "kNone" /\ nextFile \in File /\ f = nextFile
    BY <1>t, <1>1, <1>4 DEF FreshInv, TypeOK, File
  <2>3. recs' \in [File -> SUBSET BlobRecord]
    BY SMTT(30), <1>t, <1>1, <1>4, <2>1 DEF TypeOK
  <2>4. state' \in [File -> FileState] /\ nextFile' \in 1 .. (MaxFile + 1)
    BY SMTT(30), <1>t, <1>1, <1>4 DEF TypeOK, FileState, File
  <2>5. FreshInv'
    BY SMTT(30), <1>t, <1>1, <1>4, <2>2 DEF TypeOK, FreshInv, File
  <2> HIDE DEF f
  <2>6. \A g \in File : g # f => state'[g] = state[g] /\ recs'[g] = recs[g]
    BY Zenon, <1>t, <1>1, <1>4 DEF TypeOK
  <2>7. state'[nextFile] = "kPendingLSM"
    BY Zenon, <1>t, <1>1, <1>4, <2>2 DEF TypeOK
  <2>8. nextFile' >= nextFile /\ obsSeq' = obsSeq
    BY <1>t, <1>1, <1>4 DEF TypeOK
  <2> QED BY <1>t, <1>2, <2>2, <2>3, <2>4, <2>5, <2>6, <2>7, <2>8 DEF TypeOK, File
<1> QED BY Zenon, <1>3, <1>4

\* An entry the table leaves out is hidden by a newer one from every snapshot,
\* or its key is gone.
LEMMA TableDrops ==
  ASSUME TypeOK, LogInv, NEW j \in Job, NEW mode, NEW sep, NEW f,
         NEW I \in SUBSET Seqs, NEW k \in I,
         Table(j, I, mode, sep, f)[k] = NoEntry,
         lsm[k] # NoEntry
  PROVE  \/ \E m \in I : /\ k < m
                         /\ lsm[m].key = lsm[k].key
                         /\ \A r \in Reader : snap[r] \notin k .. (m - 1)
         \/ /\ j # "flush"
            /\ lsm[k].type = "kTypeDeletion"
            /\ \A i \in I : i < k /\ lsm[i].key = lsm[k].key =>
                 Table(j, I, mode, sep, f)[i] = NoEntry
<1> USE ConstantsAssumption
<1>1. k \in Seqs /\ k \in Nat /\ \A i \in I : i \in Seqs /\ i \in Nat
  BY DEF Seqs
<1>2. lsm[k].key \in Key /\ lsm[k].key # 0
  BY Zenon, <1>1 DEF LogInv, EntryOK
<1>3. Dropped(j, I, k)
  <2> SUFFICES ASSUME ~Dropped(j, I, k) PROVE FALSE
    BY Zenon
  <2>1. TableEntry(k, mode, sep, f) = NoEntry
    BY Zenon, <1>1 DEF Table
  <2>2. TableEntry(k, mode, sep, f).key = lsm[k].key
    BY Zenon DEF TableEntry, BlobEntry, ValueEntry
  <2> QED BY <1>2, <2>1, <2>2 DEF NoEntry
<1>4. CASE /\ j = "compaction"
           /\ lsm[k].type = "kTypeDeletion"
           /\ \A i \in I : i < k /\ lsm[i].key = lsm[k].key =>
                \A r \in Reader : snap[r] \notin i .. (k - 1)
  <2>1. ASSUME NEW i \in I, i < k, lsm[i].key = lsm[k].key
        PROVE  Dropped(j, I, i)
    <3>1. \A r \in Reader : snap[r] \notin i .. (k - 1)
      BY Zenon, <1>4, <2>1
    <3> QED BY Zenon, <1>1, <2>1, <3>1 DEF Dropped
  <2> QED BY Zenon, <1>1, <1>4, <2>1 DEF Table
<1> QED BY Zenon, <1>3, <1>4 DEF Dropped

\* What a table job knows once it has built its table.
LEMMA BuildTableJob ==
  ASSUME IndInv, NEW j \in Job, NEW mode \in RunMode, NEW sep,
         BuildTable(j, mode, sep)
  PROVE  JobInv(j)' /\ jout' \in [Job -> [Seqs -> Entry]]
<1> USE ConstantsAssumption
<1>t. TypeOK /\ LogInv
  BY Zenon DEF IndInv
<1> DEFINE upto == IF j = "flush" THEN seq ELSE flushed
           I == JobInput(j, upto)
           f == IF sep = {} THEN NoFile ELSE nextFile
           T == Table(j, I, mode, sep, f)
<1>1. /\ sep \subseteq Separable(j, I, mode)
      /\ sep # {} => /\ nextFile \in File
                     /\ recs' = [recs EXCEPT ![f] = {RecordOf(lsm[i]) : i \in sep}]
      /\ jupto' = [jupto EXCEPT ![j] = upto]
      /\ jfile' = [jfile EXCEPT ![j] = f]
      /\ jout' = [jout EXCEPT ![j] = T]
      /\ UNCHANGED <<seq, lsm, flushed, synced, snap, callbacks>>
  BY Zenon DEF BuildTable, lsmVars, readerVars
<1>2. jupto'[j] = upto /\ jfile'[j] = f /\ jout'[j] = T
  BY Zenon, <1>t, <1>1 DEF TypeOK
<1>3. JobInput(j, jupto[j])' = I
  BY Zenon, <1>1, <1>2 DEF JobInput
<1>4. I \subseteq Seqs
  BY <1>t DEF JobInput, TypeOK, LogInv, Seqs
<1>5. /\ upto <= (IF j = "flush" THEN seq ELSE flushed)
      /\ j = "flush" => flushed <= upto
  BY <1>t DEF TypeOK, LogInv
<1>6. f # NoFile => state'[f] = "kPendingLSM"
  BY Zenon, <1>2, BuildTableFiles
<1>7. f \notin callbacks
  <2>1. 0 \notin callbacks
    BY <1>t DEF TypeOK, File
  <2>2. nextFile \in File => nextFile \notin callbacks
    <3>1. nextFile \in File => state[nextFile] = "kNone"
      BY <1>t DEF IndInv, FreshInv, TypeOK
    <3> QED BY Zenon, <1>t, <3>1 DEF IndInv, JobsInv, TypeOK
  <2> QED BY Zenon, <1>1, <2>1, <2>2
<1>8. ASSUME NEW i \in I, T[i] # NoEntry
      PROVE  Rewrites(jout[j][i], lsm[i], jfile[j])'
  <2>1. T[i] = TableEntry(i, mode, sep, f) /\ i \in Seqs
    BY Zenon, <1>4, <1>8 DEF Table
  <2>2. CASE i \in sep
    <3>1. sep # {} /\ f = nextFile /\ f \in File /\ lsm[i].type = "kTypeValue"
      BY Zenon, <1>1, <2>2 DEF Separable
    <3>2. T[i] = BlobEntry(lsm[i].key, lsm[i].val, f)
      BY Zenon, <2>1, <2>2 DEF TableEntry
    <3>3. RecordOf(lsm[i]) \in recs'[f]
      BY <1>t, <1>1, <2>2, <3>1 DEF TypeOK
    <3> HIDE DEF f, T
    <3> QED BY Zenon, <1>1, <1>2, <3>1, <3>2, <3>3 DEF Rewrites
  <2>3. CASE i \notin sep
    <3> HIDE DEF f, T
    <3> QED BY ZenonT(40), <1>1, <1>2, <2>1, <2>3 DEF TableEntry, Rewrites
  <2> QED BY Zenon, <2>2, <2>3
<1>9. ASSUME NEW k \in I, T[k] = NoEntry, lsm[k] # NoEntry
      PROVE  \/ \E m \in I : /\ k < m
                             /\ lsm[m].key = lsm[k].key
                             /\ \A r \in Reader : snap[r] \notin k .. (m - 1)
             \/ /\ j # "flush"
                /\ lsm[k].type = "kTypeDeletion"
                /\ \A i \in I : i < k /\ lsm[i].key = lsm[k].key => T[i] = NoEntry
  BY <1>t, <1>4, <1>9, TableDrops
<1>10. T \in [Seqs -> Entry]
  <2>2. ASSUME NEW i \in Seqs PROVE TableEntry(i, mode, sep, f) \in Entry
    <3>1. lsm[i] \in Entry /\ f \in 0 .. MaxFile
      BY <1>t, <1>1 DEF TypeOK, File
    <3> HIDE DEF f
    <3> QED BY Zenon, <3>1, MadeEntries DEF TableEntry
  <2> QED BY Zenon, <2>2, NoEntryType DEF Table
<1> HIDE DEF I, f, T, upto
<1>11. JobInv(j)'
  <2>1. /\ jupto'[j] <= (IF j = "flush" THEN seq' ELSE flushed')
        /\ j = "flush" => flushed' <= jupto'[j]
    <3>1. jupto'[j] = upto /\ seq' = seq /\ flushed' = flushed
      BY Zenon, <1>1, <1>2
    <3> QED BY Zenon, <1>5, <3>1
  <2>2. /\ jfile'[j] # NoFile => state'[jfile'[j]] = "kPendingLSM"
        /\ jfile'[j] \notin callbacks'
    <3>1. jfile'[j] = f /\ callbacks' = callbacks
      BY Zenon, <1>1, <1>2
    <3> QED BY Zenon, <1>6, <1>7, <3>1 DEF NoFile
  <2>3. ASSUME NEW k \in I, jout'[j][k] = NoEntry, lsm'[k] # NoEntry
        PROVE  \/ \E m \in I : /\ k < m
                               /\ lsm'[m].key = lsm'[k].key
                               /\ \A r \in Reader : snap'[r] \notin k .. (m - 1)
               \/ /\ j # "flush"
                  /\ lsm'[k].type = "kTypeDeletion"
                  /\ \A i \in I : i < k /\ lsm'[i].key = lsm'[k].key => jout'[j][i] = NoEntry
    <3>1. T[k] = NoEntry /\ lsm[k] # NoEntry /\ lsm' = lsm /\ snap' = snap
      BY Zenon, <1>1, <1>2, <2>3
    <3> QED BY Zenon, <1>2, <1>9, <2>3, <3>1
  <2>4. \A i \in I : jout'[j][i] # NoEntry => Rewrites(jout[j][i], lsm[i], jfile[j])'
    BY Zenon, <1>2, <1>8
  <2> QED BY Zenon, <1>3, <2>1, <2>2, <2>3, <2>4 DEF JobInv
<1>12. jout' \in [Job -> [Seqs -> Entry]]
  BY Zenon, <1>t, <1>1, <1>10 DEF TypeOK
<1> QED BY Zenon, <1>11, <1>12

\* BuildTable preserves the invariant.
LEMMA BuildTablePreserves ==
  ASSUME IndInv, NEW j \in Job, NEW mode \in RunMode, NEW sep,
         BuildTable(j, mode, sep)
  PROVE  IndInv'
<1> USE ConstantsAssumption
<1>t. TypeOK /\ LogInv
  BY Zenon DEF IndInv
<1>b. UNCHANGED <<lsmVars, userVars, bgError, readerVars, oldest, callbacks,
                  gcVars>>
  BY Zenon DEF BuildTable
<1>u. UNCHANGED <<seq, lsm, flushed, synced, snap, callbacks, gpc, gmode,
                  inputs, todo, batches, out>>
  BY Zenon, <1>b DEF lsmVars, readerVars, gcVars
<1>f. /\ jfile'[j] \in 0 .. MaxFile
      /\ jfile'[j] # NoFile => /\ jfile'[j] = nextFile
                               /\ nextFile \in File
                               /\ state[nextFile] = "kNone"
                               /\ state'[nextFile] = "kPendingLSM"
      /\ nextFile' \in 1 .. (MaxFile + 1)
      /\ state' \in [File -> FileState]
      /\ recs' \in [File -> SUBSET BlobRecord]
      /\ obsSeq' = obsSeq
      /\ \A f \in File : f # jfile'[j] => state'[f] = state[f] /\ recs'[f] = recs[f]
      /\ FreshInv'
  BY Zenon, BuildTableFiles
<1>z. 0 \notin File
  BY DEF File
<1>g. \A f \in File : state[f] # "kNone" => state'[f] = state[f] /\ recs'[f] = recs[f]
  BY Zenon, <1>f, <1>z
<1>h. \A f \in File : state'[f] # "kPendingLSM" => state'[f] = state[f]
  BY Zenon, <1>f, <1>z
<1>j. JobInv(j)' /\ jout' \in [Job -> [Seqs -> Entry]]
  BY Zenon, BuildTableJob
<1>k. /\ jpc' = [jpc EXCEPT ![j] = "built"]
      /\ \E n \in {seq, flushed} : jupto' = [jupto EXCEPT ![j] = n]
      /\ \E f \in {NoFile, nextFile} : jfile' = [jfile EXCEPT ![j] = f]
      /\ \E T : jout' = [jout EXCEPT ![j] = T]
  BY Zenon DEF BuildTable
<1>o. \A k \in Job : k # j => /\ jpc'[k] = jpc[k] /\ jupto'[k] = jupto[k]
                              /\ jfile'[k] = jfile[k] /\ jout'[k] = jout[k]
  BY Zenon, <1>t, <1>k DEF TypeOK
<1>1. TypeOK'
  <2>1. jpc' \in [Job -> JobPC] /\ jupto' \in [Job -> 0 .. MaxSeq]
    BY <1>t, <1>k DEF TypeOK, JobPC
  <2>2. jfile' \in [Job -> 0 .. MaxFile]
    BY <1>t, <1>k, <1>f DEF TypeOK
  <2> QED BY Zenon, <1>t, <1>b, <1>f, <1>j, <2>1, <2>2
          DEF TypeOK, lsmVars, userVars, readerVars, gcVars
<1>2. LogInv' /\ ReaderInv' /\ PurgeInv' /\ ObsoleteInvisible'
      /\ CrashConsistent' /\ SnapshotReadable'
  <2>1. \A f \in File : Alive(f) => Alive(f)' /\ recs[f] \subseteq recs'[f]
    BY Zenon, <1>g DEF Alive
  <2>2. \A f \in File : /\ state[f] = "kObsolete" <=> state'[f] = "kObsolete"
                        /\ state[f] = "kObsolete" => /\ recs[f] \subseteq recs'[f]
                                                     /\ obsSeq'[f] = obsSeq[f]
    BY Zenon, <1>f, <1>g, <1>h
  <2> QED BY Zenon, <1>b, <2>1, <2>2, FileFrame
<1>3. JobsInv'
  <2>1. ASSUME NEW k \in Job, k # j PROVE JobInv(k)'
    <3>1. JobInv(k)
      BY Zenon DEF IndInv, JobsInv
    <3>2. CASE jpc[k] = "built"
      <4>1. jfile[k] \notin callbacks'
        BY Zenon, <1>u, <3>1, <3>2 DEF JobInv
      <4> QED BY Zenon, <1>b, <1>u, <1>g, <1>o, <2>1, <3>1, <4>1, JobFrame
    <3>3. CASE jpc[k] # "built"
      BY Zenon, <1>o, <2>1, <3>3 DEF JobInv
    <3> QED BY Zenon, <3>2, <3>3
  <2>2. \A f \in callbacks' : state'[f] = "kPendingLSM"
    BY Zenon, <1>t, <1>u, <1>g DEF IndInv, JobsInv, TypeOK
  <2>3. ASSUME NEW k \in Job, k # j, jpc[k] = "built", jfile[k] # NoFile
        PROVE  jfile'[j] # jfile[k]
    <3>1. state[jfile[k]] = "kPendingLSM"
      BY Zenon, <2>3 DEF IndInv, JobsInv, JobInv
    <3> QED BY Zenon, <1>f, <2>3, <3>1
  <2>4. ASSUME NEW k \in Job, NEW m \in Job, k # m,
               jpc'[k] = "built", jpc'[m] = "built", jfile'[k] = jfile'[m]
        PROVE  jfile'[k] = NoFile
    <3>1. CASE k # j /\ m # j
      <4>1. /\ jpc[k] = "built" /\ jpc[m] = "built"
            /\ jfile[k] = jfile[m] /\ jfile'[k] = jfile[k]
        BY Zenon, <1>o, <2>4, <3>1
      <4>2. JobsInv
        BY Zenon DEF IndInv
      <4> QED BY Zenon, <2>4, <4>1, <4>2 DEF JobsInv
    <3>2. CASE k = j
      BY Zenon, <1>o, <2>3, <2>4, <3>2
    <3>3. CASE m = j
      BY Zenon, <1>o, <2>3, <2>4, <3>3
    <3> QED BY Zenon, <3>1, <3>2, <3>3
  <2> QED BY Zenon, <1>j, <2>1, <2>2, <2>4 DEF JobsInv
<1>4. GCLease'
  BY Zenon, <1>u, <1>g, <1>h, LeaseFrame
<1>5. GCInv'
  BY Zenon, <1>b, <1>g, GCFrame
<1> QED BY Zenon, <1>f, <1>1, <1>2, <1>3, <1>4, <1>5 DEF IndInv

\* BuildFails preserves the invariant.
LEMMA BuildFailsPreserves ==
  ASSUME IndInv, NEW j \in Job, BuildFails(j)
  PROVE  IndInv'
<1>u. UNCHANGED <<lsmVars, userVars, fileVars, readerVars, oldest, jobVars, gcVars>>
      /\ bgError' = TRUE
  BY Zenon DEF BuildFails
<1>v. UNCHANGED <<nextFile, state, recs, obsSeq, snap, jpc, jupto, jfile, jout,
                  callbacks>>
  BY Zenon, <1>u DEF fileVars, readerVars, jobVars
<1>1. TypeOK'
  BY Zenon, <1>u DEF IndInv, TypeOK, lsmVars, userVars, fileVars, readerVars, jobVars, gcVars
<1>2. FreshInv' /\ GCLease' /\ GCInv'
  BY Zenon, <1>u, LogFrame
<1>3. LogInv' /\ ReaderInv' /\ PurgeInv' /\ ObsoleteInvisible'
      /\ CrashConsistent' /\ SnapshotReadable'
  BY Zenon, <1>u, <1>v, FileFrame DEF Alive
<1>4. JobsInv'
  BY Zenon, <1>u, <1>v, JobsFrame
<1> QED BY Zenon, <1>1, <1>2, <1>3, <1>4 DEF IndInv

\* InstallFails preserves the invariant.
LEMMA InstallFailsPreserves ==
  ASSUME IndInv, NEW j \in Job, InstallFails(j)
  PROVE  IndInv'
<1>u. UNCHANGED <<lsmVars, userVars, bgError, fileVars, readerVars, oldest,
                  callbacks, gcVars>>
  BY Zenon DEF InstallFails
<1>v. UNCHANGED <<nextFile, state, recs, obsSeq, snap>>
  BY Zenon, <1>u DEF fileVars, readerVars
<1>e. EndTable(j)
  BY Zenon DEF InstallFails
<1>t. TypeOK
  BY Zenon DEF IndInv
<1>o. /\ jpc'[j] = "idle"
      /\ \A k \in Job : k # j => /\ jpc'[k] = jpc[k] /\ jupto'[k] = jupto[k]
                                 /\ jfile'[k] = jfile[k] /\ jout'[k] = jout[k]
  BY Zenon, <1>t, <1>e DEF TypeOK, EndTable
<1>1. TypeOK'
  <2>2. /\ jpc' \in [Job -> JobPC] /\ jupto' \in [Job -> 0 .. MaxSeq]
        /\ jfile' \in [Job -> 0 .. MaxFile] /\ jout' \in [Job -> [Seqs -> Entry]]
    BY <1>t, <1>e, NoEntryType, ConstantsAssumption DEF TypeOK, EndTable, JobPC
  <2> QED BY Zenon, <1>t, <1>u, <2>2 DEF TypeOK, lsmVars, userVars, fileVars, readerVars, gcVars
<1>2. FreshInv' /\ GCLease' /\ GCInv'
  BY Zenon, <1>u, LogFrame
<1>3. LogInv' /\ ReaderInv' /\ PurgeInv' /\ ObsoleteInvisible'
      /\ CrashConsistent' /\ SnapshotReadable'
  BY Zenon, <1>u, <1>v, FileFrame DEF Alive
<1>4. JobsInv'
  <2>1. ASSUME NEW k \in Job PROVE JobInv(k)'
    <3>1. CASE jpc'[k] = "built"
      <4>1. k # j /\ jpc[k] = "built" /\ JobInv(k)
        BY Zenon, <1>o, <3>1 DEF IndInv, JobsInv
      <4>2. jfile[k] \notin callbacks'
        BY Zenon, <1>u, <4>1 DEF JobInv
      <4> QED BY Zenon, <1>u, <1>v, <1>o, <4>1, <4>2, JobFrame
    <3>2. CASE jpc'[k] # "built"
      BY Zenon, <3>2 DEF JobInv
    <3> QED BY Zenon, <3>1, <3>2
  <2>2. \A f \in callbacks' : state'[f] = "kPendingLSM"
    BY Zenon, <1>u, <1>v DEF IndInv, JobsInv
  <2>3. \A k, m \in Job : k # m /\ jpc'[k] = "built" /\ jpc'[m] = "built" =>
          (jfile'[k] = jfile'[m] => jfile'[k] = NoFile)
    BY <1>o DEF IndInv, JobsInv
  <2> QED BY Zenon, <2>1, <2>2, <2>3 DEF JobsInv
<1> QED BY Zenon, <1>1, <1>2, <1>3, <1>4 DEF IndInv

\* OnTableCompleted preserves the invariant.
LEMMA OnTableCompletedPreserves ==
  ASSUME IndInv, NEW f \in File, OnTableCompleted(f)
  PROVE  IndInv'
<1>u. /\ UNCHANGED <<lsmVars, userVars, bgError, nextFile, recs, obsSeq,
                     readerVars, oldest, jpc, jupto, jfile, jout, gcVars>>
      /\ f \in callbacks
      /\ callbacks' = callbacks \ {f}
      /\ state' = [state EXCEPT ![f] = IF @ = "kPendingLSM" THEN "kNormal" ELSE @]
  BY Zenon DEF OnTableCompleted
<1>v. UNCHANGED snap
  BY Zenon, <1>u DEF readerVars
<1>t. TypeOK
  BY Zenon DEF IndInv
<1>s. /\ state[f] = "kPendingLSM"
      /\ state'[f] = "kNormal"
      /\ \A g \in File : g # f => state'[g] = state[g]
  BY Zenon, <1>t, <1>u DEF TypeOK, IndInv, JobsInv
<1>1. TypeOK'
  <2>1. state' \in [File -> FileState] /\ callbacks' \in SUBSET File
    BY Zenon, <1>t, <1>u DEF TypeOK, FileState
  <2> QED BY Zenon, <1>t, <1>u, <2>1 DEF TypeOK, lsmVars, userVars, readerVars, gcVars
<1>2. FreshInv'
  BY Zenon, <1>u, <1>s DEF IndInv, FreshInv
<1>3. LogInv' /\ ReaderInv' /\ PurgeInv' /\ ObsoleteInvisible'
      /\ CrashConsistent' /\ SnapshotReadable'
  <2>1. \A g \in File : Alive(g) => Alive(g)' /\ recs[g] \subseteq recs'[g]
    BY Zenon, <1>u, <1>s DEF Alive
  <2>2. \A g \in File : /\ state[g] = "kObsolete" <=> state'[g] = "kObsolete"
                        /\ state[g] = "kObsolete" => /\ recs[g] \subseteq recs'[g]
                                                     /\ obsSeq'[g] = obsSeq[g]
    BY Zenon, <1>u, <1>s
  <2> QED BY Zenon, <1>u, <2>1, <2>2, FileFrame
<1>4. JobsInv'
  <2>1. ASSUME NEW k \in Job PROVE JobInv(k)'
    <3>1. CASE jpc[k] = "built"
      <4>1. JobInv(k) /\ jfile[k] \notin callbacks
        BY Zenon, <3>1 DEF IndInv, JobsInv, JobInv
      <4>2. jfile[k] \notin callbacks' /\ jfile[k] # f
        BY Zenon, <1>u, <4>1
      <4> QED BY Zenon, <1>u, <1>v, <1>s, <4>1, <4>2, JobFrame
    <3>2. CASE jpc[k] # "built"
      BY Zenon, <1>u, <3>2 DEF JobInv
    <3> QED BY Zenon, <3>1, <3>2
  <2>2. \A g \in callbacks' : state'[g] = "kPendingLSM"
    BY Zenon, <1>t, <1>u, <1>s DEF IndInv, JobsInv, TypeOK
  <2> QED BY Zenon, <1>u, <2>1, <2>2 DEF IndInv, JobsInv
<1>5. GCLease'
  <2>1. UNCHANGED <<gpc, inputs, out>>
    BY Zenon, <1>u DEF gcVars
  <2> QED BY Zenon, <1>s, <2>1, LeaseFrame
<1>6. GCInv'
  BY Zenon, <1>u, <1>s, GCFrame
<1> QED BY Zenon, <1>1, <1>2, <1>3, <1>4, <1>5, <1>6 DEF IndInv

\* The range of an installed table, and what it has become.
LEMMA InstallTableRange ==
  ASSUME IndInv, NEW j \in Job, InstallTable(j), NEW I,
         I = JobInput(j, jupto[j])
  PROVE  /\ I \subseteq Seqs
         /\ \A m \in I : m <= synced' /\ m <= seq
         /\ flushed' <= synced' /\ synced <= synced' /\ synced' <= seq
         /\ flushed' \in 0 .. MaxSeq /\ synced' \in 0 .. MaxSeq
         /\ flushed <= flushed'
         /\ \A i \in I : lsm'[i] = jout[j][i]
         /\ \A i \in Seqs : i \notin I => lsm'[i] = lsm[i]
         /\ \A i \in I : lsm'[i] # NoEntry => Rewrites(lsm'[i], lsm[i], jfile[j])
         /\ jfile[j] # NoFile => jfile[j] \in File /\ state[jfile[j]] = "kPendingLSM"
<1> USE ConstantsAssumption
<1>t. TypeOK /\ LogInv
  BY Zenon DEF IndInv
<1>j. JobInv(j) /\ jpc[j] = "built"
  BY Zenon DEF IndInv, JobsInv, InstallTable
<1>u. /\ lsm' = [i \in Seqs |-> IF i \in I THEN jout[j][i] ELSE lsm[i]]
      /\ flushed' = IF j = "flush" THEN jupto[j] ELSE flushed
      /\ synced' = IF synced < flushed' THEN flushed' ELSE synced
  BY Zenon DEF InstallTable
<1>1. /\ jupto[j] \in 0 .. MaxSeq
      /\ jupto[j] <= seq
      /\ j = "flush" => flushed <= jupto[j]
      /\ j # "flush" => jupto[j] <= flushed
  BY <1>t, <1>j DEF TypeOK, LogInv, JobInv
<1>2. /\ flushed' <= synced' /\ synced <= synced' /\ synced' <= seq
      /\ flushed' \in 0 .. MaxSeq /\ synced' \in 0 .. MaxSeq
      /\ flushed <= flushed'
      /\ jupto[j] <= synced'
  BY <1>t, <1>u, <1>1 DEF TypeOK, LogInv
<1>3. I \subseteq Seqs /\ \A m \in I : m \in Nat /\ m <= jupto[j]
  BY <1>t, <1>1 DEF JobInput, TypeOK, Seqs
<1>4. \A m \in I : m <= synced' /\ m <= seq
  BY <1>t, <1>1, <1>2, <1>3 DEF TypeOK
<1>5. /\ \A i \in I : lsm'[i] = jout[j][i]
      /\ \A i \in Seqs : i \notin I => lsm'[i] = lsm[i]
  BY Zenon, <1>u, <1>3
<1>6. \A i \in I : lsm'[i] # NoEntry => Rewrites(lsm'[i], lsm[i], jfile[j])
  BY Zenon, <1>j, <1>5 DEF JobInv
<1>7. jfile[j] # NoFile => jfile[j] \in File /\ state[jfile[j]] = "kPendingLSM"
  <2>1. jfile[j] # NoFile => jfile[j] \in File
    BY <1>t DEF TypeOK, File
  <2> QED BY Zenon, <1>j, <2>1 DEF JobInv
<1> QED BY Zenon, <1>2, <1>3, <1>4, <1>5, <1>6, <1>7

\* What an installed table says of an entry: nothing, or the same as before.
LEMMA RewritesKey ==
  ASSUME TypeOK, NEW e, NEW o, NEW f, EntryOK(o), Rewrites(e, o, f)
  PROVE  /\ e.key = o.key
         /\ e.type # "none" => o.type # "none"
         /\ EntryOK(e)
<1>1. CASE e = o
  BY Zenon, <1>1
<1>2. CASE o.type = "kTypeBlobIndex" /\ e = ValueEntry(o.key, o.val)
  BY Zenon, <1>2 DEF ValueEntry, EntryOK
<1>3. CASE /\ o.type = "kTypeValue"
           /\ f \in File
           /\ e = BlobEntry(o.key, o.val, f)
  BY Zenon, <1>3 DEF BlobEntry, EntryOK
<1> QED BY Zenon, <1>1, <1>2, <1>3 DEF Rewrites

\* Installing a table shows nothing new at the sequence numbers that matter: a
\* visible entry was visible before.
LEMMA InstallTableVisible ==
  ASSUME IndInv, NEW j \in Job, InstallTable(j),
         NEW n \in 0 .. seq,
         n >= synced' \/ \E r \in Reader : snap[r] = n,
         NEW i \in 1 .. n, Visible(i, n)'
  PROVE  /\ Visible(i, n)
         /\ \/ lsm'[i] = lsm[i]
            \/ Rewrites(lsm'[i], lsm[i], jfile[j])
<1> USE ConstantsAssumption
<1>t. TypeOK /\ LogInv
  BY Zenon DEF IndInv
<1>j. JobInv(j) /\ jpc[j] = "built"
  BY Zenon DEF IndInv, JobsInv, InstallTable
<1> DEFINE I == JobInput(j, jupto[j])
<1>r. /\ I \subseteq Seqs
      /\ \A m \in I : m <= synced' /\ m <= seq
      /\ synced' \in 0 .. MaxSeq
      /\ \A m \in I : lsm'[m] = jout[j][m]
      /\ \A m \in Seqs : m \notin I => lsm'[m] = lsm[m]
      /\ \A m \in I : lsm'[m] # NoEntry => Rewrites(lsm'[m], lsm[m], jfile[j])
  <2>1. I = JobInput(j, jupto[j])
    OBVIOUS
  <2> HIDE DEF I
  <2> QED BY Zenon, <2>1, InstallTableRange
<1>d. \A k \in I : jout[j][k] = NoEntry /\ lsm[k] # NoEntry =>
         \/ \E m \in I : /\ k < m
                         /\ lsm[m].key = lsm[k].key
                         /\ \A r \in Reader : snap[r] \notin k .. (m - 1)
         \/ /\ j # "flush"
            /\ lsm[k].type = "kTypeDeletion"
            /\ \A q \in I : q < k /\ lsm[q].key = lsm[k].key =>
                 jout[j][q] = NoEntry
  BY Zenon, <1>j DEF JobInv
<1>c. j # "flush" => \A k \in I : \A q \in Seqs : q < k => q \in I
  BY <1>t DEF JobInput, TypeOK, Seqs
<1> HIDE DEF I
<1>n. 1 .. n \subseteq Seqs /\ n \in Nat
  BY <1>t DEF TypeOK, Seqs
<1>1. lsm'[i].type # "none" /\ lsm'[i] # NoEntry /\ i \in Seqs
  BY <1>n DEF Visible, NoEntry
<1>2. lsm'[i] = lsm[i] \/ Rewrites(lsm'[i], lsm[i], jfile[j])
  BY Zenon, <1>r, <1>1
<1>3. lsm'[i].key = lsm[i].key /\ lsm[i].type # "none" /\ EntryOK(lsm[i])
  <2>1. EntryOK(lsm[i])
    BY Zenon, <1>t, <1>1 DEF LogInv
  <2> QED BY Zenon, <1>t, <1>1, <1>2, <2>1, RewritesKey
<1>4. ASSUME NEW q \in (i + 1) .. n, lsm[q].key = lsm[i].key PROVE FALSE
  <2> DEFINE S == {k \in (i + 1) .. n : lsm[k].key = lsm[i].key}
  <2>1. S \in SUBSET (0 .. n) /\ S # {}
    BY <1>4
  <2>2. PICK k \in S : \A x \in S : x <= k
    BY Zenon, <1>n, <2>1, MaxExists
  <2>3. k \in (i + 1) .. n /\ lsm[k].key = lsm[i].key /\ k \in Seqs /\ k \in Nat
    BY <1>n, <2>2
  <2>4. lsm'[k].key # lsm[k].key
    BY Zenon, <1>3, <2>3 DEF Visible
  <2>5. k \in I /\ EntryOK(lsm[k])
    BY Zenon, <1>r, <1>t, <2>3, <2>4 DEF LogInv
  <2>6. jout[j][k] = NoEntry
    BY <1>r, <1>t, <2>4, <2>5, RewritesKey
  <2>7. lsm[k] # NoEntry
    <3>1. lsm[i].key \in Key /\ lsm[i].key # 0
      BY Zenon, <1>3 DEF EntryOK
    <3> QED BY <2>3, <3>1 DEF NoEntry
  <2>8. CASE \E m \in I : /\ k < m
                          /\ lsm[m].key = lsm[k].key
                          /\ \A r \in Reader : snap[r] \notin k .. (m - 1)
    <3>1. PICK m \in I : /\ k < m
                         /\ lsm[m].key = lsm[k].key
                         /\ \A r \in Reader : snap[r] \notin k .. (m - 1)
      BY Zenon, <2>8
    <3>2. m \in Seqs /\ m \in Nat /\ m <= synced'
      BY <1>r, <3>1 DEF Seqs
    <3>3. m > n
      <4>1. m <= n => m \in S
        BY <1>n, <2>3, <3>1, <3>2
      <4> QED BY <1>n, <2>2, <2>3, <3>1, <3>2, <4>1
    <3>4. n \in k .. (m - 1) /\ n < synced'
      BY <1>n, <1>r, <2>3, <3>2, <3>3
    <3> QED BY <1>n, <1>r, <3>1, <3>4
  <2>9. CASE /\ j # "flush"
             /\ \A p \in I : p < k /\ lsm[p].key = lsm[k].key =>
                  jout[j][p] = NoEntry
    <3>1. i \in I /\ i < k
      BY <1>1, <1>c, <1>n, <2>3, <2>5, <2>9
    <3> QED BY Zenon, <1>1, <1>r, <2>3, <2>9, <3>1
  <2> QED BY <1>d, <2>5, <2>6, <2>7, <2>8, <2>9
<1> QED BY Zenon, <1>2, <1>3, <1>4 DEF Visible

\* A blob index that is new with the table leads to the job's own file.
LEMMA RewritesFile ==
  ASSUME NEW e, NEW o, NEW f, e = o \/ Rewrites(e, o, f)
  PROVE  \/ e = o
         \/ e.type = "kTypeValue" /\ e.file = NoFile
         \/ /\ e.type = "kTypeBlobIndex" /\ e.file = f /\ f \in File
            /\ RecordOf(e) \in recs[f]
<1>1. CASE /\ o.type = "kTypeValue"
           /\ f \in File
           /\ e = BlobEntry(o.key, o.val, f)
           /\ RecordOf(o) \in recs[f]
  BY Zenon, <1>1 DEF BlobEntry, RecordOf
<1>2. CASE e = ValueEntry(o.key, o.val)
  BY Zenon, <1>2 DEF ValueEntry
<1> QED BY Zenon, <1>1, <1>2 DEF Rewrites

\* The installation of one table keeps what the other job knows.
LEMMA InstallTableJobs ==
  ASSUME IndInv, NEW j \in Job, InstallTable(j)
  PROVE  JobsInv'
<1> USE ConstantsAssumption
<1>t. TypeOK /\ LogInv /\ JobsInv
  BY Zenon DEF IndInv
<1>u. /\ UNCHANGED <<seq, fileVars, readerVars>>
      /\ callbacks' = callbacks \cup ({jfile[j]} \ {NoFile})
      /\ EndTable(j)
      /\ jpc[j] = "built"
      /\ flushed' = IF j = "flush" THEN jupto[j] ELSE flushed
  BY Zenon DEF InstallTable
<1>v. UNCHANGED <<seq, state, recs, snap>>
  BY Zenon, <1>u DEF fileVars, readerVars
<1>o. /\ jpc'[j] = "idle"
      /\ \A k \in Job : k # j => /\ jpc'[k] = jpc[k] /\ jupto'[k] = jupto[k]
                                 /\ jfile'[k] = jfile[k] /\ jout'[k] = jout[k]
  BY Zenon, <1>t, <1>u DEF TypeOK, EndTable
<1>r. /\ flushed <= flushed'
      /\ flushed' \in 0 .. MaxSeq
      /\ \A i \in Seqs : i \notin JobInput(j, jupto[j]) => lsm'[i] = lsm[i]
      /\ jfile[j] # NoFile => state[jfile[j]] = "kPendingLSM"
  BY Zenon, InstallTableRange
<1>1. ASSUME NEW k \in Job, jpc'[k] = "built" PROVE JobInv(k)'
  <2>1. k # j /\ jpc[k] = "built" /\ JobInv(k)
    BY Zenon, <1>o, <1>t, <1>1 DEF JobsInv
  <2> DEFINE K == JobInput(k, jupto[k])
  <2>2. K' = K
    <3>1. CASE k = "flush"
      <4>1. flushed' = flushed
        BY Zenon, <1>u, <2>1, <3>1
      <4> QED BY Zenon, <1>o, <2>1, <4>1 DEF JobInput
    <3>2. CASE k # "flush"
      BY Zenon, <1>o, <2>1, <3>2 DEF JobInput
    <3> QED BY Zenon, <3>1, <3>2
  <2>3. \A i \in K : i \in Seqs /\ i \notin JobInput(j, jupto[j])
    <3>1. JobInv(j)
      BY Zenon, <1>t DEF JobsInv
    <3>2. CASE k = "flush"
      <4>1. j # "flush" /\ jupto[j] <= flushed /\ jupto[k] <= seq
        BY Zenon, <1>u, <2>1, <3>1, <3>2 DEF JobInv
      <4> QED BY <1>t, <3>2, <4>1 DEF TypeOK, JobInput, Seqs
    <3>3. CASE k # "flush"
      <4>1. j = "flush" /\ jupto[k] <= flushed
        BY Zenon, <2>1, <3>3 DEF JobInv
      <4> QED BY <1>t, <3>3, <4>1 DEF TypeOK, JobInput, Seqs
    <3> QED BY Zenon, <3>2, <3>3
  <2>4. \A i \in K : lsm'[i] = lsm[i]
    BY Zenon, <1>r, <2>3
  <2>5. jfile[k] \notin callbacks'
    BY Zenon, <1>t, <1>u, <2>1 DEF JobsInv, JobInv
  <2>6. jupto[k] <= (IF k = "flush" THEN seq ELSE flushed')
        /\ (k = "flush" => flushed' <= jupto[k])
    <3>1. k = "flush" => flushed' = flushed
      BY Zenon, <1>u, <2>1
    <3>2. jupto[k] <= (IF k = "flush" THEN seq ELSE flushed)
          /\ (k = "flush" => flushed <= jupto[k])
      BY Zenon, <2>1 DEF JobInv
    <3> QED BY <1>t, <1>r, <3>1, <3>2 DEF TypeOK
  <2> HIDE DEF K
  <2>7. ASSUME NEW i \in K, jout[k][i] # NoEntry
        PROVE  Rewrites(jout[k][i], lsm[i], jfile[k])'
    <3>1. Rewrites(jout[k][i], lsm[i], jfile[k])
      BY Zenon, <2>1, <2>7 DEF JobInv, K
    <3>2. /\ lsm'[i] = lsm[i] /\ jout'[k] = jout[k] /\ jfile'[k] = jfile[k]
          /\ recs' = recs
      BY Zenon, <1>v, <1>o, <2>1, <2>4, <2>7
    <3> QED BY Zenon, <3>1, <3>2 DEF Rewrites, RecordOf
  <2>8. ASSUME NEW i \in K, jout'[k][i] = NoEntry, lsm'[i] # NoEntry
        PROVE  \/ \E m \in K : /\ i < m
                               /\ lsm'[m].key = lsm'[i].key
                               /\ \A r \in Reader : snap'[r] \notin i .. (m - 1)
               \/ /\ k # "flush"
                  /\ lsm'[i].type = "kTypeDeletion"
                  /\ \A m \in K : m < i /\ lsm'[m].key = lsm'[i].key => jout'[k][m] = NoEntry
    <3>1. /\ jout[k][i] = NoEntry /\ lsm[i] # NoEntry /\ jout'[k] = jout[k]
          /\ snap' = snap
      BY Zenon, <1>v, <1>o, <2>1, <2>4, <2>8
    <3>2. \/ \E m \in K : /\ i < m
                          /\ lsm[m].key = lsm[i].key
                          /\ \A r \in Reader : snap[r] \notin i .. (m - 1)
          \/ /\ k # "flush"
             /\ lsm[i].type = "kTypeDeletion"
             /\ \A m \in K : m < i /\ lsm[m].key = lsm[i].key => jout[k][m] = NoEntry
      BY Zenon, <2>1, <2>8, <3>1 DEF JobInv, K
    <3> QED BY Zenon, <2>4, <2>8, <3>1, <3>2
  <2>9. /\ jupto'[k] <= (IF k = "flush" THEN seq' ELSE flushed')
        /\ k = "flush" => flushed' <= jupto'[k]
    <3>1. jupto'[k] = jupto[k] /\ seq' = seq
      BY Zenon, <1>v, <1>o, <2>1
    <3> QED BY Zenon, <2>6, <3>1
  <2>10. /\ jfile'[k] # NoFile => state'[jfile'[k]] = "kPendingLSM"
         /\ jfile'[k] \notin callbacks'
    BY Zenon, <1>v, <1>o, <2>1, <2>5 DEF JobInv
  <2>11. \A i \in K : jout'[k][i] # NoEntry => Rewrites(jout[k][i], lsm[i], jfile[k])'
    BY Zenon, <1>o, <2>1, <2>7
  <2>12. JobInput(k, jupto[k])' = K
    BY Zenon, <2>2 DEF K
  <2> QED BY Zenon, <2>8, <2>9, <2>10, <2>11, <2>12 DEF JobInv
<1>2. \A k \in Job : JobInv(k)'
  BY Zenon, <1>1 DEF JobInv
<1>3. \A f \in callbacks' : state'[f] = "kPendingLSM"
  BY Zenon, <1>t, <1>u, <1>v, <1>r DEF JobsInv
<1>4. \A k, m \in Job : k # m /\ jpc'[k] = "built" /\ jpc'[m] = "built" =>
        (jfile'[k] = jfile'[m] => jfile'[k] = NoFile)
  BY <1>t, <1>o DEF JobsInv
<1> QED BY Zenon, <1>2, <1>3, <1>4 DEF JobsInv

\* InstallTable preserves the invariant.
LEMMA InstallTablePreserves ==
  ASSUME IndInv, NEW j \in Job, InstallTable(j)
  PROVE  IndInv'
<1> USE ConstantsAssumption
<1>t. TypeOK /\ LogInv /\ ReaderInv
  BY Zenon DEF IndInv
<1>u. /\ UNCHANGED <<seq, userVars, bgError, fileVars, readerVars, oldest, gcVars>>
      /\ callbacks' = callbacks \cup ({jfile[j]} \ {NoFile})
      /\ EndTable(j)
  BY Zenon DEF InstallTable
<1>v. UNCHANGED <<seq, nextFile, state, recs, obsSeq, snap, late, idx, failed,
                  oldest, gpc, inputs, todo, batches, out>>
  BY Zenon, <1>u DEF fileVars, readerVars, gcVars
<1> DEFINE I == JobInput(j, jupto[j])
<1>r. /\ I \subseteq Seqs
      /\ \A m \in I : m <= seq
      /\ flushed' <= synced' /\ synced <= synced' /\ synced' <= seq
      /\ flushed' \in 0 .. MaxSeq /\ synced' \in 0 .. MaxSeq
      /\ \A i \in I : lsm'[i] = jout[j][i]
      /\ \A i \in Seqs : i \notin I => lsm'[i] = lsm[i]
      /\ \A i \in I : lsm'[i] # NoEntry => Rewrites(lsm'[i], lsm[i], jfile[j])
      /\ jfile[j] # NoFile => jfile[j] \in File /\ state[jfile[j]] = "kPendingLSM"
  BY InstallTableRange
<1>q. \A n \in synced' .. seq : n \in 0 .. seq /\ n >= synced' /\ n \in synced .. seq
  <2>1. \A m \in Nat : 0 .. m \subseteq Nat
    OBVIOUS
  <2>2. seq \in Nat /\ synced \in Nat /\ synced' \in Nat
    BY ZenonT(40), <1>t, <1>r, <2>1, ConstantsAssumption DEF TypeOK
  <2> QED BY Zenon, <1>r, <2>2, LaterRange
<1>x. ASSUME NEW n \in 0 .. seq,
             n >= synced' \/ \E r \in Reader : snap[r] = n,
             NEW i \in 1 .. n, Visible(i, n)'
      PROVE  /\ Visible(i, n)
             /\ \/ lsm'[i] = lsm[i]
                \/ lsm'[i].type = "kTypeValue" /\ lsm'[i].file = NoFile
                \/ /\ lsm'[i].type = "kTypeBlobIndex"
                   /\ lsm'[i].file = jfile[j]
                   /\ jfile[j] \in File
                   /\ state[jfile[j]] = "kPendingLSM"
                   /\ RecordOf(lsm'[i]) \in recs[jfile[j]]
  <2>1. Visible(i, n) /\ (lsm'[i] = lsm[i] \/ Rewrites(lsm'[i], lsm[i], jfile[j]))
    BY Zenon, <1>x, InstallTableVisible
  <2>2. 0 \notin File
    BY DEF File
  <2> QED BY <1>r, <2>1, <2>2, RewritesFile
<1> HIDE DEF I
<1>1. TypeOK'
  <2>1. lsm' \in [Seqs -> Entry]
    <3>1. lsm' = [i \in Seqs |-> IF i \in I THEN jout[j][i] ELSE lsm[i]]
      BY Zenon DEF InstallTable, I
    <3> QED BY <1>t, <3>1 DEF TypeOK
  <2>2. callbacks' \in SUBSET File
    BY <1>t, <1>u, <1>r DEF TypeOK
  <2>3. /\ jpc' \in [Job -> JobPC] /\ jupto' \in [Job -> 0 .. MaxSeq]
        /\ jfile' \in [Job -> 0 .. MaxFile] /\ jout' \in [Job -> [Seqs -> Entry]]
    BY <1>t, <1>u, NoEntryType DEF TypeOK, EndTable, JobPC
  <2> QED BY Zenon, <1>t, <1>u, <1>r, <2>1, <2>2, <2>3
          DEF TypeOK, userVars, fileVars, readerVars, gcVars
<1>2. LogInv'
  <2>1. ASSUME NEW i \in Seqs PROVE EntryOK(lsm'[i])
    <3>1. EntryOK(lsm[i])
      BY Zenon, <1>t DEF LogInv
    <3>2. EntryOK(NoEntry)
      BY Zenon DEF EntryOK, NoEntry
    <3> QED BY Zenon, <1>t, <1>r, <3>1, <3>2, RewritesKey
  <2>2. ASSUME NEW i \in Seqs, i > seq PROVE lsm'[i] = NoEntry
    <3>1. i \notin I
      BY <1>t, <1>r, <2>2 DEF TypeOK, Seqs
    <3> QED BY Zenon, <1>t, <1>r, <2>2, <3>1 DEF LogInv
  <2> QED BY Zenon, <1>r, <1>v, <2>1, <2>2 DEF LogInv, EntryOK
<1>3. FreshInv' /\ PurgeInv' /\ ReaderInv'
  BY Zenon, <1>v DEF IndInv, FreshInv, PurgeInv, ReaderInv, EntryOK
<1>4. JobsInv'
  BY Zenon, InstallTableJobs
<1>5. GCLease'
  BY Zenon, <1>v, LeaseFrame
<1>6. GCInv'
  <2> SUFFICES ASSUME NEW w \in Worker
               PROVE  WorkerInv(w)' /\ BatchInv(w)' /\ Tracked(w)' /\ InputsUnused(w)'
    BY Zenon DEF GCInv
  <2>i. \A f \in inputs[w] : f \in File /\ f # 0 /\ state[f] = "kBeingGC"
    <3>1. 0 \notin File
      BY Zenon, FileNumber
    <3>2. inputs[w] \subseteq File
      BY Zenon, <1>t DEF TypeOK
    <3>3. \A f \in inputs[w] : state[f] = "kBeingGC"
      BY Zenon DEF IndInv, GCLease
    <3> QED BY Zenon, <3>1, <3>2, <3>3
  <2>1. WorkerInv(w)' /\ BatchInv(w)'
    BY Zenon, <1>v DEF IndInv, GCInv, WorkerInv, BatchInv
  <2>2. ASSUME NEW r \in InputRecord, r.file \in inputs[w], Current(r)'
        PROVE  Current(r)
    <3>1. PICK n \in 0 .. seq : n = seq
      BY <1>t DEF TypeOK
    <3>2. PICK i \in 1 .. n : /\ Visible(i, n)'
                              /\ lsm'[i] = BlobEntry(r.key, r.val, r.file)
      BY Zenon, <1>v, <2>2, <3>1 DEF Current, Visible
    <3>3. n >= synced'
      BY Zenon, <1>t, <1>r, <3>1 DEF TypeOK
    <3>4. Visible(i, n) /\ lsm'[i] = lsm[i]
      <4>1. lsm'[i].type = "kTypeBlobIndex" /\ lsm'[i].file = r.file
        BY SMTT(30), <3>2 DEF BlobEntry
      <4> QED BY Zenon, <1>x, <2>2, <2>i, <3>2, <3>3, <4>1
    <3> QED BY Zenon, <3>1, <3>2, <3>4 DEF Current
  <2>3. Tracked(w)'
    BY Zenon, <1>v, <2>2 DEF IndInv, GCInv, Tracked
  <2>4. InputsUnused(w)'
    <3> SUFFICES ASSUME gpc[w] = "delete", NEW n \in synced' .. seq,
                        NEW i \in 1 .. n, Visible(i, n)'
                 PROVE  lsm'[i].file \notin inputs[w]
      BY Zenon, <1>v DEF InputsUnused
    <3>1. n \in 0 .. seq /\ n >= synced' /\ n \in synced .. seq
      BY Zenon, <1>q
    <3>2. Visible(i, n) => lsm[i].file \notin inputs[w]
      BY Zenon, <3>1 DEF IndInv, GCInv, InputsUnused
    <3> QED BY Zenon, <1>x, <2>i, <3>1, <3>2
  <2> QED BY Zenon, <2>1, <2>3, <2>4
<1>7. ObsoleteInvisible'
  <2> SUFFICES ASSUME NEW f \in File, NEW r \in Reader, state[f] = "kObsolete",
                      snap[r] >= obsSeq[f],
                      NEW n, n = snap[r], NEW i \in 1 .. n, Visible(i, n)'
               PROVE  lsm'[i].file # f
    BY ZenonT(40), <1>v DEF ObsoleteInvisible, Visible
  <2>1. n \in 0 .. seq /\ f # 0
    BY SMTT(30), <1>t DEF TypeOK, ReaderInv, File
  <2>2. Visible(i, n) => lsm[i].file # f
    BY Zenon DEF IndInv, ObsoleteInvisible
  <2> QED BY Zenon, <1>x, <2>1, <2>2
<1>8. CrashConsistent'
  <2> SUFFICES ASSUME NEW n \in synced' .. seq, NEW i \in 1 .. n, Visible(i, n)',
                      lsm'[i].type = "kTypeBlobIndex"
               PROVE  /\ Alive(lsm'[i].file)
                      /\ RecordOf(lsm'[i]) \in recs[lsm'[i].file]
    <3>1. \A i : Alive(lsm[i].file)' <=> Alive(lsm'[i].file)
      BY Zenon, <1>v DEF Alive
    <3>2. \A i : /\ Alive(lsm'[i].file)
                 /\ RecordOf(lsm'[i]) \in recs[lsm'[i].file]
                 => Readable(lsm[i])'
      BY Zenon, <1>v DEF Readable, Found, Present, Alive, RecordOf
    <3> QED BY Zenon, <1>v, <3>1, <3>2 DEF CrashConsistent
  <2>1. n \in 0 .. seq /\ n >= synced' /\ n \in synced .. seq
    BY Zenon, <1>q
  <2>2. Visible(i, n) /\ lsm[i].type = "kTypeBlobIndex" =>
          Alive(lsm[i].file) /\ RecordOf(lsm[i]) \in recs[lsm[i].file]
    BY Zenon, <2>1 DEF IndInv, CrashConsistent, Readable, Found
  <2> QED BY Zenon, <1>x, <2>1, <2>2 DEF Alive
<1>9. SnapshotReadable'
  <2>1. ASSUME NEW r \in Reader, snap[r] # NoSnap, ~late[r],
               NEW n, n = snap[r], NEW i \in 1 .. n, Visible(i, n)',
               lsm'[i].type = "kTypeBlobIndex"
        PROVE  /\ Present(lsm'[i].file)
               /\ RecordOf(lsm'[i]) \in recs[lsm'[i].file]
    <3>1. n \in 0 .. seq
      <4>1. n <= seq /\ n \in -1 .. MaxSeq /\ seq \in 0 .. MaxSeq
        BY Zenon, <1>t, <2>1 DEF TypeOK, ReaderInv
      <4>2. n # -1
        BY Zenon, <2>1 DEF NoSnap
      <4> QED BY Zenon, <4>1, <4>2, SnapshotRange
    <3>2. Visible(i, n) /\ lsm[i].type = "kTypeBlobIndex" =>
            Present(lsm[i].file) /\ RecordOf(lsm[i]) \in recs[lsm[i].file]
      BY Zenon, <2>1, <3>1 DEF IndInv, SnapshotReadable, Readable, Found
    <3> QED BY SMTT(30), <1>x, <2>1, <3>1, <3>2 DEF Present, Alive
  <2>2. ASSUME NEW r \in Reader, snap[r] # NoSnap, ~late[r]
        PROVE  Readable(idx[r])' /\ ~failed'[r]
    BY Zenon, <1>v, <2>2 DEF IndInv, SnapshotReadable, Readable, Found, Present, Alive, RecordOf
  <2>3. ASSUME NEW r \in Reader, snap[r] # NoSnap, ~late[r],
               NEW i \in 1 .. snap[r], Visible(i, snap[r])'
        PROVE  Readable(lsm[i])'
    <3>1. Visible(i, snap[r])' <=> \A n : n = snap[r] => Visible(i, n)'
      BY Zenon, <1>v DEF Visible
    <3>2. lsm'[i].type = "kTypeBlobIndex" => /\ Present(lsm'[i].file)
                                            /\ RecordOf(lsm'[i]) \in recs[lsm'[i].file]
      BY Zenon, <2>1, <2>3, <3>1
    <3> QED BY Zenon, <1>v, <3>2 DEF Readable, Found, Present, Alive, RecordOf
  <2> QED BY ZenonT(40), <1>v, <2>2, <2>3 DEF SnapshotReadable
<1> QED BY Zenon, <1>1, <1>2, <1>3, <1>4, <1>5, <1>6, <1>7, <1>8, <1>9 DEF IndInv
=============================================================================
